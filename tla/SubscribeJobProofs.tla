------------------------- MODULE SubscribeJobProofs -------------------------
(***************************************************************************)
(* Proofs about SubscribeJob, for any number of connections, instances,    *)
(* messages and connection losses: a subscribe job implements LiveJob, its *)
(* counters and the state of its connection are reported as they are, and  *)
(* no message is lost without a word.                                      *)
(***************************************************************************)
EXTENDS SubscribeJob, FiniteSetTheorems, SequenceTheorems, TLAPS

\* The instance a launch is busy with is in the map, has no worker yet and is not finished,
\* so that nobody replaces or removes it; and one connection at a time launches.
LaunchOwnsName ==
  /\ \A c \in Callers : At(c, "launch") =>
       /\ caller[c].on = current /\ current # 0
       /\ worker[current] = "none" /\ ~job[current].finished
  /\ \A c, d \in Callers : At(c, "launch") /\ At(d, "launch") => c = d

\* A worker belongs to the instance under the name, and has not reported its end.
WorkerOwnsName ==
  \A j \in Jobs : /\ Alive(j) => current = j /\ ~job[j].finished
                  /\ j > created => worker[j] = "none"

\* There is always room for the message that is received next.
HasRoom(j) ==
  worker[j] \in {"none", "spawned", "subscribed", "loop", "pausing", "waiting", "next"}
    => Len(batch[j]) < BatchSize

\* A worker is reported as paused only where it waits, with an empty batch.
PausedWaits(j) ==
  /\ job[j].paused => worker[j] = "waiting"
  /\ worker[j] \in {"pausing", "waiting"} => batch[j] = <<>>

\* While a flush is being counted, its batch is already in the table.
Counted(j) ==
  Len(table[j]) = inserted[j] + (IF worker[j] = "count" THEN Len(batch[j]) ELSE 0)

Below(s, t) == \A i \in DOMAIN s, k \in DOMAIN t : s[i] < t[k]

UpTo(s, n) == \A i \in DOMAIN s : s[i] <= n

\* Rows, batch and queue are consecutive pieces of what was published.
InOrder(j) ==
  /\ Live!Increasing(table[j]) /\ Live!Increasing(batch[j]) /\ Live!Increasing(sub[j].pending)
  /\ worker[j] # "count" => Below(table[j], batch[j])
  /\ Below(table[j], sub[j].pending) /\ Below(batch[j], sub[j].pending)
  /\ UpTo(table[j], published) /\ UpTo(batch[j], published) /\ UpTo(sub[j].pending, published)

Orderly(j) == HasRoom(j) /\ PausedWaits(j) /\ Counted(j) /\ InOrder(j)

-----------------------------------------------------------------------------
\* The variables keep their types.

USE SubscribeAssumption DEF SubscribeAssumption

LEMMA InitTypes == Init => TypeOK
<1> SUFFICES ASSUME Init PROVE TypeOK
  OBVIOUS
<1>1. CallersOK /\ FlagsOK /\ WorkersOK
  BY DEF Init, CallersOK, FlagsOK, WorkersOK, Flags, NewJob, Idle
<1>2. LinksOK
  BY DEF Init, LinksOK, NewSub, NothingSeen, Subscriptions
<1>3. RowsOK
  BY DEF Init, RowsOK
<1> QED
  BY <1>1, <1>2, <1>3 DEF TypeOK

\* What a callback makes of the flags, and the counters of a subscription.
LEMMA ReportedFlags == ASSUME NEW f \in Flags, NEW call PROVE Reported(f, call) \in Flags
<1>1. CASE call = "reconnected"
  <2>1. Reported(f, call) = [f EXCEPT !.connected = TRUE, !.reconnecting = FALSE,
                                      !.reconnected = TRUE]
    BY <1>1 DEF Reported, Flags
  <2> QED
    BY <2>1 DEF Flags
<1>2. CASE call = "disconnected"
  <2>1. Reported(f, call) = [f EXCEPT !.connected = FALSE, !.reconnecting = TRUE]
    BY <1>2 DEF Reported, Flags
  <2> QED
    BY <2>1 DEF Flags
<1>3. CASE call \notin {"disconnected", "reconnected"}
  <2>1. Reported(f, call) = [f EXCEPT !.connected = FALSE, !.reconnecting = FALSE]
    BY <1>3 DEF Reported, Flags
  <2> QED
    BY <2>1 DEF Flags
<1> QED
  BY <1>1, <1>2, <1>3

\* A single flag.
LEMMA OneFlag ==
  ASSUME NEW f \in Flags, NEW v \in BOOLEAN
  PROVE  /\ [f EXCEPT !.stop = v] \in Flags /\ [f EXCEPT !.pause = v] \in Flags
         /\ [f EXCEPT !.paused = v] \in Flags /\ [f EXCEPT !.finished = v] \in Flags
  BY DEF Flags

LEMMA StatisticsAreCounters ==
  ASSUME NEW s \in Subscriptions PROVE Statistics(s) \in [delivered : Nat, dropped : Nat]
  BY DEF Statistics, Subscriptions

\* The queue after a message has been taken from it, and after one has arrived.
Queued(s) == s \in Subscriptions /\ Len(s.pending) <= PendingLimit

LEMMA TakenIsQueued == ASSUME NEW s, Queued(s), s.pending # <<>> PROVE Queued(Taken(s))
<1>1. s.pending \in Seq(Messages) /\ Len(s.pending) <= PendingLimit /\ s.delivered + 1 \in Nat
  BY DEF Queued, Subscriptions
<1>2. Tail(s.pending) \in Seq(Messages) /\ Len(Tail(s.pending)) <= PendingLimit
  BY <1>1
<1> QED
  BY <1>1, <1>2 DEF Queued, Subscriptions, Taken

LEMMA ArrivesIsQueued ==
  ASSUME NEW s, Queued(s), NEW m \in Messages PROVE Queued(Arrives(s, m))
<1>1. s.pending \in Seq(Messages) /\ Len(s.pending) <= PendingLimit /\ s.dropped + 1 \in Nat
  BY DEF Queued, Subscriptions
<1>2. CASE Len(s.pending) < PendingLimit
  <2>1. Append(s.pending, m) \in Seq(Messages) /\ Len(Append(s.pending, m)) <= PendingLimit
    BY <1>1, <1>2
  <2>2. Arrives(s, m) = [s EXCEPT !.pending = Append(s.pending, m)]
    BY <1>2 DEF Arrives
  <2> QED
    BY <2>1, <2>2 DEF Queued, Subscriptions
<1>3. CASE ~(Len(s.pending) < PendingLimit)
  <2>1. Arrives(s, m) = [s EXCEPT !.dropped = s.dropped + 1, !.slow = TRUE]
    BY <1>3 DEF Arrives
  <2> QED
    BY <1>1, <2>1 DEF Queued, Subscriptions
<1> QED
  BY <1>2, <1>3

\* Where the connections are.
LEMMA CallerKeepsCallers ==
  ASSUME CallersOK, NEW c \in Callers, CallerStep(c)
  PROVE  CallersOK'
<1> USE DEF Jobs, CallersOK, At, Goes, Returns, Idle, ctl
<1>1. CASE Start(c)
  BY <1>1 DEF Start, Enter
<1>2. CASE CreateChecks(c)
  BY <1>2 DEF CreateChecks
<1>3. CASE CreateWaits(c)
  BY <1>3 DEF CreateWaits
<1>4. CASE CreateReplaces(c)
  BY <1>4 DEF CreateReplaces, Enter
<1>5. CASE LaunchSucceeds(c)
  BY <1>5 DEF LaunchSucceeds
<1>6. CASE LaunchFails(c)
  BY <1>6 DEF LaunchFails
<1>7. CASE Remove(c)
  BY <1>7 DEF Remove
<1>8. CASE RemoveChecks(c)
  BY <1>8 DEF RemoveChecks
<1>9. CASE RemoveWaits(c)
  BY <1>9 DEF RemoveWaits
<1>10. CASE RemoveErases(c)
  BY <1>10 DEF RemoveErases
<1>11. CASE Stop(c)
  BY <1>11 DEF Stop
<1>12. CASE Pause(c, "pause")
  BY <1>12 DEF Pause
<1>13. CASE Pause(c, "resume")
  BY <1>13 DEF Pause
<1>14. CASE PauseJob(c)
  BY <1>14 DEF PauseJob
<1>15. CASE ResumeJob(c)
  BY <1>15 DEF ResumeJob
<1> QED
  BY <1>1, <1>2, <1>3, <1>4, <1>5, <1>6, <1>7, <1>8, <1>9, <1>10, <1>11, <1>12, <1>13, <1>14,
     <1>15 DEF CallerStep

\* The flags that connections set.
LEMMA CallerKeepsFlags ==
  ASSUME CallersOK, FlagsOK, NEW c \in Callers, CallerStep(c)
  PROVE  FlagsOK'
<1>1. CASE UNCHANGED job
  BY <1>1 DEF FlagsOK
<1>2. CASE Enter(c)
  <2>1. NewJob \in Flags
    BY DEF NewJob, Flags
  <2> QED
    BY <1>2, <2>1 DEF Enter, FlagsOK
<1>3. CASE LaunchFails(c)
  <2>1. \A k \in Jobs : [job[k] EXCEPT !.finished = TRUE] \in Flags
    BY OneFlag DEF FlagsOK
  <2> QED
    BY <1>3, <2>1 DEF LaunchFails, FlagsOK
<1>4. CASE Stop(c)
  <2>1. \A k \in Jobs : [job[k] EXCEPT !.stop = TRUE] \in Flags
    BY OneFlag DEF FlagsOK
  <2> QED
    BY <1>4, <2>1 DEF Stop, FlagsOK
<1>5. CASE PauseJob(c)
  <2>1. \A k \in Jobs : [job[k] EXCEPT !.pause = TRUE] \in Flags
    BY OneFlag DEF FlagsOK
  <2> QED
    BY <1>5, <2>1 DEF PauseJob, FlagsOK
<1>6. CASE ResumeJob(c)
  <2>1. \A k \in Jobs : [job[k] EXCEPT !.pause = FALSE] \in Flags
    BY OneFlag DEF FlagsOK
  <2> QED
    BY <1>6, <2>1 DEF ResumeJob, FlagsOK
<1>7. \/ Enter(c) \/ UNCHANGED job
      \/ LaunchFails(c) \/ Stop(c) \/ PauseJob(c) \/ ResumeJob(c)
  BY DEF CallerStep, Start, CreateChecks, CreateWaits, CreateReplaces, LaunchSucceeds, Remove,
         RemoveChecks, RemoveWaits, RemoveErases, Pause
<1> QED
  BY <1>1, <1>2, <1>3, <1>4, <1>5, <1>6, <1>7

\* A connection starts a worker.
LEMMA CallerKeepsWorkers ==
  ASSUME WorkersOK, NEW c \in Callers, CallerStep(c)
  PROVE  WorkersOK'
<1>1. CASE LaunchSucceeds(c)
  BY <1>1 DEF LaunchSucceeds, Moves, WorkersOK, data
<1>2. CASE UNCHANGED <<worker, after>>
  BY <1>2 DEF WorkersOK
<1>3. LaunchSucceeds(c) \/ UNCHANGED <<worker, after>>
  BY DEF CallerStep, data, Start, CreateChecks, CreateWaits, CreateReplaces, LaunchFails, Remove,
         RemoveChecks, RemoveWaits, RemoveErases, Stop, Pause, PauseJob, ResumeJob
<1> QED
  BY <1>1, <1>2, <1>3

\* The flags that workers and callbacks set.
LEMMA JobKeepsFlags ==
  ASSUME FlagsOK, NEW j \in Jobs, WorkerProgress(j) \/ WorkerFails(j) \/ CallsBack(j)
  PROVE  FlagsOK'
<1>1. CASE UNCHANGED job
  BY <1>1 DEF FlagsOK
<1>2. CASE WorkerRuns(j)
  <2>1. [job[j] EXCEPT !.running = TRUE, !.connected = TRUE, !.reconnecting = FALSE] \in Flags
    BY DEF FlagsOK, Flags
  <2> QED
    BY <1>2, <2>1 DEF WorkerRuns, FlagsOK
<1>3. CASE WorkerPauses(j)
  <2>1. [job[j] EXCEPT !.paused = TRUE] \in Flags
    BY OneFlag DEF FlagsOK
  <2> QED
    BY <1>3, <2>1 DEF WorkerPauses, FlagsOK
<1>4. CASE WorkerResumes(j)
  <2>1. [job[j] EXCEPT !.paused = FALSE] \in Flags
    BY OneFlag DEF FlagsOK
  <2> QED
    BY <1>4, <2>1 DEF WorkerResumes, FlagsOK
<1>5. CASE WorkerEnds(j)
  <2>1. [job[j] EXCEPT !.running = FALSE, !.paused = FALSE, !.pause = FALSE,
                       !.connected = FALSE, !.reconnecting = FALSE] \in Flags
    BY DEF FlagsOK, Flags
  <2> QED
    BY <1>5, <2>1 DEF WorkerEnds, FlagsOK
<1>6. CASE WorkerFinishes(j)
  <2>1. [job[j] EXCEPT !.finished = TRUE] \in Flags
    BY OneFlag DEF FlagsOK
  <2> QED
    BY <1>6, <2>1 DEF WorkerFinishes, FlagsOK
<1>7. CASE WorkerFails(j)
  <2>1. [job[j] EXCEPT !.running = FALSE, !.paused = FALSE, !.pause = FALSE, !.failed = TRUE]
          \in Flags
    BY DEF FlagsOK, Flags
  <2> QED
    BY <1>7, <2>1 DEF WorkerFails, FlagsOK
<1>8. CASE CallsBack(j)
  <2>1. Reported(job[j], Head(calls[j])) \in Flags
    BY ReportedFlags DEF FlagsOK
  <2> QED
    BY <1>8, <2>1 DEF CallsBack, FlagsOK
<1>9. \/ WorkerRuns(j) \/ WorkerPauses(j) \/ WorkerResumes(j) \/ WorkerEnds(j)
      \/ WorkerFinishes(j) \/ WorkerFails(j) \/ CallsBack(j)
      \/ UNCHANGED job
  BY DEF WorkerProgress, WorkerSubscribes, WorkerLooks, WorkerInserts, WorkerCounts, Receives,
         TimesOut, IsHindered, WorkerCloses
<1> QED
  BY <1>1, <1>2, <1>3, <1>4, <1>5, <1>6, <1>7, <1>8, <1>9

\* Where the workers go.
LEMMA JobKeepsWorkers ==
  ASSUME WorkersOK, NEW j \in Jobs, WorkerProgress(j) \/ WorkerFails(j)
  PROVE  WorkersOK'
<1> USE DEF WorkersOK, Moves, data
<1>1. CASE WorkerSubscribes(j)
  BY <1>1 DEF WorkerSubscribes
<1>2. CASE WorkerRuns(j)
  BY <1>2 DEF WorkerRuns
<1>3. CASE WorkerLooks(j)
  BY <1>3 DEF WorkerLooks, Flushes
<1>4. CASE WorkerInserts(j)
  BY <1>4 DEF WorkerInserts
<1>5. CASE WorkerCounts(j)
  BY <1>5 DEF WorkerCounts
<1>6. CASE WorkerPauses(j)
  BY <1>6 DEF WorkerPauses
<1>7. CASE WorkerResumes(j)
  BY <1>7 DEF WorkerResumes
<1>8. CASE Receives(j)
  BY <1>8 DEF Receives
<1>9. CASE TimesOut(j)
  BY <1>9 DEF TimesOut, Flushes
<1>10. CASE IsHindered(j)
  BY <1>10 DEF IsHindered
<1>11. CASE WorkerEnds(j)
  BY <1>11 DEF WorkerEnds
<1>12. CASE WorkerCloses(j)
  BY <1>12 DEF WorkerCloses
<1>13. CASE WorkerFinishes(j)
  BY <1>13 DEF WorkerFinishes
<1>14. CASE WorkerFails(j)
  BY <1>14 DEF WorkerFails
<1> QED
  BY <1>1, <1>2, <1>3, <1>4, <1>5, <1>6, <1>7, <1>8, <1>9, <1>10, <1>11, <1>12, <1>13, <1>14
     DEF WorkerProgress

\* Statistics, queues and connections.
LEMMA JobKeepsLinks ==
  ASSUME LinksOK, NEW j \in Jobs,
         WorkerProgress(j) \/ WorkerRefreshes(j) \/ WorkerFails(j) \/ LinkDrops(j) \/ LinkSettles(j)
           \/ CallsBack(j)
  PROVE  LinksOK'
<1> USE DEF LinksOK, net
<1>1. CASE WorkerSubscribes(j)
  <2>1. Queued(NewSub)
    BY DEF Queued, NewSub, Subscriptions
  <2> QED
    BY <1>1, <2>1 DEF WorkerSubscribes, Queued
<1>2. CASE WorkerRuns(j)
  BY <1>2 DEF WorkerRuns
<1>3. CASE WorkerLooks(j)
  BY <1>3 DEF WorkerLooks
<1>4. CASE WorkerInserts(j)
  BY <1>4 DEF WorkerInserts
<1>5. CASE WorkerCounts(j)
  BY <1>5 DEF WorkerCounts
<1>6. CASE WorkerPauses(j)
  BY <1>6 DEF WorkerPauses
<1>7. CASE WorkerResumes(j)
  BY <1>7 DEF WorkerResumes
<1>8. CASE Receives(j)
  <2>1. Queued(Taken(sub[j]))
    BY <1>8, TakenIsQueued DEF Receives, Queued
  <2>2. sub' \in [Jobs -> Subscriptions] /\ sub'[j] = Taken(sub[j])
    BY <1>8, <2>1 DEF Receives, Queued
  <2>3. Statistics(sub'[j]) \in [delivered : Nat, dropped : Nat]
    BY <2>1, <2>2, StatisticsAreCounters DEF Queued
  <2> QED
    BY <1>8, <2>1, <2>2, <2>3 DEF Receives, Queued
<1>9. CASE TimesOut(j)
  <2>1. Statistics(sub[j]) \in [delivered : Nat, dropped : Nat]
    BY StatisticsAreCounters
  <2> QED
    BY <1>9, <2>1 DEF TimesOut
<1>10. CASE IsHindered(j)
  <2>1. Queued(sub'[j]) /\ sub' = [sub EXCEPT ![j] = sub'[j]]
    <3>1. CASE UNCHANGED sub
      BY <3>1 DEF Queued
    <3>2. CASE sub' = [sub EXCEPT ![j] = [@ EXCEPT !.slow = FALSE]]
      BY <3>2 DEF Queued, Subscriptions
    <3> QED
      BY <1>10, <3>1, <3>2 DEF IsHindered
  <2>2. Statistics(sub'[j]) \in [delivered : Nat, dropped : Nat]
    BY <2>1, StatisticsAreCounters DEF Queued
  <2> QED
    BY <1>10, <2>1, <2>2 DEF IsHindered, Queued
<1>11. CASE WorkerEnds(j)
  <2>1. Statistics(sub[j]) \in [delivered : Nat, dropped : Nat]
    BY StatisticsAreCounters
  <2> QED
    BY <1>11, <2>1 DEF WorkerEnds
<1>12. CASE WorkerCloses(j)
  BY <1>12 DEF WorkerCloses
<1>13. CASE WorkerFinishes(j)
  BY <1>13 DEF WorkerFinishes
<1>14. CASE WorkerRefreshes(j)
  <2>1. Statistics(sub[j]) \in [delivered : Nat, dropped : Nat]
    BY StatisticsAreCounters
  <2> QED
    BY <1>14, <2>1 DEF WorkerRefreshes
<1>15. CASE WorkerFails(j)
  BY <1>15 DEF WorkerFails
<1>16. CASE LinkDrops(j)
  <2>1. link' \in [Jobs -> {"none", "up", "down", "closed"}]
    BY <1>16 DEF LinkDrops, LinkBecomes
  <2>2. calls' \in [Jobs -> Seq({"disconnected", "reconnected", "closed"})]
    BY <1>16 DEF LinkDrops, LinkBecomes
  <2>3. losses' \in 0..MaxLosses
    BY <1>16 DEF LinkDrops
  <2> QED
    BY <1>16, <2>1, <2>2, <2>3 DEF LinkDrops, LinkBecomes
<1>17. CASE LinkSettles(j)
  <2>1. CASE LinkBecomes(j, "up", "reconnected")
    BY <1>17, <2>1 DEF LinkSettles, LinkBecomes
  <2>2. CASE LinkBecomes(j, "closed", "closed")
    BY <1>17, <2>2 DEF LinkSettles, LinkBecomes
  <2> QED
    BY <1>17, <2>1, <2>2 DEF LinkSettles
<1>18. CASE CallsBack(j)
  BY <1>18 DEF CallsBack
<1> QED
  BY <1>1, <1>2, <1>3, <1>4, <1>5, <1>6, <1>7, <1>8, <1>9, <1>10, <1>11, <1>12, <1>13, <1>14,
     <1>15, <1>16, <1>17, <1>18 DEF WorkerProgress

LEMMA PublishKeepsLinks == ASSUME LinksOK, Publish PROVE LinksOK'
<1>1. published' \in Messages
  BY DEF LinksOK, Publish, Messages
<1>2. \A j \in Jobs : Queued(sub[j]) /\ Queued(Arrives(sub[j], published'))
  BY <1>1, ArrivesIsQueued DEF LinksOK, Queued
<1>3. sub' \in [Jobs -> Subscriptions] /\ \A j \in Jobs : Len(sub'[j].pending) <= PendingLimit
  BY <1>2 DEF Publish, Queued
<1> QED
  BY <1>1, <1>3 DEF LinksOK, Publish, Messages

-----------------------------------------------------------------------------
\* Who owns the name.

Control == CallersOK /\ FlagsOK /\ WorkersOK /\ LinksOK

Owned == LaunchOwnsName /\ WorkerOwnsName

\* One instance: a worker that runs, a connection, or a callback.
JobStep(j) ==
  \/ WorkerProgress(j)
  \/ WorkerRefreshes(j)
  \/ WorkerFails(j)
  \/ LinkDrops(j)
  \/ LinkSettles(j)
  \/ CallsBack(j)

LEMMA ControlTypes == ASSUME Control, Next PROVE Control'
<1>1. CASE \E c \in Callers : CallerStep(c)
  <2>1. PICK c \in Callers : CallerStep(c)
    BY <1>1
  <2>2. CallersOK' /\ FlagsOK' /\ WorkersOK'
    BY <2>1, CallerKeepsCallers, CallerKeepsFlags, CallerKeepsWorkers DEF Control
  <2>3. UNCHANGED <<seen, net>>
    BY <2>1 DEF CallerStep, Start, CreateChecks, CreateWaits, CreateReplaces, LaunchSucceeds,
                LaunchFails, Remove, RemoveChecks, RemoveWaits, RemoveErases, Stop, Pause,
                PauseJob, ResumeJob
  <2>4. LinksOK'
    BY <2>3 DEF Control, LinksOK, net
  <2> QED
    BY <2>2, <2>4 DEF Control
<1>2. CASE \E j \in Jobs : JobStep(j)
  <2>1. PICK j \in Jobs : JobStep(j)
    BY <1>2
  <2>2. LinksOK'
    BY <2>1, JobKeepsLinks DEF Control, JobStep
  <2>3. FlagsOK'
    <3>1. CASE WorkerProgress(j) \/ WorkerFails(j) \/ CallsBack(j)
      BY <3>1, JobKeepsFlags DEF Control
    <3>2. CASE WorkerRefreshes(j) \/ LinkDrops(j) \/ LinkSettles(j)
      BY <3>2 DEF Control, FlagsOK, WorkerRefreshes, LinkDrops, LinkSettles, LinkBecomes
    <3> QED
      BY <2>1, <3>1, <3>2 DEF JobStep
  <2>4. WorkersOK'
    <3>1. CASE WorkerProgress(j) \/ WorkerFails(j)
      BY <3>1, JobKeepsWorkers DEF Control
    <3>2. CASE WorkerRefreshes(j) \/ LinkDrops(j) \/ LinkSettles(j) \/ CallsBack(j)
      BY <3>2 DEF Control, WorkersOK, WorkerRefreshes, LinkDrops, LinkSettles, LinkBecomes,
                  CallsBack, data
    <3> QED
      BY <2>1, <3>1, <3>2 DEF JobStep
  <2>5. UNCHANGED ctl
    BY <2>1 DEF JobStep, WorkerProgress, LinkBecomes, WorkerSubscribes, WorkerRuns,
       WorkerLooks, WorkerInserts, WorkerCounts, WorkerPauses,
                WorkerResumes, Receives, TimesOut, IsHindered, WorkerEnds, WorkerCloses,
                WorkerFinishes, WorkerRefreshes, WorkerFails, LinkDrops, LinkSettles, CallsBack
  <2>6. CallersOK'
    BY <2>5 DEF Control, CallersOK, ctl
  <2> QED
    BY <2>2, <2>3, <2>4, <2>6 DEF Control
<1>3. CASE Publish
  <2>1. LinksOK'
    BY <1>3, PublishKeepsLinks DEF Control
  <2>2. CallersOK' /\ FlagsOK' /\ WorkersOK'
    BY <1>3 DEF Publish, Control, CallersOK, FlagsOK, WorkersOK, ctl, data
  <2> QED
    BY <2>1, <2>2 DEF Control
<1> QED
  BY <1>1, <1>2, <1>3 DEF Next, JobStep

\* What a step of one instance leaves alone: the map, the other instances and, unless its
\* thread ends, worker_finished; and only a worker that is alive goes anywhere.
Framed(j) ==
  /\ UNCHANGED ctl
  /\ \A k \in Jobs \ {j} : worker'[k] = worker[k] /\ job'[k] = job[k]
  /\ worker'[j] # worker[j] => Alive(j) /\ worker'[j] # "none"
  /\ job'[j].finished => job[j].finished \/ worker'[j] = "done"

LEMMA JobStepFrame == ASSUME Control, NEW j \in Jobs, JobStep(j) PROVE Framed(j)
<1> USE DEF Framed, Alive, Moves, Control, WorkersOK, FlagsOK, Flags, data
<1>1. CASE WorkerSubscribes(j)
  BY <1>1 DEF WorkerSubscribes
<1>2. CASE WorkerRuns(j)
  BY <1>2 DEF WorkerRuns
<1>3. CASE WorkerLooks(j)
  BY <1>3 DEF WorkerLooks, Flushes
<1>4. CASE WorkerInserts(j)
  BY <1>4 DEF WorkerInserts
<1>5. CASE WorkerCounts(j)
  BY <1>5 DEF WorkerCounts
<1>6. CASE WorkerPauses(j)
  BY <1>6 DEF WorkerPauses
<1>7. CASE WorkerResumes(j)
  BY <1>7 DEF WorkerResumes
<1>8. CASE Receives(j)
  BY <1>8 DEF Receives
<1>9. CASE TimesOut(j)
  BY <1>9 DEF TimesOut, Flushes
<1>10. CASE IsHindered(j)
  BY <1>10 DEF IsHindered
<1>11. CASE WorkerEnds(j)
  BY <1>11 DEF WorkerEnds
<1>12. CASE WorkerCloses(j)
  BY <1>12 DEF WorkerCloses
<1>13. CASE WorkerFinishes(j)
  BY <1>13 DEF WorkerFinishes
<1>14. CASE WorkerRefreshes(j)
  BY <1>14 DEF WorkerRefreshes
<1>15. CASE WorkerFails(j)
  BY <1>15 DEF WorkerFails
<1>16. CASE LinkDrops(j)
  BY <1>16 DEF LinkDrops, LinkBecomes
<1>17. CASE LinkSettles(j)
  BY <1>17 DEF LinkSettles, LinkBecomes
<1>18. CASE CallsBack(j)
  BY <1>18 DEF CallsBack, Reported
<1> QED
  BY <1>1, <1>2, <1>3, <1>4, <1>5, <1>6, <1>7, <1>8, <1>9, <1>10, <1>11, <1>12, <1>13,
     <1>14, <1>15, <1>16, <1>17, <1>18 DEF JobStep, WorkerProgress

LEMMA JobKeepsOwner == ASSUME Control, Owned, NEW j \in Jobs, JobStep(j) PROVE Owned'
<1>1. Framed(j)
  BY JobStepFrame
<1>2. LaunchOwnsName'
  BY <1>1 DEF Framed, Owned, LaunchOwnsName, At, Alive, ctl, Control, CallersOK, Jobs
<1>3. WorkerOwnsName'
  BY <1>1 DEF Framed, Owned, WorkerOwnsName, Alive, ctl
<1> QED
  BY <1>2, <1>3 DEF Owned

\* A connection that puts a new instance into the map, where there is none or one without a
\* worker.
LEMMA EnterKeepsOwner ==
  ASSUME Control, Owned, NEW c \in Callers, Enter(c), UNCHANGED worker,
         current = 0 \/ job[current].finished
  PROVE  Owned'
<1> USE DEF Control, CallersOK, FlagsOK, WorkersOK
<1>1. created + 1 \in Jobs /\ current' = created + 1 /\ created' = created + 1
  BY DEF Enter, Jobs
<1>2. /\ job'[created + 1] = NewJob
      /\ caller'[c] = [at |-> "launch", on |-> created + 1]
      /\ \A d \in Callers \ {c} : caller'[d] = caller[d]
  BY <1>1 DEF Enter, Goes
<1>3. \A d \in Callers : ~At(d, "launch")
  BY DEF Owned, LaunchOwnsName
<1>4. \A j \in Jobs : ~Alive(j)
  BY DEF Owned, WorkerOwnsName, Jobs
<1>5. worker[created + 1] = "none"
  BY <1>1 DEF Owned, WorkerOwnsName
<1>6. LaunchOwnsName'
  BY <1>1, <1>2, <1>3, <1>5 DEF LaunchOwnsName, At, NewJob
<1>7. WorkerOwnsName'
  BY <1>1, <1>4 DEF Owned, WorkerOwnsName, Alive, Jobs
<1> QED
  BY <1>6, <1>7 DEF Owned

\* A connection that goes anywhere but to a launch, and touches no instance.
LEMMA WalkKeepsOwner ==
  ASSUME Control, Owned, NEW c \in Callers, UNCHANGED <<current, created, worker>>,
         \A j \in Jobs : job'[j].finished = job[j].finished,
         \A d \in Callers : caller'[d] = caller[d] \/ caller'[d].at # "launch"
  PROVE  Owned'
<1>1. LaunchOwnsName'
  BY DEF Control, CallersOK, Owned, LaunchOwnsName, At, Jobs
<1>2. WorkerOwnsName'
  BY DEF Owned, WorkerOwnsName, Alive
<1> QED
  BY <1>1, <1>2 DEF Owned

LEMMA CallerKeepsOwner == ASSUME Control, Owned, NEW c \in Callers, CallerStep(c) PROVE Owned'
<1>1. CASE Start(c)
  <2>1. CASE current = 0
    BY <1>1, <2>1, EnterKeepsOwner DEF Start
  <2>2. CASE current # 0
    BY <1>1, <2>2, WalkKeepsOwner DEF Start, Goes, Control, CallersOK
  <2> QED
    BY <2>1, <2>2
<1>2. CASE CreateChecks(c)
  BY <1>2, WalkKeepsOwner DEF CreateChecks, Goes, Returns, Idle, Control, CallersOK
<1>3. CASE CreateWaits(c)
  BY <1>3, WalkKeepsOwner DEF CreateWaits, Goes, Returns, Idle, Control, CallersOK
<1>4. CASE CreateReplaces(c)
  <2>1. CASE StillReplaceable(caller[c].on)
    BY <1>4, <2>1, EnterKeepsOwner DEF CreateReplaces, StillReplaceable
  <2>2. CASE ~StillReplaceable(caller[c].on)
    BY <1>4, <2>2, WalkKeepsOwner DEF CreateReplaces, Goes, Control, CallersOK
  <2> QED
    BY <2>1, <2>2
<1>5. CASE LaunchSucceeds(c)
  <2> DEFINE j == caller[c].on
  <2>1. At(c, "launch") /\ j = current /\ j \in Jobs /\ ~job[j].finished
    BY <1>5 DEF LaunchSucceeds, Owned, LaunchOwnsName, Control, CallersOK, Jobs
  <2>2. worker' = [worker EXCEPT ![j] = "spawned"] /\ UNCHANGED <<current, created, job>>
    BY <1>5 DEF LaunchSucceeds, Moves
  <2>3. \A d \in Callers : ~At(d, "launch")'
    BY <1>5, <2>1 DEF LaunchSucceeds, Returns, Idle, At, Owned, LaunchOwnsName, Control, CallersOK
  <2>4. LaunchOwnsName'
    BY <2>3 DEF LaunchOwnsName
  <2>5. WorkerOwnsName'
    BY <2>1, <2>2 DEF Owned, WorkerOwnsName, Alive, Control, CallersOK, WorkersOK
  <2> QED
    BY <2>4, <2>5 DEF Owned
<1>6. CASE LaunchFails(c)
  <2> DEFINE j == caller[c].on
  <2>1. At(c, "launch") /\ j = current /\ j \in Jobs /\ worker[j] = "none"
    BY <1>6 DEF LaunchFails, Owned, LaunchOwnsName, Control, CallersOK, Jobs
  <2>2. job' = [job EXCEPT ![j].finished = TRUE] /\ UNCHANGED <<current, created, worker>>
    BY <1>6 DEF LaunchFails
  <2>3. \A d \in Callers : ~At(d, "launch")'
    BY <1>6, <2>1 DEF LaunchFails, Goes, At, Owned, LaunchOwnsName, Control, CallersOK
  <2>4. LaunchOwnsName'
    BY <2>3 DEF LaunchOwnsName
  <2>5. WorkerOwnsName'
    BY <2>1, <2>2 DEF Owned, WorkerOwnsName, Alive, Control, FlagsOK, Flags
  <2> QED
    BY <2>4, <2>5 DEF Owned
<1>7. CASE Remove(c)
  BY <1>7, WalkKeepsOwner DEF Remove, Goes, Returns, Idle, Control, CallersOK
<1>8. CASE RemoveChecks(c)
  BY <1>8, WalkKeepsOwner DEF RemoveChecks, Goes, Returns, Idle, Control, CallersOK
<1>9. CASE RemoveWaits(c)
  BY <1>9, WalkKeepsOwner DEF RemoveWaits, Goes, Returns, Idle, Control, CallersOK
<1>10. CASE RemoveErases(c)
  <2>1. CASE StillReplaceable(caller[c].on)
    <3>1. \A d \in Callers : ~At(d, "launch")
      BY <2>1 DEF StillReplaceable, Owned, LaunchOwnsName
    <3>2. \A j \in Jobs : ~Alive(j)
      BY <2>1 DEF StillReplaceable, Owned, WorkerOwnsName
    <3>3. LaunchOwnsName'
      BY <1>10, <3>1 DEF RemoveErases, LaunchOwnsName, At, Returns, Idle, Control, CallersOK
    <3>4. WorkerOwnsName'
      BY <1>10, <3>2 DEF RemoveErases, Owned, WorkerOwnsName, Alive
    <3> QED
      BY <3>3, <3>4 DEF Owned
  <2>2. CASE ~StillReplaceable(caller[c].on)
    BY <1>10, <2>2, WalkKeepsOwner DEF RemoveErases, Returns, Idle, Control, CallersOK
  <2> QED
    BY <2>1, <2>2
<1>11. CASE Stop(c)
  BY <1>11, WalkKeepsOwner DEF Stop, Goes, Returns, Idle, ctl, Control, CallersOK, FlagsOK, Flags
<1>12. CASE Pause(c, "pause")
  BY <1>12, WalkKeepsOwner DEF Pause, Goes, Returns, Idle, Control, CallersOK
<1>13. CASE Pause(c, "resume")
  BY <1>13, WalkKeepsOwner DEF Pause, Goes, Returns, Idle, Control, CallersOK
<1>14. CASE PauseJob(c)
  BY <1>14, WalkKeepsOwner DEF PauseJob, Goes, Returns, Idle, ctl, Control, CallersOK, FlagsOK,
     Flags
<1>15. CASE ResumeJob(c)
  BY <1>15, WalkKeepsOwner DEF ResumeJob, Goes, Returns, Idle, ctl, Control, CallersOK,
     FlagsOK, Flags
<1> QED
  BY <1>1, <1>2, <1>3, <1>4, <1>5, <1>6, <1>7, <1>8, <1>9, <1>10, <1>11, <1>12, <1>13,
     <1>14, <1>15 DEF CallerStep

LEMMA OwnerStep == ASSUME Control, Owned, Next PROVE Owned'
<1>1. CASE Publish
  BY <1>1 DEF Publish, ctl, Owned, LaunchOwnsName, WorkerOwnsName, At, Alive
<1> QED
  BY <1>1, CallerKeepsOwner, JobKeepsOwner DEF Next, JobStep

-----------------------------------------------------------------------------
\* Rows in order.

\* Pieces of sequences that increase.
LEMMA ConcatIncreases ==
  ASSUME NEW s \in Seq(Nat), NEW t \in Seq(Nat), Live!Increasing(s), Live!Increasing(t), Below(s, t)
  PROVE  Live!Increasing(s \o t)
<1> SUFFICES ASSUME NEW i \in DOMAIN (s \o t), NEW k \in DOMAIN (s \o t), i < k
             PROVE  (s \o t)[i] < (s \o t)[k]
  BY DEF Live!Increasing
<1>1. CASE k <= Len(s)
  BY <1>1 DEF Live!Increasing
<1>2. CASE i > Len(s)
  BY <1>2 DEF Live!Increasing
<1>3. CASE i <= Len(s) /\ k > Len(s)
  BY <1>3 DEF Below
<1> QED
  BY <1>1, <1>2, <1>3

LEMMA ConcatBelow ==
  ASSUME NEW s \in Seq(Nat), NEW t \in Seq(Nat), NEW u \in Seq(Nat), Below(s, u), Below(t, u)
  PROVE  Below(s \o t, u)
<1> SUFFICES ASSUME NEW i \in DOMAIN (s \o t), NEW k \in DOMAIN u PROVE (s \o t)[i] < u[k]
  BY DEF Below
<1>1. CASE i <= Len(s)
  BY <1>1 DEF Below
<1>2. CASE i > Len(s)
  BY <1>2 DEF Below
<1> QED
  BY <1>1, <1>2

LEMMA ConcatUpTo ==
  ASSUME NEW s \in Seq(Nat), NEW t \in Seq(Nat), NEW n \in Nat, UpTo(s, n), UpTo(t, n)
  PROVE  UpTo(s \o t, n)
<1> SUFFICES ASSUME NEW i \in DOMAIN (s \o t) PROVE (s \o t)[i] <= n
  BY DEF UpTo
<1>1. CASE i <= Len(s)
  BY <1>1 DEF UpTo
<1>2. CASE i > Len(s)
  BY <1>2 DEF UpTo
<1> QED
  BY <1>1, <1>2

\* The first message of a queue goes to the end of a batch that is below it.
LEMMA TakeInOrder ==
  ASSUME NEW b \in Seq(Nat), NEW q \in Seq(Nat), q # <<>>, NEW t \in Seq(Nat), NEW n \in Nat,
         Live!Increasing(b), Live!Increasing(q), Below(b, q), Below(t, b), Below(t, q),
         UpTo(b, n), UpTo(q, n)
  PROVE  /\ Live!Increasing(Append(b, Head(q))) /\ Live!Increasing(Tail(q))
         /\ Below(Append(b, Head(q)), Tail(q)) /\ Below(t, Append(b, Head(q))) /\ Below(t, Tail(q))
         /\ UpTo(Append(b, Head(q)), n) /\ UpTo(Tail(q), n)
<1>1. \A i \in DOMAIN Tail(q) : Tail(q)[i] = q[i + 1] /\ i + 1 \in DOMAIN q
  OBVIOUS
<1>2. \A i \in DOMAIN Append(b, Head(q)) :
        \/ i \in DOMAIN b /\ Append(b, Head(q))[i] = b[i]
        \/ i = Len(b) + 1 /\ Append(b, Head(q))[i] = q[1] /\ 1 \in DOMAIN q
  OBVIOUS
<1>3. Live!Increasing(Append(b, Head(q)))
  <2> SUFFICES ASSUME NEW i \in DOMAIN Append(b, Head(q)), NEW k \in DOMAIN Append(b, Head(q)), i < k
               PROVE  Append(b, Head(q))[i] < Append(b, Head(q))[k]
    BY DEF Live!Increasing
  <2>1. i \in DOMAIN b /\ Append(b, Head(q))[i] = b[i]
    BY <1>2
  <2> QED
    BY <1>2, <2>1 DEF Live!Increasing, Below
<1>4. Live!Increasing(Tail(q))
  <2> SUFFICES ASSUME NEW i \in DOMAIN Tail(q), NEW k \in DOMAIN Tail(q), i < k
               PROVE  Tail(q)[i] < Tail(q)[k]
    BY DEF Live!Increasing
  <2> QED
    BY <1>1 DEF Live!Increasing
<1>5. Below(Append(b, Head(q)), Tail(q))
  <2> SUFFICES ASSUME NEW i \in DOMAIN Append(b, Head(q)), NEW k \in DOMAIN Tail(q)
               PROVE  Append(b, Head(q))[i] < Tail(q)[k]
    BY DEF Below
  <2>1. Tail(q)[k] = q[k + 1] /\ k + 1 \in DOMAIN q /\ 1 < k + 1
    BY <1>1
  <2>2. CASE i \in DOMAIN b /\ Append(b, Head(q))[i] = b[i]
    BY <2>1, <2>2 DEF Below
  <2>3. CASE Append(b, Head(q))[i] = q[1] /\ 1 \in DOMAIN q
    BY <2>1, <2>3 DEF Live!Increasing
  <2> QED
    BY <1>2, <2>2, <2>3
<1>6. Below(t, Append(b, Head(q)))
  <2> SUFFICES ASSUME NEW i \in DOMAIN t, NEW k \in DOMAIN Append(b, Head(q))
               PROVE  t[i] < Append(b, Head(q))[k]
    BY DEF Below
  <2> QED
    BY <1>2 DEF Below
<1>7. Below(t, Tail(q))
  <2> SUFFICES ASSUME NEW i \in DOMAIN t, NEW k \in DOMAIN Tail(q) PROVE t[i] < Tail(q)[k]
    BY DEF Below
  <2> QED
    BY <1>1 DEF Below
<1>8. UpTo(Append(b, Head(q)), n)
  <2> SUFFICES ASSUME NEW i \in DOMAIN Append(b, Head(q)) PROVE Append(b, Head(q))[i] <= n
    BY DEF UpTo
  <2> QED
    BY <1>2 DEF UpTo
<1>9. UpTo(Tail(q), n)
  <2> SUFFICES ASSUME NEW i \in DOMAIN Tail(q) PROVE Tail(q)[i] <= n
    BY DEF UpTo
  <2> QED
    BY <1>1 DEF UpTo
<1> QED
  BY <1>3, <1>4, <1>5, <1>6, <1>7, <1>8, <1>9

\* A message that has just been published is above all others.
LEMMA PublishedInOrder ==
  ASSUME NEW q \in Seq(Nat), NEW t \in Seq(Nat), NEW b \in Seq(Nat), NEW n \in Nat,
         Live!Increasing(q), Below(t, q), Below(b, q), UpTo(q, n), UpTo(t, n), UpTo(b, n)
  PROVE  /\ Live!Increasing(Append(q, n + 1)) /\ Below(t, Append(q, n + 1))
         /\ Below(b, Append(q, n + 1)) /\ UpTo(Append(q, n + 1), n + 1)
<1>1. \A i \in DOMAIN Append(q, n + 1) :
        \/ i \in DOMAIN q /\ Append(q, n + 1)[i] = q[i]
        \/ i = Len(q) + 1 /\ Append(q, n + 1)[i] = n + 1
  OBVIOUS
<1>2. Live!Increasing(Append(q, n + 1))
  <2> SUFFICES ASSUME NEW i \in DOMAIN Append(q, n + 1), NEW k \in DOMAIN Append(q, n + 1), i < k
               PROVE  Append(q, n + 1)[i] < Append(q, n + 1)[k]
    BY DEF Live!Increasing
  <2>1. i \in DOMAIN q /\ Append(q, n + 1)[i] = q[i]
    BY <1>1
  <2> QED
    BY <1>1, <2>1 DEF Live!Increasing, UpTo
<1>3. Below(t, Append(q, n + 1))
  <2> SUFFICES ASSUME NEW i \in DOMAIN t, NEW k \in DOMAIN Append(q, n + 1)
               PROVE  t[i] < Append(q, n + 1)[k]
    BY DEF Below
  <2> QED
    BY <1>1 DEF Below, UpTo
<1>4. Below(b, Append(q, n + 1))
  <2> SUFFICES ASSUME NEW i \in DOMAIN b, NEW k \in DOMAIN Append(q, n + 1)
               PROVE  b[i] < Append(q, n + 1)[k]
    BY DEF Below
  <2> QED
    BY <1>1 DEF Below, UpTo
<1>5. UpTo(Append(q, n + 1), n + 1)
  <2> SUFFICES ASSUME NEW i \in DOMAIN Append(q, n + 1) PROVE Append(q, n + 1)[i] <= n + 1
    BY DEF UpTo
  <2> QED
    BY <1>1 DEF UpTo
<1> QED
  BY <1>2, <1>3, <1>4, <1>5

\* An instance that only moves keeps its rows in order.
LEMMA StaysOrderly ==
  ASSUME NEW k \in Jobs, Orderly(k), UNCHANGED <<batch, table, inserted, published>>,
         worker'[k] = worker[k], sub'[k].pending = sub[k].pending,
         job'[k].paused => job[k].paused
  PROVE  Orderly(k)'
  BY DEF Orderly, HasRoom, PausedWaits, Counted, InOrder, Live!Increasing, Below, UpTo

LEMMA OtherStaysOrderly ==
  ASSUME NEW k \in Jobs, Orderly(k), worker'[k] = worker[k], job'[k] = job[k],
         batch'[k] = batch[k], table'[k] = table[k], inserted'[k] = inserted[k],
         sub'[k] = sub[k], UNCHANGED published
  PROVE  Orderly(k)'
  BY DEF Orderly, HasRoom, PausedWaits, Counted, InOrder, Live!Increasing, Below, UpTo

LEMMA MovesOrderly ==
  ASSUME NEW j \in Jobs, Orderly(j), UNCHANGED <<batch, table, inserted, published>>,
         sub'[j].pending = sub[j].pending,
         worker[j] # "count", worker'[j] # "count",
         HasRoom(j)', PausedWaits(j)'
  PROVE  Orderly(j)'
  BY DEF Orderly, Counted, InOrder, Live!Increasing, Below, UpTo

Rows == RowsOK /\ \A j \in Jobs : Orderly(j)

LEMMA SeqOfMessages == ASSUME NEW s \in Seq(Messages) PROVE s \in Seq(Nat)
  BY DEF Messages

LEMMA InsertsOrderly ==
  ASSUME Control, Rows, NEW j \in Jobs, WorkerInserts(j) PROVE RowsOK' /\ Orderly(j)'
<1> USE DEF WorkerInserts, Moves, Control, WorkersOK, Rows, Orderly
<1>1. /\ table[j] \in Seq(Messages) /\ batch[j] \in Seq(Messages)
      /\ table[j] \o batch[j] \in Seq(Messages) /\ Len(batch[j]) <= BatchSize
  BY DEF RowsOK
<1>2. /\ table'[j] = table[j] \o batch[j] /\ batch' = batch /\ worker'[j] = "count"
      /\ inserted' = inserted /\ sub' = sub /\ job' = job /\ published' = published
  BY DEF RowsOK, net
<1>3. RowsOK'
  BY <1>1 DEF RowsOK
<1>4. HasRoom(j)' /\ PausedWaits(j)' /\ Counted(j)'
  <2>1. HasRoom(j)' /\ PausedWaits(j)'
    BY <1>2 DEF HasRoom, PausedWaits
  <2>2. Len(table[j] \o batch[j]) = Len(table[j]) + Len(batch[j])
    BY <1>1
  <2>3. Len(table[j]) = inserted[j]
    <3>1. inserted[j] \in Nat /\ worker[j] # "count" /\ Counted(j)
      BY DEF RowsOK
    <3> QED
      BY <3>1 DEF Counted
  <2> QED
    BY <1>2, <2>1, <2>2, <2>3 DEF Counted
<1>5. /\ table[j] \in Seq(Nat) /\ batch[j] \in Seq(Nat) /\ sub[j].pending \in Seq(Nat)
      /\ published \in Nat
  BY <1>1, SeqOfMessages DEF LinksOK, Subscriptions
<1>6. InOrder(j)
  OBVIOUS
<1>7. Live!Increasing(table[j] \o batch[j])
  BY <1>5, <1>6, ConcatIncreases DEF InOrder
<1>8. Below(table[j] \o batch[j], sub[j].pending)
  BY <1>5, <1>6, ConcatBelow DEF InOrder
<1>9. UpTo(table[j] \o batch[j], published)
  BY <1>5, <1>6, ConcatUpTo DEF InOrder
<1>10. InOrder(j)'
  BY <1>2, <1>6, <1>7, <1>8, <1>9 DEF InOrder, Live!Increasing, Below, UpTo
<1> QED
  BY <1>3, <1>4, <1>10

LEMMA CountsOrderly ==
  ASSUME Control, Rows, NEW j \in Jobs, WorkerCounts(j) PROVE RowsOK' /\ Orderly(j)'
<1> USE DEF WorkerCounts, Moves, Control, WorkersOK, Rows, Orderly
<1>1. /\ batch'[j] = <<>> /\ table' = table /\ sub' = sub /\ job' = job /\ published' = published
      /\ inserted'[j] = inserted[j] + Len(batch[j]) /\ worker'[j] \in {"loop", "pausing", "ending"}
  BY DEF RowsOK, net
<1>2. RowsOK'
  <2>1. Len(batch[j]) \in Nat
    BY DEF RowsOK
  <2> QED
    BY <2>1 DEF RowsOK
<1>3. HasRoom(j)' /\ PausedWaits(j)' /\ Counted(j)'
  BY <1>1 DEF HasRoom, PausedWaits, Counted
<1>4. InOrder(j)'
  BY <1>1 DEF InOrder, Live!Increasing, Below, UpTo
<1> QED
  BY <1>2, <1>3, <1>4

LEMMA ReceivesOrderly ==
  ASSUME Control, Rows, NEW j \in Jobs, Receives(j) PROVE RowsOK' /\ Orderly(j)'
<1> USE DEF Receives, Moves, Control, WorkersOK, Rows, Orderly
<1> DEFINE q == sub[j].pending
<1>1. /\ batch[j] \in Seq(Messages) /\ table[j] \in Seq(Messages) /\ q \in Seq(Messages)
      /\ q # <<>> /\ Head(q) \in Messages /\ Append(batch[j], Head(q)) \in Seq(Messages)
  BY DEF RowsOK, LinksOK, Subscriptions
<1>2. /\ batch'[j] = Append(batch[j], Head(q)) /\ sub'[j].pending = Tail(q)
      /\ table' = table /\ inserted' = inserted /\ job' = job /\ published' = published
      /\ worker'[j] \in {"flush", "loop"} /\ (worker'[j] = "loop" => ~IsFull(batch'[j]))
  <2>1. batch'[j] = Append(batch[j], Head(q)) /\ sub'[j] = Taken(sub[j])
    BY DEF RowsOK, LinksOK
  <2>2. sub'[j].pending = Tail(q)
    BY <2>1 DEF LinksOK, Subscriptions, Taken
  <2>3. worker'[j] \in {"flush", "loop"} /\ (worker'[j] = "loop" => ~IsFull(batch'[j]))
    OBVIOUS
  <2> QED
    BY <2>1, <2>2, <2>3
<1>3. Len(batch[j]) < BatchSize /\ Len(Append(batch[j], Head(q))) = Len(batch[j]) + 1
  BY <1>1 DEF HasRoom
<1>4. RowsOK'
  BY <1>1, <1>3 DEF RowsOK
<1>5. HasRoom(j)' /\ PausedWaits(j)' /\ Counted(j)'
  BY <1>1, <1>2, <1>3 DEF HasRoom, PausedWaits, Counted, IsFull
<1>6. table[j] \in Seq(Nat) /\ batch[j] \in Seq(Nat) /\ q \in Seq(Nat) /\ published \in Nat
  BY <1>1, SeqOfMessages DEF LinksOK
<1>7. InOrder(j) /\ worker[j] # "count"
  OBVIOUS
<1>8. InOrder(j)'
  <2>1. /\ Live!Increasing(batch'[j]) /\ Live!Increasing(sub'[j].pending)
        /\ Below(batch'[j], sub'[j].pending) /\ Below(table[j], batch'[j])
        /\ Below(table[j], sub'[j].pending)
        /\ UpTo(batch'[j], published) /\ UpTo(sub'[j].pending, published)
    BY <1>1, <1>2, <1>6, <1>7, TakeInOrder DEF InOrder
  <2> QED
    BY <1>2, <1>7, <2>1 DEF InOrder, Live!Increasing, Below, UpTo
<1> QED
  BY <1>4, <1>5, <1>8

LEMMA JobKeepsItsRows == ASSUME Control, Rows, NEW j \in Jobs, JobStep(j) PROVE Orderly(j)'
<1> USE DEF Moves, Control, WorkersOK, FlagsOK, Flags, LinksOK, Subscriptions, Rows, Orderly, data, net
<1>1. CASE WorkerSubscribes(j)
  <2>1. HasRoom(j)' /\ PausedWaits(j)'
    BY <1>1 DEF WorkerSubscribes, HasRoom, PausedWaits
  <2>2. sub'[j].pending = <<>>
    BY <1>1 DEF WorkerSubscribes, NewSub
  <2> QED
    <3>1. /\ table' = table /\ batch' = batch /\ inserted' = inserted /\ published' = published
          /\ worker[j] # "count" /\ worker'[j] # "count"
      BY <1>1 DEF WorkerSubscribes
    <3>2. Counted(j)'
      BY <3>1 DEF Counted
    <3>3. InOrder(j)'
      BY <2>2, <3>1 DEF InOrder, Live!Increasing, Below, UpTo
    <3> QED
      BY <2>1, <3>2, <3>3
<1>2. CASE WorkerRuns(j)
  <2>1. HasRoom(j)' /\ PausedWaits(j)'
    BY <1>2 DEF WorkerRuns, Flushes, HasRoom, PausedWaits
  <2> QED
    BY <1>2, <2>1, MovesOrderly DEF WorkerRuns, Flushes
<1>3. CASE WorkerLooks(j)
  <2>1. HasRoom(j)' /\ PausedWaits(j)'
    BY <1>3 DEF WorkerLooks, Flushes, HasRoom, PausedWaits
  <2> QED
    BY <1>3, <2>1, MovesOrderly DEF WorkerLooks, Flushes
<1>4. CASE WorkerInserts(j)
  BY <1>4, InsertsOrderly
<1>5. CASE WorkerCounts(j)
  BY <1>5, CountsOrderly
<1>6. CASE WorkerPauses(j)
  <2>1. HasRoom(j)' /\ PausedWaits(j)'
    BY <1>6 DEF WorkerPauses, Flushes, HasRoom, PausedWaits
  <2> QED
    BY <1>6, <2>1, MovesOrderly DEF WorkerPauses, Flushes
<1>7. CASE WorkerResumes(j)
  <2>1. HasRoom(j)' /\ PausedWaits(j)'
    BY <1>7 DEF WorkerResumes, Flushes, HasRoom, PausedWaits
  <2> QED
    BY <1>7, <2>1, MovesOrderly DEF WorkerResumes, Flushes
<1>8. CASE Receives(j)
  BY <1>8, ReceivesOrderly
<1>9. CASE TimesOut(j)
  <2>1. HasRoom(j)' /\ PausedWaits(j)'
    BY <1>9 DEF TimesOut, Flushes, HasRoom, PausedWaits
  <2> QED
    BY <1>9, <2>1, MovesOrderly DEF TimesOut, Flushes
<1>10. CASE IsHindered(j)
  <2>1. HasRoom(j)' /\ PausedWaits(j)'
    BY <1>10 DEF IsHindered, HasRoom, PausedWaits
  <2>2. sub'[j].pending = sub[j].pending
    BY <1>10 DEF IsHindered
  <2> QED
    BY <1>10, <2>1, <2>2, MovesOrderly DEF IsHindered
<1>11. CASE WorkerEnds(j)
  <2>1. HasRoom(j)' /\ PausedWaits(j)'
    BY <1>11 DEF WorkerEnds, Flushes, HasRoom, PausedWaits
  <2> QED
    BY <1>11, <2>1, MovesOrderly DEF WorkerEnds, Flushes
<1>12. CASE WorkerCloses(j)
  <2>1. HasRoom(j)' /\ PausedWaits(j)'
    BY <1>12 DEF WorkerCloses, Flushes, HasRoom, PausedWaits
  <2> QED
    BY <1>12, <2>1, MovesOrderly DEF WorkerCloses, Flushes
<1>13. CASE WorkerFinishes(j)
  <2>1. HasRoom(j)' /\ PausedWaits(j)'
    BY <1>13 DEF WorkerFinishes, Flushes, HasRoom, PausedWaits
  <2> QED
    BY <1>13, <2>1, MovesOrderly DEF WorkerFinishes, Flushes
<1>14. CASE WorkerRefreshes(j)
  BY <1>14, StaysOrderly DEF WorkerRefreshes, LinkBecomes
<1>15. CASE WorkerFails(j)
  <2>1. HasRoom(j)' /\ PausedWaits(j)'
    BY <1>15 DEF WorkerFails, Flushes, HasRoom, PausedWaits
  <2> QED
    BY <1>15, <2>1, MovesOrderly DEF WorkerFails, Flushes
<1>16. CASE LinkDrops(j)
  BY <1>16, StaysOrderly DEF LinkDrops, LinkBecomes
<1>17. CASE LinkSettles(j)
  BY <1>17, StaysOrderly DEF LinkSettles, LinkBecomes
<1>18. CASE CallsBack(j)
  BY <1>18, StaysOrderly DEF CallsBack, Reported
<1> QED
  BY <1>1, <1>2, <1>3, <1>4, <1>5, <1>6, <1>7, <1>8, <1>9, <1>10, <1>11, <1>12, <1>13,
     <1>14, <1>15, <1>16, <1>17, <1>18 DEF JobStep, WorkerProgress

\* The other instances, and the types of what only flushes and receptions change.
RowsFramed(j) ==
  /\ UNCHANGED published
  /\ \A k \in Jobs \ {j} :
       /\ worker'[k] = worker[k] /\ job'[k] = job[k] /\ sub'[k] = sub[k]
       /\ batch'[k] = batch[k] /\ table'[k] = table[k] /\ inserted'[k] = inserted[k]

LEMMA JobRowsFrame == ASSUME Control, Rows, NEW j \in Jobs, JobStep(j) PROVE RowsFramed(j)
<1> USE DEF RowsFramed, Moves, Control, WorkersOK, FlagsOK, LinksOK, Rows, RowsOK, data, net
<1>1. CASE WorkerSubscribes(j)
  BY <1>1 DEF WorkerSubscribes
<1>2. CASE WorkerRuns(j)
  BY <1>2 DEF WorkerRuns
<1>3. CASE WorkerLooks(j)
  BY <1>3 DEF WorkerLooks, Flushes
<1>4. CASE WorkerInserts(j)
  BY <1>4 DEF WorkerInserts
<1>5. CASE WorkerCounts(j)
  BY <1>5 DEF WorkerCounts
<1>6. CASE WorkerPauses(j)
  BY <1>6 DEF WorkerPauses
<1>7. CASE WorkerResumes(j)
  BY <1>7 DEF WorkerResumes
<1>8. CASE Receives(j)
  BY <1>8 DEF Receives
<1>9. CASE TimesOut(j)
  BY <1>9 DEF TimesOut, Flushes
<1>10. CASE IsHindered(j)
  BY <1>10 DEF IsHindered
<1>11. CASE WorkerEnds(j)
  BY <1>11 DEF WorkerEnds
<1>12. CASE WorkerCloses(j)
  BY <1>12 DEF WorkerCloses
<1>13. CASE WorkerFinishes(j)
  BY <1>13 DEF WorkerFinishes
<1>14. CASE WorkerRefreshes(j)
  BY <1>14 DEF WorkerRefreshes
<1>15. CASE WorkerFails(j)
  BY <1>15 DEF WorkerFails
<1>16. CASE LinkDrops(j)
  BY <1>16 DEF LinkDrops, LinkBecomes
<1>17. CASE LinkSettles(j)
  BY <1>17 DEF LinkSettles, LinkBecomes
<1>18. CASE CallsBack(j)
  BY <1>18 DEF CallsBack
<1> QED
  BY <1>1, <1>2, <1>3, <1>4, <1>5, <1>6, <1>7, <1>8, <1>9, <1>10, <1>11, <1>12, <1>13,
     <1>14, <1>15, <1>16, <1>17, <1>18 DEF JobStep, WorkerProgress

LEMMA JobKeepsRowTypes == ASSUME Control, Rows, NEW j \in Jobs, JobStep(j) PROVE RowsOK'
<1>1. CASE WorkerInserts(j) \/ WorkerCounts(j) \/ Receives(j)
  BY <1>1, InsertsOrderly, CountsOrderly, ReceivesOrderly
<1>2. CASE ~(WorkerInserts(j) \/ WorkerCounts(j) \/ Receives(j))
  <2>1. UNCHANGED <<batch, table, inserted>>
    BY <1>2 DEF JobStep, WorkerProgress, LinkBecomes, Moves, data, WorkerSubscribes,
       WorkerRuns, WorkerLooks, WorkerPauses, WorkerResumes,
                TimesOut, IsHindered, WorkerEnds, WorkerCloses, WorkerFinishes,
                WorkerRefreshes, WorkerFails, LinkDrops, LinkSettles, CallsBack
  <2> QED
    BY <2>1 DEF Rows, RowsOK
<1> QED
  BY <1>1, <1>2

LEMMA PublishKeepsRows == ASSUME Control, Rows, Publish PROVE Rows'
<1>1. RowsOK'
  BY DEF Publish, Rows, RowsOK, data
<1>2. ASSUME NEW k \in Jobs PROVE Orderly(k)'
  <2> DEFINE q == sub[k].pending
  <2>1. /\ worker' = worker /\ job' = job /\ batch' = batch /\ table' = table
        /\ inserted' = inserted /\ published' = published + 1
    BY DEF Publish, data
  <2>2. HasRoom(k)' /\ PausedWaits(k)' /\ Counted(k)'
    BY <2>1 DEF Rows, Orderly, HasRoom, PausedWaits, Counted
  <2>3. /\ table[k] \in Seq(Nat) /\ batch[k] \in Seq(Nat) /\ q \in Seq(Nat) /\ published \in Nat
    BY SeqOfMessages DEF Control, Rows, RowsOK, LinksOK, Subscriptions
  <2>4. InOrder(k)
    BY DEF Rows, Orderly
  <2>5. UpTo(table[k], published + 1) /\ UpTo(batch[k], published + 1) /\ UpTo(q, published + 1)
    BY <2>3, <2>4 DEF InOrder, UpTo
  <2>6. CASE sub'[k].pending = q
    BY <2>1, <2>2, <2>4, <2>5, <2>6 DEF Orderly, InOrder, Live!Increasing, Below, UpTo
  <2>7. CASE sub'[k].pending = Append(q, published + 1)
    <3>1. /\ Live!Increasing(sub'[k].pending) /\ Below(table[k], sub'[k].pending)
          /\ Below(batch[k], sub'[k].pending) /\ UpTo(sub'[k].pending, published + 1)
      BY <2>3, <2>4, <2>7, PublishedInOrder DEF InOrder
    <3> QED
      BY <2>1, <2>2, <2>4, <2>5, <3>1 DEF Orderly, InOrder, Live!Increasing, Below, UpTo
  <2> QED
    BY <2>1, <2>6, <2>7 DEF Publish, Arrives, Control, LinksOK, Subscriptions
<1> QED
  BY <1>1, <1>2 DEF Rows

LEMMA CallerKeepsRows == ASSUME Control, Owned, Rows, NEW c \in Callers, CallerStep(c) PROVE Rows'
<1>1. UNCHANGED <<batch, table, inserted, sub, published>>
  BY DEF CallerStep, data, net, Start, CreateChecks, CreateWaits, CreateReplaces,
     LaunchSucceeds, LaunchFails,
         Remove, RemoveChecks, RemoveWaits, RemoveErases, Stop, Pause,
         PauseJob, ResumeJob
<1>2. RowsOK'
  BY <1>1 DEF Rows, RowsOK
<1>3. CASE LaunchSucceeds(c)
  <2>1. caller[c].on \in Jobs /\ worker[caller[c].on] = "none"
    BY <1>3 DEF LaunchSucceeds, Owned, LaunchOwnsName, Control, CallersOK, Jobs
  <2>2. PICK j \in Jobs : j = caller[c].on
    BY <2>1
  <2>3. worker' = [worker EXCEPT ![j] = "spawned"] /\ job' = job /\ worker[j] = "none"
    BY <1>3, <2>1, <2>2 DEF LaunchSucceeds, Moves
  <2>4. Orderly(j)'
    <3>1. Orderly(j)
      BY <2>2 DEF Rows
    <3>2. HasRoom(j)' /\ PausedWaits(j)'
      BY <1>1, <2>3, <3>1 DEF Orderly, HasRoom, PausedWaits, Control, WorkersOK
    <3> QED
      BY <1>1, <2>3, <3>1, <3>2, MovesOrderly DEF Control, WorkersOK
  <2>5. \A k \in Jobs \ {j} : Orderly(k)'
    BY <1>1, <2>3, StaysOrderly DEF Rows, Control, WorkersOK
  <2> QED
    BY <1>2, <2>4, <2>5 DEF Rows
<1>4. CASE UNCHANGED worker /\ \A k \in Jobs : job'[k].paused => job[k].paused
  BY <1>1, <1>2, <1>4, StaysOrderly DEF Rows
<1>5. LaunchSucceeds(c) \/ (UNCHANGED worker /\ \A k \in Jobs : job'[k].paused => job[k].paused)
  <2> USE DEF Control, FlagsOK, Flags, NewJob, Enter
  <2>1. CASE Start(c)
    BY <2>1 DEF Start, ctl
  <2>2. CASE CreateChecks(c)
    BY <2>2 DEF CreateChecks, ctl
  <2>3. CASE CreateWaits(c)
    BY <2>3 DEF CreateWaits, ctl
  <2>4. CASE CreateReplaces(c)
    BY <2>4 DEF CreateReplaces, ctl
  <2>5. CASE LaunchSucceeds(c)
    BY <2>5
  <2>6. CASE LaunchFails(c)
    BY <2>6 DEF LaunchFails, ctl
  <2>7. CASE Remove(c)
    BY <2>7 DEF Remove, ctl
  <2>8. CASE RemoveChecks(c)
    BY <2>8 DEF RemoveChecks, ctl
  <2>9. CASE RemoveWaits(c)
    BY <2>9 DEF RemoveWaits, ctl
  <2>10. CASE RemoveErases(c)
    BY <2>10 DEF RemoveErases, ctl
  <2>11. CASE Stop(c)
    BY <2>11 DEF Stop, ctl
  <2>12. CASE Pause(c, "pause")
    BY <2>12 DEF Pause, ctl
  <2>13. CASE Pause(c, "resume")
    BY <2>13 DEF Pause, ctl
  <2>14. CASE PauseJob(c)
    BY <2>14 DEF PauseJob, ctl
  <2>15. CASE ResumeJob(c)
    BY <2>15 DEF ResumeJob, ctl
  <2> QED
    BY <2>1, <2>2, <2>3, <2>4, <2>5, <2>6, <2>7, <2>8, <2>9, <2>10, <2>11, <2>12, <2>13,
       <2>14, <2>15 DEF CallerStep
<1> QED
  BY <1>3, <1>4, <1>5

LEMMA RowsStep == ASSUME Control, Owned, Rows, Next PROVE Rows'
<1>1. ASSUME NEW j \in Jobs, JobStep(j) PROVE Rows'
  <2>1. RowsOK' /\ Orderly(j)'
    BY <1>1, JobKeepsItsRows, JobKeepsRowTypes
  <2>2. \A k \in Jobs \ {j} : Orderly(k)'
    BY <1>1, JobRowsFrame, OtherStaysOrderly DEF Rows, RowsFramed
  <2> QED
    BY <2>1, <2>2 DEF Rows
<1> QED
  BY <1>1, CallerKeepsRows, PublishKeepsRows DEF Next, JobStep

-----------------------------------------------------------------------------
\* The theorems.

Inv == Control /\ Owned /\ Rows

LEMMA InitInv == Init => Inv
<1> SUFFICES ASSUME Init PROVE Inv
  OBVIOUS
<1>1. Control /\ RowsOK
  BY InitTypes DEF TypeOK, Control
<1>2. Owned
  BY DEF Init, Owned, LaunchOwnsName, WorkerOwnsName, At, Idle, Alive
<1>3. \A j \in Jobs : Orderly(j)
  BY DEF Init, Orderly, HasRoom, PausedWaits, Counted, InOrder, Live!Increasing, Below, UpTo,
     NewJob, NewSub
<1> QED
  BY <1>1, <1>2, <1>3 DEF Inv, Rows

LEMMA NextInv == Inv /\ [Next]_vars => Inv'
<1> SUFFICES ASSUME Inv, [Next]_vars PROVE Inv'
  OBVIOUS
<1>1. CASE Next
  BY <1>1, ControlTypes, OwnerStep, RowsStep DEF Inv
<1>2. CASE UNCHANGED vars
  <2> USE <1>2 DEF vars, ctl, data, net
  <2>1. Control'
    BY DEF Inv, Control, CallersOK, FlagsOK, WorkersOK, LinksOK
  <2>2. Owned'
    BY DEF Inv, Owned, LaunchOwnsName, WorkerOwnsName, At, Alive
  <2>3. Rows'
    BY OtherStaysOrderly DEF Inv, Rows, RowsOK
  <2> QED
    BY <2>1, <2>2, <2>3 DEF Inv
<1> QED
  BY <1>1, <1>2

LEMMA InvHolds == Spec => []Inv
  BY InitInv, NextInv, PTL DEF Spec

\* Types, the size of a batch and the limit of a queue, for every number of connections,
\* instances, messages and losses.
THEOREM SubscribeTypeCorrect == Spec => []TypeOK
<1>1. Inv => TypeOK
  BY DEF Inv, Control, Rows, TypeOK
<1> QED
  BY <1>1, InvHolds, PTL

\* Pausing flushes: a job that reports that it is paused has everything it received in its
\* table, and has counted it.
THEOREM PauseFlushes == Spec => []PausedIsFlushed
<1>1. Inv => PausedIsFlushed
  <2> SUFFICES ASSUME Inv, NEW j \in Jobs, job[j].paused
               PROVE  batch[j] = <<>> /\ inserted[j] = Len(table[j])
    BY DEF PausedIsFlushed
  <2>1. inserted[j] \in Nat
    BY DEF Inv, Rows, RowsOK
  <2>2. PausedWaits(j) /\ Counted(j)
    BY DEF Inv, Rows, Orderly
  <2> QED
    BY <2>1, <2>2 DEF PausedWaits, Counted
<1> QED
  BY <1>1, InvHolds, PTL

\* What a step of a job means for its user.
LEMMA StoresRows == ASSUME Inv, NEW j \in Jobs, WorkerInserts(j) PROVE Live!Stores(j)
<1> USE DEF Inv, Control, WorkersOK, Rows, RowsOK
<1>1. j \in {k \in Jobs : Alive(k)} \ {k \in Jobs : Held(k)}
  BY DEF WorkerInserts, Alive, Held, Orderly, PausedWaits
<1>2. /\ table' = [table EXCEPT ![j] = table[j] \o batch[j]] /\ job' = job
      /\ worker' = [worker EXCEPT ![j] = "count"]
  BY DEF WorkerInserts, Moves
<1>3. {k \in Jobs : Alive(k)}' = {k \in Jobs : Alive(k)} /\ {k \in Jobs : Held(k)}' = {k \in Jobs : Held(k)}
  BY <1>1, <1>2 DEF Alive, Held, WorkerInserts
<1>4. table[j] \in Seq(Nat) /\ batch[j] \in Seq(Nat)
  BY SeqOfMessages
<1>5. Live!Increasing(table'[j])
  BY <1>2, <1>4, ConcatIncreases DEF WorkerInserts, Orderly, InOrder
<1>6. Live!Extends(table'[j], table[j])
  BY <1>2, <1>4 DEF Live!Extends
<1> QED
  BY <1>1, <1>2, <1>3, <1>5, <1>6 DEF Live!Stores

\* A step that its user does not see.
LEMMA LiveStutters ==
  ASSUME \A k \in Jobs : (Alive(k)' <=> Alive(k)) /\ (job'[k].paused <=> job[k].paused),
         table' = table
  PROVE  UNCHANGED Live!vars
  BY DEF Live!vars, Alive, Held

\* One that only releases or forgets a pause.
LEMMA LiveReleases ==
  ASSUME NEW j \in Jobs, \A k \in Jobs : Alive(k)' <=> Alive(k), table' = table, ~job'[j].paused,
         \A k \in Jobs \ {j} : job'[k].paused <=> job[k].paused
  PROVE  Live!Releases(j)
  BY DEF Live!Releases, Alive, Held

LEMMA JobImplementsLive == ASSUME Inv, NEW j \in Jobs, JobStep(j) PROVE [Live!Next]_(Live!vars)
<1> USE DEF Inv, Control, WorkersOK, FlagsOK, Rows, RowsOK, Moves, Alive, data, net
<1>1. CASE WorkerSubscribes(j)
  BY <1>1, LiveStutters DEF WorkerSubscribes
<1>2. CASE WorkerRuns(j)
  BY <1>2, LiveStutters DEF WorkerRuns
<1>3. CASE WorkerLooks(j)
  BY <1>3, LiveStutters DEF WorkerLooks, Flushes
<1>4. CASE WorkerInserts(j)
  BY <1>4, StoresRows DEF Live!Next
<1>5. CASE WorkerCounts(j)
  BY <1>5, LiveStutters DEF WorkerCounts
<1>6. CASE WorkerPauses(j)
  <2>1. CASE job[j].pause /\ ~job[j].stop
    <3>1. {k \in Jobs : Held(k)}' = {k \in Jobs : Held(k)} \union {j}
      BY <1>6, <2>1 DEF WorkerPauses, Held, Flags
    <3>2. {k \in Jobs : Alive(k)}' = {k \in Jobs : Alive(k)} /\ table' = table /\ Alive(j)
      BY <1>6, <2>1 DEF WorkerPauses
    <3>3. Live!Holds(j)
      BY <3>1, <3>2 DEF Live!Holds
    <3> QED
      BY <3>3 DEF Live!Next
  <2>2. CASE ~(job[j].pause /\ ~job[j].stop)
    BY <1>6, <2>2, LiveStutters DEF WorkerPauses
  <2> QED
    BY <2>1, <2>2
<1>7. CASE WorkerResumes(j)
  <2>1. ~job'[j].paused /\ \A k \in Jobs \ {j} : job'[k] = job[k]
    BY <1>7 DEF WorkerResumes, Flags
  <2>2. table' = table /\ \A k \in Jobs : Alive(k)' <=> Alive(k)
    BY <1>7 DEF WorkerResumes
  <2> QED
    BY <2>1, <2>2, LiveReleases DEF Live!Next
<1>8. CASE Receives(j)
  BY <1>8, LiveStutters DEF Receives
<1>9. CASE TimesOut(j)
  BY <1>9, LiveStutters DEF TimesOut, Flushes
<1>10. CASE IsHindered(j)
  BY <1>10, LiveStutters DEF IsHindered
<1>11. CASE WorkerEnds(j)
  <2>1. ~job'[j].paused /\ \A k \in Jobs \ {j} : job'[k] = job[k]
    BY <1>11 DEF WorkerEnds, Flags
  <2>2. table' = table /\ \A k \in Jobs : Alive(k)' <=> Alive(k)
    BY <1>11 DEF WorkerEnds
  <2> QED
    BY <2>1, <2>2, LiveReleases DEF Live!Next
<1>12. CASE WorkerCloses(j)
  BY <1>12, LiveStutters DEF WorkerCloses
<1>13. CASE WorkerFinishes(j)
  <2>1. Live!Ends(j)
    BY <1>13 DEF WorkerFinishes, Live!Ends, Held
  <2> QED
    BY <2>1 DEF Live!Next
<1>14. CASE WorkerRefreshes(j)
  BY <1>14, LiveStutters DEF WorkerRefreshes
<1>15. CASE WorkerFails(j)
  <2>1. ~job'[j].paused /\ \A k \in Jobs \ {j} : job'[k] = job[k]
    BY <1>15 DEF WorkerFails, Flags
  <2>2. table' = table /\ \A k \in Jobs : Alive(k)' <=> Alive(k)
    BY <1>15 DEF WorkerFails
  <2> QED
    BY <2>1, <2>2, LiveReleases DEF Live!Next
<1>16. CASE LinkDrops(j)
  BY <1>16, LiveStutters DEF LinkDrops, LinkBecomes
<1>17. CASE LinkSettles(j)
  BY <1>17, LiveStutters DEF LinkSettles, LinkBecomes
<1>18. CASE CallsBack(j)
  BY <1>18, LiveStutters DEF CallsBack, Reported
<1> QED
  BY <1>1, <1>2, <1>3, <1>4, <1>5, <1>6, <1>7, <1>8, <1>9, <1>10, <1>11, <1>12, <1>13,
     <1>14, <1>15, <1>16, <1>17, <1>18 DEF JobStep, WorkerProgress

LEMMA CallerImplementsLive == ASSUME Inv, NEW c \in Callers, CallerStep(c) PROVE [Live!Next]_(Live!vars)
<1> USE DEF Inv, Control, CallersOK, WorkersOK, FlagsOK, Flags, Moves, Alive, data
<1>1. CASE Start(c)
  <2>1. CASE Enter(c)
    <3>1. Live!Releases(created + 1)
      BY <1>1, <2>1, LiveReleases DEF Start, Enter, NewJob, Jobs
    <3> QED
      BY <1>1, <2>1, <3>1 DEF Live!Next, Enter, Jobs
  <2>2. CASE ~Enter(c)
    BY <1>1, <2>2, LiveStutters DEF Start
  <2> QED
    BY <2>1, <2>2
<1>2. CASE CreateChecks(c)
  BY <1>2, LiveStutters DEF CreateChecks, ctl
<1>3. CASE CreateWaits(c)
  BY <1>3, LiveStutters DEF CreateWaits, ctl
<1>4. CASE CreateReplaces(c)
  <2>1. CASE Enter(c)
    <3>1. Live!Releases(created + 1)
      BY <1>4, <2>1, LiveReleases DEF CreateReplaces, Enter, NewJob, Jobs
    <3> QED
      BY <1>4, <2>1, <3>1 DEF Live!Next, Enter, Jobs
  <2>2. CASE ~Enter(c)
    BY <1>4, <2>2, LiveStutters DEF CreateReplaces
  <2> QED
    BY <2>1, <2>2
<1>5. CASE LaunchSucceeds(c)
  <2>1. caller[c].on \in Jobs /\ caller[c].on = current /\ worker[current] = "none"
    BY <1>5 DEF LaunchSucceeds, Owned, LaunchOwnsName, Jobs
  <2>2. PICK j \in Jobs : j = current /\ worker[j] = "none" /\ worker' = [worker EXCEPT ![j] = "spawned"]
    BY <1>5, <2>1 DEF LaunchSucceeds
  <2>3. \A k \in Jobs : ~Alive(k)
    BY <2>2 DEF Owned, WorkerOwnsName
  <2>4. {k \in Jobs : Alive(k)} = {} /\ {k \in Jobs : Alive(k)}' = {j}
    BY <2>2, <2>3
  <2>5. {k \in Jobs : Held(k)}' = {k \in Jobs : Held(k)} /\ table' = table
    BY <1>5 DEF LaunchSucceeds, Held
  <2>6. Live!Starts(j)
    BY <2>4, <2>5 DEF Live!Starts
  <2> QED
    BY <2>6 DEF Live!Next
<1>6. CASE LaunchFails(c)
  BY <1>6, LiveStutters DEF LaunchFails, ctl
<1>7. CASE Remove(c)
  BY <1>7, LiveStutters DEF Remove, ctl
<1>8. CASE RemoveChecks(c)
  BY <1>8, LiveStutters DEF RemoveChecks, ctl
<1>9. CASE RemoveWaits(c)
  BY <1>9, LiveStutters DEF RemoveWaits, ctl
<1>10. CASE RemoveErases(c)
  BY <1>10, LiveStutters DEF RemoveErases, ctl
<1>11. CASE Stop(c)
  BY <1>11, LiveStutters DEF Stop, ctl
<1>12. CASE Pause(c, "pause")
  BY <1>12, LiveStutters DEF Pause, ctl
<1>13. CASE Pause(c, "resume")
  BY <1>13, LiveStutters DEF Pause, ctl
<1>14. CASE PauseJob(c)
  BY <1>14, LiveStutters DEF PauseJob, ctl
<1>15. CASE ResumeJob(c)
  BY <1>15, LiveStutters DEF ResumeJob, ctl
<1> QED
  BY <1>1, <1>2, <1>3, <1>4, <1>5, <1>6, <1>7, <1>8, <1>9, <1>10, <1>11, <1>12, <1>13,
     <1>14, <1>15 DEF CallerStep

\* The job implements LiveJob: one worker at a time under the name, rows in order and never
\* twice, and none between the report that the job is paused and its release.
THEOREM SubscribeImplementsLiveJob == Spec => ImplementsLiveJob
<1>1. Init => Live!Init
  BY DEF Init, Live!Init, Alive, Held, NewJob
<1>2. Inv /\ [Next]_vars => [Live!Next]_(Live!vars)
  <2> SUFFICES ASSUME Inv, [Next]_vars PROVE [Live!Next]_(Live!vars)
    OBVIOUS
  <2>1. CASE Publish
    BY <2>1, LiveStutters DEF Publish, Alive, data
  <2>2. CASE UNCHANGED vars
    BY <2>2, LiveStutters DEF vars, Alive, data
  <2> QED
    BY <2>1, <2>2, JobImplementsLive, CallerImplementsLive DEF Next, JobStep
<1> QED
  BY <1>1, <1>2, InvHolds, PTL DEF Spec, ImplementsLiveJob, Live!Spec

-----------------------------------------------------------------------------
\* What the job reports: counters, gaps and the state of its connection.

\* The last call of a callback that has not run yet.
Newest(q) == q[Len(q)]

\* Before it has subscribed, an instance has done nothing and been told nothing.
Fresh(j) ==
  /\ worker[j] \in {"none", "spawned"} =>
       /\ table[j] = <<>> /\ batch[j] = <<>> /\ inserted[j] = 0
       /\ sub[j] = NewSub /\ seen[j] = NothingSeen
       /\ calls[j] = <<>> /\ link[j] = "none"
  /\ worker[j] \in {"none", "spawned", "subscribed"} => ~job[j].running

\* The callbacks that are due end with the state of the connection, and when none is due
\* the flags show it.
Settled(j) ==
  /\ calls[j] # <<>> => /\ link[j] = "up" => Newest(calls[j]) = "reconnected"
                        /\ link[j] \in {"closed", "none"} => Newest(calls[j]) = "closed"
  /\ calls[j] = <<>> =>
       /\ link[j] = "up" /\ job[j].running => job[j].connected /\ ~job[j].reconnecting
       /\ link[j] \in {"closed", "none"} /\ worker[j] \in {"closing", "exiting", "done"}
            /\ ~job[j].failed => ~job[j].connected /\ ~job[j].reconnecting
  /\ worker[j] \in {"exiting", "done"} => link[j] = "none"

\* The flags that are reported, but for a pause.
SameReport(j) ==
  /\ job'[j].running <=> job[j].running
  /\ job'[j].failed <=> job[j].failed
  /\ job'[j].connected <=> job[j].connected
  /\ job'[j].reconnecting <=> job[j].reconnecting
  /\ job'[j].reconnected <=> job[j].reconnected

Working == {"loop", "flush", "count", "pausing", "waiting", "next", "ending"}

\* A step in the worker's loop.
Works(j) ==
  /\ worker[j] \in Working /\ worker'[j] \in Working
  /\ link'[j] = link[j] /\ calls'[j] = calls[j]
  /\ SameReport(j)

\* The steps outside of it.
Turns(j) ==
  \/ WorkerSubscribes(j) \/ WorkerRuns(j) \/ WorkerEnds(j) \/ WorkerFails(j)
  \/ WorkerCloses(j) \/ WorkerFinishes(j)
  \/ LinkDrops(j) \/ LinkSettles(j) \/ CallsBack(j)

\* A step of a job is one of the two.
LEMMA WorksOrTurns == ASSUME Control, NEW j \in Jobs, JobStep(j) PROVE Works(j) \/ Turns(j)
<1> USE DEF Moves, Control, WorkersOK, FlagsOK, Flags, Works, Working, SameReport, data, net
<1>1. CASE WorkerLooks(j)
  BY <1>1 DEF WorkerLooks, Flushes
<1>2. CASE WorkerInserts(j)
  BY <1>2 DEF WorkerInserts
<1>3. CASE WorkerCounts(j)
  BY <1>3 DEF WorkerCounts
<1>4. CASE WorkerPauses(j)
  BY <1>4 DEF WorkerPauses
<1>5. CASE WorkerResumes(j)
  BY <1>5 DEF WorkerResumes
<1>6. CASE Receives(j)
  BY <1>6 DEF Receives
<1>7. CASE TimesOut(j)
  BY <1>7 DEF TimesOut, Flushes
<1>8. CASE IsHindered(j)
  BY <1>8 DEF IsHindered
<1>9. CASE WorkerRefreshes(j)
  BY <1>9 DEF WorkerRefreshes
<1> QED
  BY <1>1, <1>2, <1>3, <1>4, <1>5, <1>6, <1>7, <1>8, <1>9 DEF JobStep, WorkerProgress, Turns

\* The newest call after one is added, and after the oldest has run.
LEMMA NewestAdded ==
  ASSUME NEW S, NEW q \in Seq(S), NEW e \in S
  PROVE  Append(q, e) # <<>> /\ Newest(Append(q, e)) = e
  BY AppendProperties DEF Newest

LEMMA NewestStays ==
  ASSUME NEW S, NEW q \in Seq(S), q # <<>>
  PROVE  /\ Tail(q) = <<>> => Head(q) = Newest(q)
         /\ Tail(q) # <<>> => Newest(Tail(q)) = Newest(q)
<1>1. /\ Len(q) \in Nat \ {0} /\ Tail(q) \in Seq(S) /\ Len(Tail(q)) = Len(q) - 1
      /\ \A i \in 1..Len(Tail(q)) : Tail(q)[i] = q[i + 1]
  BY EmptySeq, HeadTailProperties
<1>2. Head(q) = q[1]
  OBVIOUS
<1>3. Tail(q) = <<>> => Len(q) = 1
  <2> SUFFICES ASSUME Tail(q) = <<>> PROVE Len(q) = 1
    OBVIOUS
  <2>1. Len(Tail(q)) = Len(<<>>) /\ Len(<<>>) = 0
    BY EmptySeq, Zenon
  <2>2. Len(q) - 1 = 0 /\ Len(q) \in Nat
    BY <1>1, <2>1, Zenon
  <2> QED
    BY <2>2
<1>4. Tail(q) # <<>> => Len(Tail(q)) \in Nat \ {0}
  BY <1>1, EmptySeq
<1>5. Tail(q) # <<>> => Tail(q)[Len(Tail(q))] = q[Len(q)]
  <2> SUFFICES ASSUME Tail(q) # <<>> PROVE Tail(q)[Len(Tail(q))] = q[Len(q)]
    OBVIOUS
  <2>1. Len(Tail(q)) \in 1..Len(Tail(q)) /\ Len(Tail(q)) + 1 = Len(q)
    BY <1>1, <1>4
  <2> QED
    BY <1>1, <2>1
<1> QED
  BY <1>2, <1>3, <1>5 DEF Newest

\* What a callback reports.
LEMMA CallReports ==
  ASSUME NEW f \in Flags, NEW call
  PROVE  /\ call = "reconnected" =>
              Reported(f, call).connected /\ ~Reported(f, call).reconnecting
         /\ call = "closed" =>
              ~Reported(f, call).connected /\ ~Reported(f, call).reconnecting
         /\ Reported(f, call).running <=> f.running
         /\ Reported(f, call).failed <=> f.failed
         /\ Reported(f, call).reconnected <=> (f.reconnected \/ call = "reconnected")
  BY DEF Flags, Reported

\* Every step of a job keeps the report of its connection on its way.
LEMMA JobKeepsSettled ==
  ASSUME Control, NEW j \in Jobs, Fresh(j), Settled(j), JobStep(j)
  PROVE  Settled(j)'
<1> USE DEF Moves, Control, WorkersOK, FlagsOK, Flags, LinksOK, data, net
<1> DEFINE Names == {"disconnected", "reconnected", "closed"}
<1>0. calls[j] \in Seq(Names)
  OBVIOUS
<1>a. \A e \in Names : Append(calls[j], e) # <<>> /\ Newest(Append(calls[j], e)) = e
  <2> HIDE DEF Names
  <2> QED
    BY <1>0, NewestAdded
<1>b. calls[j] # <<>> => /\ Tail(calls[j]) = <<>> => Head(calls[j]) = Newest(calls[j])
                         /\ Tail(calls[j]) # <<>> => Newest(Tail(calls[j])) = Newest(calls[j])
  <2> HIDE DEF Names
  <2> QED
    BY <1>0, NewestStays
<1>1. CASE Works(j)
  BY <1>1 DEF Works, Working, SameReport, Settled
<1>2. CASE WorkerSubscribes(j)
  <2>1. calls'[j] = <<>> /\ ~job'[j].running /\ worker'[j] = "subscribed" /\ link'[j] = "up"
    BY <1>2 DEF WorkerSubscribes, Fresh
  <2> QED
    BY <2>1 DEF Settled
<1>3. CASE WorkerRuns(j)
  <2>1. /\ calls' = calls /\ link' = link /\ worker'[j] = "loop"
        /\ job'[j].connected /\ ~job'[j].reconnecting
    BY <1>3 DEF WorkerRuns
  <2> QED
    BY <2>1 DEF Settled
<1>4. CASE WorkerEnds(j)
  <2>1. /\ calls' = calls /\ link' = link /\ worker'[j] = "closing"
        /\ ~job'[j].connected /\ ~job'[j].reconnecting /\ ~job'[j].running
    BY <1>4 DEF WorkerEnds
  <2> QED
    BY <2>1 DEF Settled
<1>5. CASE WorkerFails(j)
  <2>1. /\ calls' = calls /\ link' = link /\ worker'[j] = "closing"
        /\ job'[j].failed /\ ~job'[j].running
    BY <1>5 DEF WorkerFails
  <2> QED
    BY <2>1 DEF Settled
<1>6. CASE WorkerCloses(j)
  <2>1. link'[j] = "none" /\ worker[j] = "closing" /\ worker'[j] = "exiting" /\ job' = job
    BY <1>6 DEF WorkerCloses
  <2>2. CASE link[j] \in {"up", "down"}
    <3>1. calls'[j] = Append(calls[j], "closed")
      BY <1>6, <2>2 DEF WorkerCloses
    <3>2. calls'[j] # <<>> /\ Newest(calls'[j]) = "closed"
      BY <1>a, <3>1
    <3> QED
      BY <2>1, <3>2 DEF Settled
  <2>3. CASE link[j] \notin {"up", "down"}
    <3>1. calls'[j] = calls[j] /\ link[j] \in {"closed", "none"}
      BY <1>6, <2>3 DEF WorkerCloses
    <3> QED
      BY <2>1, <3>1 DEF Settled
  <2> QED
    BY <2>2, <2>3
<1>7. CASE WorkerFinishes(j)
  <2>1. /\ calls' = calls /\ link' = link /\ worker[j] = "exiting" /\ worker'[j] = "done"
        /\ SameReport(j)
    BY <1>7 DEF WorkerFinishes, SameReport
  <2> QED
    BY <2>1 DEF Settled, SameReport
<1>8. CASE LinkDrops(j)
  <2>1. /\ link[j] = "up" /\ link'[j] = "down" /\ calls'[j] = Append(calls[j], "disconnected")
        /\ worker' = worker
    BY <1>8 DEF LinkDrops, LinkBecomes
  <2>2. calls'[j] # <<>>
    BY <1>a, <2>1
  <2> QED
    BY <2>1, <2>2 DEF Settled
<1>9. CASE LinkSettles(j)
  <2>1. /\ link[j] = "down" /\ worker' = worker
        /\ \/ link'[j] = "up" /\ calls'[j] = Append(calls[j], "reconnected")
           \/ link'[j] = "closed" /\ calls'[j] = Append(calls[j], "closed")
    BY <1>9 DEF LinkSettles, LinkBecomes
  <2>2. calls'[j] # <<>> /\ (\/ link'[j] = "up" /\ Newest(calls'[j]) = "reconnected"
                             \/ link'[j] = "closed" /\ Newest(calls'[j]) = "closed")
    BY <1>a, <2>1
  <2> QED
    BY <2>1, <2>2 DEF Settled
<1>10. CASE CallsBack(j)
  <2>1. /\ link' = link /\ worker' = worker /\ calls[j] # <<>> /\ calls'[j] = Tail(calls[j])
        /\ job'[j] = Reported(job[j], Head(calls[j]))
    BY <1>10 DEF CallsBack
  <2>2. /\ calls'[j] = <<>> => Head(calls[j]) = Newest(calls[j])
        /\ calls'[j] # <<>> => Newest(calls'[j]) = Newest(calls[j])
    BY <1>b, <2>1
  <2>3. CASE calls'[j] # <<>>
    BY <2>1, <2>2, <2>3 DEF Settled
  <2>4. CASE calls'[j] = <<>>
    <3>1. /\ link[j] = "up" => Head(calls[j]) = "reconnected"
          /\ link[j] \in {"closed", "none"} => Head(calls[j]) = "closed"
      BY <2>1, <2>2, <2>4 DEF Settled
    <3>2. job[j] \in Flags
      OBVIOUS
    <3>3. /\ link[j] = "up" => job'[j].connected /\ ~job'[j].reconnecting
          /\ link[j] \in {"closed", "none"} => ~job'[j].connected /\ ~job'[j].reconnecting
      <4> HIDE DEF Flags
      <4> QED
        BY <2>1, <3>1, <3>2, CallReports
    <3> QED
      BY <2>1, <2>4, <3>3 DEF Settled
  <2> QED
    BY <2>3, <2>4
<1> QED
  BY <1>1, <1>2, <1>3, <1>4, <1>5, <1>6, <1>7, <1>8, <1>9, <1>10, WorksOrTurns DEF Turns

\* And what it had before it subscribed.
LEMMA JobKeepsFresh ==
  ASSUME Control, NEW j \in Jobs, Fresh(j), JobStep(j)
  PROVE  Fresh(j)'
<1> USE DEF Moves, Control, WorkersOK, FlagsOK, Flags, LinksOK, data, net
<1>1. CASE Works(j)
  BY <1>1 DEF Works, Working, Fresh
<1>2. CASE WorkerSubscribes(j)
  BY <1>2 DEF WorkerSubscribes, Fresh
<1>3. CASE WorkerRuns(j)
  BY <1>3 DEF WorkerRuns, Fresh
<1>4. CASE WorkerEnds(j) \/ WorkerFails(j) \/ WorkerCloses(j) \/ WorkerFinishes(j)
  <2>1. worker'[j] \in {"closing", "exiting", "done"}
    BY <1>4 DEF WorkerEnds, WorkerFails, WorkerCloses, WorkerFinishes
  <2> QED
    BY <2>1 DEF Fresh
<1>5. CASE LinkDrops(j) \/ LinkSettles(j)
  <2>1. worker' = worker /\ job' = job /\ worker[j] \notin {"none", "spawned"}
    BY <1>5 DEF LinkDrops, LinkSettles, LinkBecomes, Fresh
  <2> QED
    BY <2>1 DEF Fresh
<1>6. CASE CallsBack(j)
  <2>1. worker' = worker /\ worker[j] \notin {"none", "spawned"}
    BY <1>6 DEF CallsBack, Fresh
  <2>2. job'[j].running <=> job[j].running
    BY <1>6, CallReports DEF CallsBack
  <2> QED
    BY <2>1, <2>2 DEF Fresh
<1> QED
  BY <1>1, <1>2, <1>3, <1>4, <1>5, <1>6, WorksOrTurns DEF Turns

\* The counters of what was delivered and inserted agree up to the batch in memory, which
\* only a failure leaves behind; and the dropped messages shown are at most those dropped.
Accounted(j) ==
  /\ seen[j].delivered = sub[j].delivered
  /\ sub[j].delivered = inserted[j] + Len(batch[j])
  /\ seen[j].dropped <= sub[j].dropped
  /\ worker[j] = "ending" => batch[j] = <<>>
  /\ worker[j] \in {"closing", "exiting", "done"} /\ ~job[j].failed => batch[j] = <<>>

\* What a step other than a subscription, a flush or a reception leaves of the data, and
\* what it shows of the statistics.
DataStays(j) ==
  /\ batch'[j] = batch[j] /\ table'[j] = table[j] /\ inserted'[j] = inserted[j]
  /\ sub'[j].pending = sub[j].pending
  /\ sub'[j].delivered = sub[j].delivered /\ sub'[j].dropped = sub[j].dropped
  /\ seen'[j] \in {seen[j], Statistics(sub[j])}

\* Where a worker that has something in its batch does not go.
KeepsBatch(j) ==
  /\ worker'[j] = "count" => worker[j] = "count"
  /\ worker'[j] = "ending" => worker[j] = "ending" \/ batch[j] = <<>>
  /\ worker'[j] \in {"closing", "exiting", "done"} /\ ~job'[j].failed =>
       \/ worker[j] = "ending"
       \/ worker[j] \in {"closing", "exiting", "done"} /\ ~job[j].failed

LEMMA DataStaysOrMoves ==
  ASSUME Control, NEW j \in Jobs, JobStep(j),
         ~WorkerSubscribes(j), ~WorkerInserts(j), ~WorkerCounts(j), ~Receives(j)
  PROVE  DataStays(j) /\ KeepsBatch(j)
<1> USE DEF Moves, Control, WorkersOK, FlagsOK, Flags, LinksOK, Subscriptions, DataStays, data, net
<1>1. CASE Works(j)
  <2>1. DataStays(j)
    BY <1>1 DEF JobStep, WorkerProgress, WorkerRuns, WorkerLooks, Flushes, WorkerPauses,
       WorkerResumes, TimesOut, IsHindered, WorkerEnds, WorkerCloses, WorkerFinishes,
       WorkerRefreshes, WorkerFails, LinkDrops, LinkSettles, LinkBecomes, CallsBack, Statistics
  <2>2. /\ worker'[j] = "ending" => worker[j] = "ending" \/ batch[j] = <<>>
        /\ worker'[j] = "count" => worker[j] = "count"
    BY <1>1 DEF JobStep, WorkerProgress, WorkerRuns, WorkerLooks, Flushes, WorkerPauses,
       WorkerResumes, TimesOut, IsHindered, WorkerEnds, WorkerCloses, WorkerFinishes,
       WorkerRefreshes, WorkerFails, LinkDrops, LinkSettles, LinkBecomes, CallsBack
  <2> QED
    BY <1>1, <2>1, <2>2 DEF KeepsBatch, Works, Working
<1>2. CASE WorkerRuns(j)
  BY <1>2 DEF WorkerRuns, KeepsBatch
<1>3. CASE WorkerEnds(j)
  BY <1>3 DEF WorkerEnds, KeepsBatch
<1>4. CASE WorkerFails(j)
  BY <1>4 DEF WorkerFails, KeepsBatch
<1>5. CASE WorkerCloses(j)
  BY <1>5 DEF WorkerCloses, KeepsBatch
<1>6. CASE WorkerFinishes(j)
  BY <1>6 DEF WorkerFinishes, KeepsBatch
<1>7. CASE LinkDrops(j) \/ LinkSettles(j)
  BY <1>7 DEF LinkDrops, LinkSettles, LinkBecomes, KeepsBatch
<1>8. CASE CallsBack(j)
  <2>1. DataStays(j)
    BY <1>8 DEF CallsBack
  <2>2. worker' = worker /\ (job'[j].failed <=> job[j].failed)
    <3>1. job[j] \in Flags /\ worker' = worker /\ job'[j] = Reported(job[j], Head(calls[j]))
      BY <1>8 DEF CallsBack
    <3> HIDE DEF Flags
    <3> QED
      BY <3>1, CallReports
  <2> QED
    BY <2>1, <2>2 DEF KeepsBatch
<1> QED
  BY <1>1, <1>2, <1>3, <1>4, <1>5, <1>6, <1>7, <1>8, WorksOrTurns DEF Turns

\* Every step of a job keeps its books.
LEMMA JobKeepsAccounts ==
  ASSUME Control, Rows, NEW j \in Jobs, Fresh(j), Accounted(j), JobStep(j)
  PROVE  Accounted(j)'
<1>0. /\ sub[j] \in Subscriptions /\ sub[j].delivered \in Nat /\ sub[j].dropped \in Nat
      /\ batch[j] \in Seq(Messages) /\ inserted[j] \in Nat
      /\ seen[j].delivered \in Nat /\ seen[j].dropped \in Nat
  BY DEF Control, LinksOK, Subscriptions, Rows, RowsOK
<1> USE DEF Moves, Control, WorkersOK, LinksOK, Subscriptions, Rows, RowsOK, data, net
<1>1. CASE WorkerSubscribes(j)
  <2>1. /\ sub'[j] = NewSub /\ seen'[j] = NothingSeen /\ batch'[j] = <<>> /\ inserted'[j] = 0
        /\ worker'[j] = "subscribed"
    BY <1>1 DEF WorkerSubscribes, Fresh
  <2> QED
    BY <2>1 DEF Accounted, NewSub, NothingSeen
<1>2. CASE WorkerInserts(j)
  <2>1. UNCHANGED <<batch, inserted, seen, sub>> /\ worker'[j] = "count"
    BY <1>2 DEF WorkerInserts
  <2> QED
    BY <2>1 DEF Accounted
<1>3. CASE WorkerCounts(j)
  <2>1. /\ UNCHANGED <<seen, sub>> /\ batch'[j] = <<>>
        /\ inserted'[j] = inserted[j] + Len(batch[j]) /\ Len(batch[j]) \in Nat
    BY <1>3 DEF WorkerCounts
  <2>2. Len(batch'[j]) = 0
    BY <2>1
  <2> QED
    BY <1>0, <2>1, <2>2 DEF Accounted
<1>4. CASE Receives(j)
  <2>1. /\ sub'[j] = Taken(sub[j]) /\ seen'[j] = Statistics(sub'[j])
        /\ batch'[j] = Append(batch[j], Head(sub[j].pending)) /\ inserted'[j] = inserted[j]
        /\ worker'[j] \in {"flush", "loop"} /\ sub[j].pending # <<>>
    BY <1>4 DEF Receives
  <2>2. Len(batch'[j]) = Len(batch[j]) + 1 /\ Len(batch[j]) \in Nat
    BY <1>0, <2>1
  <2>3. /\ sub'[j].delivered = sub[j].delivered + 1 /\ sub'[j].dropped = sub[j].dropped
        /\ seen'[j].delivered = sub'[j].delivered /\ seen'[j].dropped = sub'[j].dropped
    BY <1>0, <2>1 DEF Taken, Statistics
  <2> QED
    <3>1. /\ seen'[j].delivered = sub'[j].delivered
          /\ sub'[j].delivered = inserted'[j] + Len(batch'[j])
          /\ seen'[j].dropped <= sub'[j].dropped
      <4>1. sub[j].delivered = inserted[j] + Len(batch[j]) /\ inserted'[j] = inserted[j]
        BY <2>1 DEF Accounted
      <4>2. sub'[j].delivered = inserted'[j] + Len(batch'[j])
        BY <1>0, <2>2, <2>3, <4>1
      <4>3. seen'[j].dropped <= sub'[j].dropped
        BY <1>0, <2>3
      <4> QED
        BY <2>3, <4>2, <4>3
    <3> QED
      BY <2>1, <3>1 DEF Accounted
<1>5. CASE ~WorkerSubscribes(j) /\ ~WorkerInserts(j) /\ ~WorkerCounts(j) /\ ~Receives(j)
  <2>1. DataStays(j) /\ KeepsBatch(j)
    BY <1>5, DataStaysOrMoves
  <2>2. /\ seen'[j].delivered \in {seen[j].delivered, sub[j].delivered}
        /\ seen'[j].dropped \in {seen[j].dropped, sub[j].dropped}
    BY <2>1 DEF DataStays, Statistics
  <2>3. /\ seen'[j].delivered = sub'[j].delivered
        /\ sub'[j].delivered = inserted'[j] + Len(batch'[j])
        /\ seen'[j].dropped <= sub'[j].dropped
    BY <1>0, <2>1, <2>2 DEF Accounted, DataStays
  <2>4. /\ worker'[j] = "ending" => batch'[j] = <<>>
        /\ worker'[j] \in {"closing", "exiting", "done"} /\ ~job'[j].failed => batch'[j] = <<>>
    BY <2>1 DEF Accounted, DataStays, KeepsBatch
  <2> QED
    BY <2>3, <2>4 DEF Accounted
<1> QED
  BY <1>1, <1>2, <1>3, <1>4, <1>5

-----------------------------------------------------------------------------
\* Gaps.

\* The messages in a sequence, those an instance has received, and those that have reached
\* it; and that its connection has not been restored after an interruption.
Holds(q) == {q[i] : i \in DOMAIN q}

Got(j) == Holds(table[j]) \union Holds(batch[j])

Known(j) == Got(j) \union Holds(sub[j].pending)

Unbroken(j) == ~job[j].reconnected /\ \A i \in DOMAIN calls[j] : calls[j][i] # "reconnected"

\* While the connection has not been restored, each message that is missing between two
\* that came is counted as dropped, and shown as such when the later one is received; while
\* it is up, so is each message that is missing up to the last one published.
GapsCounted(j) ==
  /\ worker[j] = "count" => Holds(batch[j]) \subseteq Holds(table[j])
  /\ Unbroken(j) =>
       /\ \A a, b \in Got(j) : Cardinality((a..b) \ Got(j)) <= seen[j].dropped
       /\ \A a, b \in Known(j) : Cardinality((a..b) \ Known(j)) <= sub[j].dropped
       /\ Subscribed(j) /\ link[j] = "up" =>
            \A a \in Known(j) : Cardinality((a..published) \ Known(j)) <= sub[j].dropped

\* What sequences of messages hold after they are joined, extended and taken from.
LEMMA HoldsOf ==
  ASSUME NEW S, NEW q \in Seq(S), NEW r \in Seq(S), NEW e \in S
  PROVE  /\ Holds(q) \subseteq S
         /\ Holds(q \o r) = Holds(q) \union Holds(r)
         /\ Holds(Append(q, e)) = Holds(q) \union {e}
         /\ q # <<>> => Head(q) \in Holds(q) /\ Holds(q) = {Head(q)} \union Holds(Tail(q))
<1>1. DOMAIN q = 1..Len(q) /\ DOMAIN r = 1..Len(r) /\ Len(q) \in Nat /\ Len(r) \in Nat
  BY LenProperties
<1>2. Holds(q) \subseteq S
  BY <1>1 DEF Holds
<1>3. Holds(q \o r) = Holds(q) \union Holds(r)
  <2>1. /\ q \o r \in Seq(S) /\ Len(q \o r) = Len(q) + Len(r)
        /\ \A i \in 1..Len(q) + Len(r) : (q \o r)[i] = IF i <= Len(q) THEN q[i] ELSE r[i - Len(q)]
    BY ConcatProperties
  <2>2. DOMAIN (q \o r) = 1..Len(q) + Len(r)
    BY <2>1, LenProperties
  <2>3. \A i \in 1..Len(q) : i \in 1..Len(q) + Len(r) /\ (q \o r)[i] = q[i]
    BY <1>1, <2>1
  <2>4. \A i \in 1..Len(r) : /\ i + Len(q) \in 1..Len(q) + Len(r)
                             /\ (q \o r)[i + Len(q)] = r[i]
    BY <1>1, <2>1
  <2>5. \A i \in 1..Len(q) + Len(r) : \/ i \in 1..Len(q) /\ (q \o r)[i] = q[i]
                                      \/ /\ i - Len(q) \in 1..Len(r)
                                         /\ (q \o r)[i] = r[i - Len(q)]
    BY <1>1, <2>1
  <2>6. Holds(q \o r) \subseteq Holds(q) \union Holds(r)
    BY <1>1, <2>2, <2>5 DEF Holds
  <2>7. Holds(q) \subseteq Holds(q \o r)
    BY <1>1, <2>2, <2>3 DEF Holds
  <2>8. Holds(r) \subseteq Holds(q \o r)
    BY <1>1, <2>2, <2>4 DEF Holds
  <2> QED
    BY <2>6, <2>7, <2>8
<1>4. Holds(Append(q, e)) = Holds(q) \union {e}
  <2>1. /\ Append(q, e) \in Seq(S) /\ Len(Append(q, e)) = Len(q) + 1
        /\ Append(q, e)[Len(q) + 1] = e /\ \A i \in 1..Len(q) : Append(q, e)[i] = q[i]
    BY AppendProperties
  <2>2. DOMAIN Append(q, e) = 1..Len(q) + 1
    BY <2>1, LenProperties
  <2>3. \A i : i \in 1..Len(q) + 1 <=> i \in 1..Len(q) \/ i = Len(q) + 1
    BY <1>1
  <2> QED
    BY <1>1, <2>1, <2>2, <2>3 DEF Holds
<1>5. q # <<>> => Head(q) \in Holds(q) /\ Holds(q) = {Head(q)} \union Holds(Tail(q))
  <2> SUFFICES ASSUME q # <<>>
               PROVE  Head(q) \in Holds(q) /\ Holds(q) = {Head(q)} \union Holds(Tail(q))
    OBVIOUS
  <2>1. /\ Len(q) \in Nat \ {0} /\ Tail(q) \in Seq(S) /\ Len(Tail(q)) = Len(q) - 1
        /\ \A i \in 1..Len(Tail(q)) : Tail(q)[i] = q[i + 1]
    BY EmptySeq, HeadTailProperties
  <2>2. Head(q) = q[1] /\ DOMAIN Tail(q) = 1..(Len(q) - 1)
    BY <2>1, LenProperties
  <2>3. 1 \in 1..Len(q) /\ \A i \in 1..(Len(q) - 1) : i + 1 \in 1..Len(q)
    BY <2>1
  <2>4. \A i \in 1..Len(q) : i = 1 \/ (i - 1 \in 1..(Len(q) - 1) /\ Tail(q)[i - 1] = q[i])
    BY <2>1
  <2>5. Holds(q) \subseteq {Head(q)} \union Holds(Tail(q))
    <3>1. \A i \in 1..Len(q) : q[i] = Head(q) \/ q[i] \in Holds(Tail(q))
      <4> SUFFICES ASSUME NEW i \in 1..Len(q), i # 1 PROVE q[i] \in Holds(Tail(q))
        BY <2>2
      <4>1. i - 1 \in DOMAIN Tail(q) /\ Tail(q)[i - 1] = q[i]
        BY <2>2, <2>4
      <4> QED
        BY <4>1 DEF Holds
    <3> QED
      BY <1>1, <3>1 DEF Holds
  <2>6. Holds(Tail(q)) \subseteq Holds(q)
    BY <1>1, <2>1, <2>2, <2>3 DEF Holds
  <2>7. Head(q) \in Holds(q)
    BY <1>1, <2>2, <2>3 DEF Holds
  <2> QED
    BY <2>5, <2>6, <2>7
<1> QED
  BY <1>2, <1>3, <1>4, <1>5

\* An empty sequence holds nothing.
LEMMA EmptyHoldsNothing == Holds(<<>>) = {}
  BY DEF Holds

\* What is missing from an interval can be counted, and a part of it is no more.
LEMMA MissingCount ==
  ASSUME NEW a \in Nat, NEW b \in Nat, NEW S, NEW T \in SUBSET ((a..b) \ S)
  PROVE  /\ IsFiniteSet((a..b) \ S) /\ Cardinality((a..b) \ S) \in Nat
         /\ Cardinality(T) \in Nat /\ Cardinality(T) <= Cardinality((a..b) \ S)
<1>1. IsFiniteSet(a..b)
  BY FS_Interval
<1>2. IsFiniteSet((a..b) \ S)
  BY <1>1, FS_Subset
<1>3. IsFiniteSet(T) /\ Cardinality(T) <= Cardinality((a..b) \ S)
  BY <1>2, FS_Subset
<1> QED
  BY <1>2, <1>3, FS_CardinalityType

\* A step that moves no message keeps the gaps counted.
LEMMA StaysCounted ==
  ASSUME NEW j \in Jobs, GapsCounted(j),
         Got(j)' = Got(j), Known(j)' = Known(j), published' = published,
         Got(j) \subseteq Nat,
         sub'[j].dropped = sub[j].dropped, seen'[j].dropped \in {seen[j].dropped, sub[j].dropped},
         seen[j].dropped <= sub[j].dropped, seen[j].dropped \in Nat, sub[j].dropped \in Nat,
         worker'[j] = "count" => Holds(batch'[j]) \subseteq Holds(table'[j]),
         Unbroken(j)' => Unbroken(j),
         Unbroken(j)' /\ Subscribed(j)' /\ link'[j] = "up" => Subscribed(j) /\ link[j] = "up"
  PROVE  GapsCounted(j)'
<1>1. (worker[j] = "count" => Holds(batch[j]) \subseteq Holds(table[j]))'
  BY DEF Holds
<1>2. ASSUME Unbroken(j)'
      PROVE  /\ \A a, b \in Got(j) : Cardinality((a..b) \ Got(j)) <= seen'[j].dropped
             /\ \A a, b \in Known(j) : Cardinality((a..b) \ Known(j)) <= sub'[j].dropped
             /\ Subscribed(j)' /\ link'[j] = "up" =>
                  \A a \in Known(j) : Cardinality((a..published) \ Known(j)) <= sub'[j].dropped
  <2>1. ASSUME NEW a \in Got(j), NEW b \in Got(j)
        PROVE  Cardinality((a..b) \ Got(j)) <= seen'[j].dropped
    <3>1. Cardinality((a..b) \ Got(j)) \in Nat
      BY MissingCount
    <3>2. Cardinality((a..b) \ Got(j)) <= seen[j].dropped
      BY <1>2 DEF GapsCounted
    <3> QED
      BY <3>1, <3>2
  <2>2. /\ \A a, b \in Known(j) : Cardinality((a..b) \ Known(j)) <= sub'[j].dropped
        /\ Subscribed(j)' /\ link'[j] = "up" =>
             \A a \in Known(j) : Cardinality((a..published) \ Known(j)) <= sub'[j].dropped
    BY <1>2 DEF GapsCounted
  <2> QED
    BY <2>1, <2>2
<1> QED
  BY <1>1, <1>2 DEF GapsCounted

\* A connection is never better off than it was unless it has been restored.
LEMMA BrokenStays ==
  ASSUME Control, NEW j \in Jobs, Fresh(j), JobStep(j), ~WorkerSubscribes(j), Unbroken(j)'
  PROVE  /\ Unbroken(j)
         /\ Subscribed(j)' /\ link'[j] = "up" => Subscribed(j) /\ link[j] = "up"
<1> USE DEF Moves, Control, WorkersOK, FlagsOK, Flags, LinksOK, data, net
<1> DEFINE Names == {"disconnected", "reconnected", "closed"}
<1> DEFINE Due(q) == "reconnected" \in Holds(q)
<1>0. calls[j] \in Seq(Names) /\ link[j] \in {"none", "up", "down", "closed"}
  OBVIOUS
<1>a. /\ \A e \in Names : /\ Due(calls[j]) => Due(Append(calls[j], e))
                          /\ Due(Append(calls[j], "reconnected"))
      /\ calls[j] # <<>> /\ Due(calls[j]) => Due(Tail(calls[j])) \/ Head(calls[j]) = "reconnected"
  <2> HIDE DEF Names
  <2>1. "reconnected" \in Names
    BY DEF Names
  <2> QED
    BY <1>0, <2>1, HoldsOf
<1>b. /\ Unbroken(j) <=> ~job[j].reconnected /\ ~Due(calls[j])
      /\ Unbroken(j)' <=> ~job'[j].reconnected /\ ~Due(calls'[j])
  BY DEF Unbroken, Holds
<1> HIDE DEF Due
<1>1. CASE Works(j)
  <2>1. Subscribed(j)
    BY <1>1 DEF Works, Working, Subscribed
  <2> QED
    BY <1>1, <1>b, <2>1 DEF Works, SameReport
<1>2. CASE WorkerRuns(j)
  BY <1>2, <1>b DEF WorkerRuns, Subscribed
<1>3. CASE WorkerEnds(j)
  BY <1>3, <1>b DEF WorkerEnds, Subscribed
<1>4. CASE WorkerFails(j)
  BY <1>4, <1>b DEF WorkerFails, Subscribed, Fresh
<1>5. CASE WorkerCloses(j)
  <2>1. /\ link'[j] = "none" /\ job' = job
        /\ calls'[j] \in {calls[j], Append(calls[j], "closed")}
    BY <1>5 DEF WorkerCloses
  <2> QED
    BY <1>a, <1>b, <2>1
<1>6. CASE WorkerFinishes(j)
  BY <1>6, <1>b DEF WorkerFinishes, Subscribed
<1>7. CASE LinkDrops(j)
  <2>1. link'[j] = "down" /\ job' = job /\ calls'[j] = Append(calls[j], "disconnected")
    BY <1>7 DEF LinkDrops, LinkBecomes
  <2> QED
    BY <1>a, <1>b, <2>1
<1>8. CASE LinkSettles(j)
  <2>1. /\ job' = job
        /\ \/ link'[j] = "up" /\ calls'[j] = Append(calls[j], "reconnected")
           \/ link'[j] = "closed" /\ calls'[j] = Append(calls[j], "closed")
    BY <1>8 DEF LinkSettles, LinkBecomes
  <2> QED
    BY <1>a, <1>b, <2>1
<1>9. CASE CallsBack(j)
  <2>1. /\ link' = link /\ worker' = worker /\ calls[j] # <<>> /\ calls'[j] = Tail(calls[j])
        /\ job'[j] = Reported(job[j], Head(calls[j])) /\ job[j] \in Flags
    BY <1>9 DEF CallsBack
  <2>2. job'[j].reconnected <=> (job[j].reconnected \/ Head(calls[j]) = "reconnected")
    <3> HIDE DEF Flags
    <3> QED
      BY <2>1, CallReports
  <2> QED
    BY <1>a, <1>b, <2>1, <2>2 DEF Subscribed
<1> QED
  BY <1>1, <1>2, <1>3, <1>4, <1>5, <1>6, <1>7, <1>8, <1>9, WorksOrTurns DEF Turns

\* What is waiting in the queue lies beyond the last message received, so that it fills no
\* gap between two of them.
LEMMA QueueFillsNoGap ==
  ASSUME NEW s \in Seq(Nat), NEW t \in Seq(Nat), NEW q \in Seq(Nat), Below(s, q), Below(t, q),
         NEW a \in Nat, NEW b \in Holds(s) \union Holds(t)
  PROVE  (a..b) \ (Holds(s) \union Holds(t)) =
           (a..b) \ ((Holds(s) \union Holds(t)) \union Holds(q))
<1>1. \A x \in Holds(q) : b < x
  BY DEF Holds, Below
<1>2. b \in Nat /\ Holds(q) \subseteq Nat
  BY HoldsOf, SMTT(30) DEF Holds
<1>3. \A x \in a..b : x \notin Holds(q)
  BY <1>1, <1>2
<1> QED
  BY <1>3

\* The types of what an instance holds.
LEMMA HoldTypes ==
  ASSUME Control, RowsOK, NEW j \in Jobs
  PROVE  /\ table[j] \in Seq(Messages) /\ batch[j] \in Seq(Messages)
         /\ sub[j].pending \in Seq(Messages)
         /\ table[j] \in Seq(Nat) /\ batch[j] \in Seq(Nat) /\ sub[j].pending \in Seq(Nat)
         /\ Got(j) \subseteq Nat /\ Known(j) \subseteq Nat
         /\ sub[j].dropped \in Nat /\ seen[j].dropped \in Nat /\ published \in Nat
<1>1. /\ table[j] \in Seq(Messages) /\ batch[j] \in Seq(Messages)
      /\ sub[j].pending \in Seq(Messages)
      /\ sub[j].dropped \in Nat /\ seen[j].dropped \in Nat /\ published \in Nat
  BY DEF Control, RowsOK, LinksOK, Subscriptions
<1>2. table[j] \in Seq(Nat) /\ batch[j] \in Seq(Nat) /\ sub[j].pending \in Seq(Nat)
  BY <1>1, SeqOfMessages
<1>3. Holds(table[j]) \subseteq Nat /\ Holds(batch[j]) \subseteq Nat
      /\ Holds(sub[j].pending) \subseteq Nat
  BY <1>2 DEF Holds
<1> QED
  BY <1>1, <1>2, <1>3 DEF Got, Known

\* A message that is received closes its gaps: what is missing up to it was dropped, and the
\* refresh shows every dropped message.
LEMMA ReceivesCounted ==
  ASSUME Control, Rows, NEW j \in Jobs, Fresh(j), GapsCounted(j), Receives(j)
  PROVE  GapsCounted(j)'
<1> DEFINE q == sub[j].pending
<1>1. /\ batch'[j] = Append(batch[j], Head(q)) /\ table' = table /\ q # <<>>
      /\ sub'[j] = Taken(sub[j]) /\ seen'[j] = Statistics(sub'[j])
      /\ worker[j] = "next" /\ worker'[j] \in {"flush", "loop"}
      /\ published' = published /\ link' = link /\ calls' = calls /\ job' = job
  BY DEF Receives, Moves, Control, LinksOK, WorkersOK, Rows, RowsOK, net
<1>2. /\ sub'[j].pending = Tail(q) /\ sub'[j].dropped = sub[j].dropped
      /\ seen'[j].dropped = sub[j].dropped
  BY <1>1 DEF Taken, Statistics, Control, LinksOK, Subscriptions
<1>3. JobStep(j) /\ ~WorkerSubscribes(j)
  BY <1>1 DEF JobStep, WorkerProgress, WorkerSubscribes
<1>4. RowsOK' /\ Orderly(j)' /\ Control'
  BY <1>3, ReceivesOrderly, ControlTypes DEF Next, JobStep
<1>5. /\ table[j] \in Seq(Messages) /\ batch[j] \in Seq(Messages) /\ q \in Seq(Messages)
  BY HoldTypes DEF Rows
<1>6. /\ table[j] \in Seq(Nat) /\ batch'[j] \in Seq(Nat) /\ sub'[j].pending \in Seq(Nat)
      /\ Got(j)' \subseteq Nat
  <2>1. Append(batch[j], Head(q)) \in Seq(Messages) /\ Tail(q) \in Seq(Messages)
    BY <1>1, <1>5
  <2>2. table[j] \in Seq(Nat) /\ batch'[j] \in Seq(Nat) /\ sub'[j].pending \in Seq(Nat)
    BY <1>1, <1>2, <1>5, <2>1, SeqOfMessages
  <2>3. Holds(table[j]) \subseteq Nat /\ Holds(batch'[j]) \subseteq Nat
    <3>1. \A q1 \in Seq(Nat) : Holds(q1) \subseteq Nat
      BY DEF Holds
    <3> QED
      BY <2>2, <3>1
  <2>4. Got(j)' = Holds(table[j]) \union Holds(batch'[j])
    BY <1>1 DEF Got, Holds
  <2> QED
    BY <2>2, <2>3, <2>4
<1>7. /\ Got(j)' = Holds(table[j]) \union Holds(batch'[j])
      /\ Known(j)' = (Holds(table[j]) \union Holds(batch'[j])) \union Holds(sub'[j].pending)
  BY <1>1 DEF Got, Known, Holds
<1>8. Known(j)' = Known(j)
  <2>1. /\ Holds(batch'[j]) = Holds(batch[j]) \union {Head(q)}
        /\ Holds(q) = {Head(q)} \union Holds(Tail(q))
    <3>1. Head(q) \in Messages
      BY <1>1, <1>5
    <3> QED
      BY <1>1, <1>5, <3>1, HoldsOf
  <2> QED
    BY <1>2, <1>7, <2>1 DEF Known, Got
<1>9. Below(table[j], sub'[j].pending) /\ Below(batch'[j], sub'[j].pending)
  BY <1>1, <1>4 DEF Orderly, InOrder, Below
<1>10. ASSUME Unbroken(j)'
       PROVE  /\ Unbroken(j)
              /\ \A a, b \in Known(j) : Cardinality((a..b) \ Known(j)) <= sub[j].dropped
              /\ Subscribed(j)' /\ link'[j] = "up" =>
                   \A a \in Known(j) : Cardinality((a..published) \ Known(j)) <= sub[j].dropped
  BY <1>3, <1>10, BrokenStays DEF GapsCounted
<1>11. ASSUME Unbroken(j)', NEW a \in Got(j)', NEW b \in Got(j)'
       PROVE  Cardinality((a..b) \ Got(j)') <= seen'[j].dropped
  <2>1. (a..b) \ Got(j)' = (a..b) \ Known(j)
    <3>1. a \in Nat /\ b \in Holds(table[j]) \union Holds(batch'[j])
      BY <1>6, <1>7
    <3> QED
      BY <1>6, <1>7, <1>8, <1>9, <3>1, QueueFillsNoGap
  <2>2. a \in Known(j) /\ b \in Known(j)
    BY <1>7, <1>8
  <2> QED
    BY <1>2, <1>10, <1>11, <2>1, <2>2
<1>12. (worker[j] = "count" => Holds(batch[j]) \subseteq Holds(table[j]))'
  BY <1>1
<1> QED
  BY <1>1, <1>2, <1>8, <1>10, <1>11, <1>12 DEF GapsCounted

\* Every step of a job keeps its gaps counted.
LEMMA JobKeepsGaps ==
  ASSUME Control, Rows, NEW j \in Jobs, Fresh(j), Accounted(j), GapsCounted(j), JobStep(j)
  PROVE  GapsCounted(j)'
<1>0. /\ Got(j) \subseteq Nat /\ sub[j].dropped \in Nat /\ seen[j].dropped \in Nat
      /\ table[j] \in Seq(Messages) /\ batch[j] \in Seq(Messages)
      /\ seen[j].dropped <= sub[j].dropped
  BY HoldTypes DEF Rows, Accounted
<1>1. CASE Receives(j)
  BY <1>1, ReceivesCounted
<1>2. CASE WorkerSubscribes(j)
  <2>1. /\ table'[j] = <<>> /\ batch'[j] = <<>> /\ sub'[j].pending = <<>>
        /\ worker'[j] = "subscribed"
    BY <1>2 DEF WorkerSubscribes, Fresh, Moves, NewSub, data, Control, LinksOK, WorkersOK
  <2>2. Got(j)' = {} /\ Known(j)' = {}
    BY <2>1, EmptyHoldsNothing DEF Got, Known, Holds
  <2> QED
    BY <2>1, <2>2 DEF GapsCounted
<1>3. CASE WorkerInserts(j)
  <2>1. /\ table'[j] = table[j] \o batch[j] /\ batch' = batch /\ sub' = sub /\ seen' = seen
        /\ published' = published
    BY <1>3 DEF WorkerInserts, Rows, RowsOK, net
  <2>2. Holds(table[j] \o batch[j]) = Holds(table[j]) \union Holds(batch[j])
    <3>1. table[j] \in Seq(Nat) /\ batch[j] \in Seq(Nat) /\ 0 \in Nat
      BY HoldTypes DEF Rows
    <3> QED
      BY <3>1, HoldsOf, SMTT(30)
  <2>3. Got(j)' = Got(j) /\ Known(j)' = Known(j)
    BY <2>1, <2>2 DEF Got, Known, Holds
  <2>4. Holds(batch'[j]) \subseteq Holds(table'[j])
    BY <2>1, <2>2
  <2> QED
    BY <1>0, <1>3, <2>1, <2>3, <2>4, StaysCounted, BrokenStays DEF WorkerInserts, WorkerSubscribes
<1>4. CASE WorkerCounts(j)
  <2>1. /\ table' = table /\ batch'[j] = <<>> /\ sub' = sub /\ seen' = seen
        /\ published' = published /\ worker'[j] # "count" /\ worker[j] = "count"
    BY <1>4 DEF WorkerCounts, Rows, RowsOK, net, Moves, Control, WorkersOK
  <2>2. Holds(batch[j]) \subseteq Holds(table[j])
    BY <2>1 DEF GapsCounted
  <2>3. Got(j)' = Got(j) /\ Known(j)' = Known(j)
    <3>1. /\ Got(j)' = Holds(table[j]) \union Holds(<<>>)
          /\ Known(j)' = (Holds(table[j]) \union Holds(<<>>)) \union Holds(sub[j].pending)
      BY <2>1 DEF Got, Known, Holds
    <3> QED
      BY <2>2, <3>1, EmptyHoldsNothing DEF Got, Known
  <2> QED
    BY <1>0, <1>4, <2>1, <2>3, StaysCounted, BrokenStays DEF WorkerCounts, WorkerSubscribes
<1>5. CASE ~WorkerSubscribes(j) /\ ~WorkerInserts(j) /\ ~WorkerCounts(j) /\ ~Receives(j)
  <2>1. DataStays(j) /\ KeepsBatch(j)
    BY <1>5, DataStaysOrMoves
  <2>2. Got(j)' = Got(j) /\ Known(j)' = Known(j)
    BY <2>1 DEF DataStays, Got, Known, Holds
  <2>3. /\ sub'[j].dropped = sub[j].dropped
        /\ seen'[j].dropped \in {seen[j].dropped, sub[j].dropped}
    BY <2>1 DEF DataStays, Statistics
  <2>4. worker'[j] = "count" => Holds(batch'[j]) \subseteq Holds(table'[j])
    BY <2>1 DEF DataStays, KeepsBatch, GapsCounted
  <2>5. published' = published
    BY JobRowsFrame DEF RowsFramed
  <2>6. Unbroken(j)' => Unbroken(j) /\ (Subscribed(j)' /\ link'[j] = "up" =>
                                          Subscribed(j) /\ link[j] = "up")
    BY <1>5, BrokenStays
  <2> QED
    BY <1>0, <2>2, <2>3, <2>4, <2>5, <2>6, StaysCounted
<1> QED
  BY <1>1, <1>2, <1>3, <1>4, <1>5

\* A message that comes next leaves no new gap; one that does not leaves one more.
LEMMA NextMessage ==
  ASSUME NEW S \in SUBSET Nat, NEW n \in Nat, \A x \in S : x <= n, NEW d \in Nat,
         \A a, b \in S : Cardinality((a..b) \ S) <= d,
         \A a \in S : Cardinality((a..n) \ S) <= d
  PROVE  /\ \A a, b \in S \union {n + 1} : Cardinality((a..b) \ (S \union {n + 1})) <= d
         /\ \A a \in S \union {n + 1} : Cardinality((a..(n + 1)) \ (S \union {n + 1})) <= d
         /\ \A a \in S : Cardinality((a..(n + 1)) \ S) <= d + 1
<1> DEFINE T == S \union {n + 1}
<1>1. ASSUME NEW a \in T PROVE Cardinality((a..(n + 1)) \ T) <= d
  <2>1. CASE a \in S
    <3>1. (a..(n + 1)) \ T = (a..n) \ S
      BY <2>1
    <3> QED
      BY <2>1, <3>1
  <2>2. CASE a = n + 1
    <3>1. (a..(n + 1)) \ T = {}
      BY <2>2
    <3> QED
      BY <3>1, FS_EmptySet
  <2> QED
    BY <2>1, <2>2
<1>2. ASSUME NEW a \in T, NEW b \in S PROVE Cardinality((a..b) \ T) <= d
  <2>1. CASE a \in S
    <3>1. a \in Nat /\ b \in Nat /\ (a..b) \ T \in SUBSET ((a..b) \ S)
      BY <2>1
    <3>2. /\ Cardinality((a..b) \ T) \in Nat /\ Cardinality((a..b) \ S) \in Nat
          /\ Cardinality((a..b) \ T) <= Cardinality((a..b) \ S)
      BY <3>1, MissingCount
    <3>3. Cardinality((a..b) \ S) <= d
      BY <2>1
    <3> QED
      BY <3>2, <3>3
  <2>2. CASE a = n + 1
    <3>1. (a..b) \ T = {}
      BY <2>2
    <3> QED
      BY <3>1, FS_EmptySet
  <2> QED
    BY <2>1, <2>2
<1>3. ASSUME NEW a \in S PROVE Cardinality((a..(n + 1)) \ S) <= d + 1
  <2>1. IsFiniteSet((a..n) \ S) /\ Cardinality((a..n) \ S) \in Nat
    <3>1. (a..n) \ S \in SUBSET ((a..n) \ S) /\ a \in Nat
      OBVIOUS
    <3> QED
      BY <3>1, MissingCount
  <2>2. (a..(n + 1)) \ S = ((a..n) \ S) \union {n + 1} /\ n + 1 \notin (a..n) \ S
    OBVIOUS
  <2>3. Cardinality(((a..n) \ S) \union {n + 1}) = Cardinality((a..n) \ S) + 1
    BY <2>1, <2>2, FS_AddElement
  <2>4. Cardinality((a..n) \ S) <= d
    OBVIOUS
  <2> QED
    BY <2>1, <2>2, <2>3, <2>4
<1> QED
  BY <1>1, <1>2, <1>3

\* A message that arrives at an instance is counted there, in the queue or as dropped.
LEMMA PublishCounted ==
  ASSUME Control, Rows, NEW j \in Jobs, GapsCounted(j), Publish
  PROVE  GapsCounted(j)'
<1> DEFINE q == sub[j].pending
<1>1. /\ published \in Nat /\ published' = published + 1 /\ worker' = worker /\ link' = link
      /\ calls' = calls /\ job' = job /\ batch' = batch /\ table' = table /\ seen' = seen
      /\ sub'[j] = IF Subscribed(j) /\ link[j] = "up" THEN Arrives(sub[j], published + 1)
                                                      ELSE sub[j]
  BY HoldTypes DEF Publish, data, Rows
<1>2. /\ Unbroken(j)' <=> Unbroken(j)
      /\ Subscribed(j)' <=> Subscribed(j)
      /\ Got(j)' = Got(j)
      /\ Known(j)' = Got(j) \union Holds(sub'[j].pending)
  BY <1>1 DEF Unbroken, Subscribed, Got, Known, Holds
<1>3. (worker[j] = "count" => Holds(batch[j]) \subseteq Holds(table[j]))'
  BY <1>1 DEF GapsCounted, Holds
<1>4. Unbroken(j) => \A a, b \in Got(j) : Cardinality((a..b) \ Got(j)) <= seen[j].dropped
  BY DEF GapsCounted
<1>5. CASE ~(Subscribed(j) /\ link[j] = "up")
  <2>1. sub'[j] = sub[j] /\ Known(j)' = Known(j)
    BY <1>1, <1>2, <1>5 DEF Known
  <2> QED
    BY <1>1, <1>2, <1>3, <1>4, <1>5, <2>1 DEF GapsCounted
<1>6. CASE Subscribed(j) /\ link[j] = "up"
  <2>1. /\ Known(j) \in SUBSET Nat /\ sub[j].dropped \in Nat /\ q \in Seq(Nat)
        /\ sub[j] \in Subscriptions
    BY HoldTypes DEF Rows, Control, LinksOK
  <2>2. \A x \in Known(j) : x <= published
    BY DEF Known, Got, Holds, Rows, Orderly, InOrder, UpTo
  <2>3. ASSUME Unbroken(j)
        PROVE  /\ \A a, b \in Known(j) : Cardinality((a..b) \ Known(j)) <= sub[j].dropped
               /\ \A a \in Known(j) : Cardinality((a..published) \ Known(j)) <= sub[j].dropped
    BY <1>6, <2>3 DEF GapsCounted
  <2>4. CASE Len(q) < PendingLimit
    <3>1. sub'[j].pending = Append(q, published + 1) /\ sub'[j].dropped = sub[j].dropped
      BY <1>1, <1>6, <2>1, <2>4 DEF Arrives, Subscriptions
    <3>2. Known(j)' = Known(j) \union {published + 1}
      <4>1. Holds(Append(q, published + 1)) = Holds(q) \union {published + 1}
        BY <1>1, <2>1, HoldsOf
      <4> QED
        BY <1>2, <3>1, <4>1 DEF Known
    <3>3. ASSUME Unbroken(j)
          PROVE  /\ \A a, b \in Known(j)' : Cardinality((a..b) \ Known(j)') <= sub[j].dropped
                 /\ \A a \in Known(j)' :
                      Cardinality((a..(published + 1)) \ Known(j)') <= sub[j].dropped
      <4> DEFINE T == Known(j) \union {published + 1}
      <4>1. /\ \A a, b \in T : Cardinality((a..b) \ T) <= sub[j].dropped
            /\ \A a \in T : Cardinality((a..(published + 1)) \ T) <= sub[j].dropped
        <5> DEFINE S == Known(j)
                   d == sub[j].dropped
        <5>1. /\ S \in SUBSET Nat /\ published \in Nat /\ d \in Nat
              /\ \A x \in S : x <= published
              /\ \A a, b \in S : Cardinality((a..b) \ S) <= d
              /\ \A a \in S : Cardinality((a..published) \ S) <= d
          BY <1>1, <2>1, <2>2, <2>3, <3>3
        <5> HIDE DEF S, d
        <5>2. /\ \A a, b \in S \union {published + 1} :
                   Cardinality((a..b) \ (S \union {published + 1})) <= d
              /\ \A a \in S \union {published + 1} :
                   Cardinality((a..(published + 1)) \ (S \union {published + 1})) <= d
          BY <5>1, NextMessage
        <5> QED
          BY <5>2 DEF S, d
      <4>2. Known(j)' = T
        BY <3>2
      <4> HIDE DEF T
      <4> QED
        BY <4>1, <4>2
    <3> QED
      BY <1>1, <1>2, <1>3, <1>4, <3>1, <3>3 DEF GapsCounted
  <2>5. CASE ~(Len(q) < PendingLimit)
    <3>1. sub'[j].pending = q /\ sub'[j].dropped = sub[j].dropped + 1
      BY <1>1, <1>6, <2>1, <2>5 DEF Arrives, Subscriptions
    <3>2. Known(j)' = Known(j)
      BY <1>2, <3>1 DEF Known
    <3>3. ASSUME Unbroken(j)
          PROVE  /\ \A a, b \in Known(j) : Cardinality((a..b) \ Known(j)) <= sub[j].dropped + 1
                 /\ \A a \in Known(j) :
                      Cardinality((a..(published + 1)) \ Known(j)) <= sub[j].dropped + 1
      <4>1. ASSUME NEW a \in Known(j), NEW b \in Known(j)
            PROVE  Cardinality((a..b) \ Known(j)) <= sub[j].dropped + 1
        <5>1. a \in Nat /\ b \in Nat /\ (a..b) \ Known(j) \in SUBSET ((a..b) \ Known(j))
          BY <2>1
        <5>2. Cardinality((a..b) \ Known(j)) \in Nat
          BY <5>1, MissingCount
        <5>3. Cardinality((a..b) \ Known(j)) <= sub[j].dropped
          BY <2>3, <3>3
        <5> QED
          BY <2>1, <5>2, <5>3
      <4>2. \A a \in Known(j) :
              Cardinality((a..(published + 1)) \ Known(j)) <= sub[j].dropped + 1
        BY <1>1, <2>1, <2>2, <2>3, <3>3, NextMessage
      <4> QED
        BY <4>1, <4>2
    <3> QED
      BY <1>1, <1>2, <1>3, <1>4, <3>1, <3>2, <3>3 DEF GapsCounted
  <2> QED
    BY <2>4, <2>5
<1> QED
  BY <1>5, <1>6

-----------------------------------------------------------------------------
\* Every step keeps what is told of an instance.

Told(j) == Fresh(j) /\ Settled(j) /\ Accounted(j) /\ GapsCounted(j)

\* A step leaves an instance's rows, queue, statistics and connection alone.
LeavesData(k) ==
  /\ batch'[k] = batch[k] /\ table'[k] = table[k] /\ inserted'[k] = inserted[k]
  /\ sub'[k] = sub[k] /\ seen'[k] = seen[k] /\ link'[k] = link[k] /\ calls'[k] = calls[k]
  /\ published' = published

\* Nothing is told anew of an instance that is left alone.
LEMMA SameTold ==
  ASSUME NEW k \in Jobs, Told(k), LeavesData(k), worker'[k] = worker[k], SameReport(k)
  PROVE  Told(k)'
<1>1. Fresh(k)'
  BY DEF Told, Fresh, LeavesData, SameReport
<1>2. Settled(k)'
  BY DEF Told, Settled, LeavesData, SameReport, Newest
<1>3. Accounted(k)'
  BY DEF Told, Accounted, LeavesData, SameReport
<1>4. GapsCounted(k)'
  <2>1. (Unbroken(k)' <=> Unbroken(k)) /\ (Subscribed(k)' <=> Subscribed(k))
    BY DEF LeavesData, SameReport, Unbroken, Subscribed
  <2>2. Got(k)' = Got(k) /\ Known(k)' = Known(k)
    BY DEF LeavesData, Got, Known, Holds
  <2>3. (worker[k] = "count" => Holds(batch[k]) \subseteq Holds(table[k]))'
    BY DEF Told, GapsCounted, LeavesData, Holds
  <2> QED
    BY <2>1, <2>2, <2>3 DEF Told, GapsCounted, LeavesData
<1> QED
  BY <1>1, <1>2, <1>3, <1>4 DEF Told

\* And nothing of one that has not subscribed.
LEMMA FreshTold ==
  ASSUME Control, NEW k \in Jobs, Told(k), LeavesData(k), worker[k] = "none",
         worker'[k] \in {"none", "spawned"}, ~job'[k].running
  PROVE  Told(k)'
<1>1. /\ table'[k] = <<>> /\ batch'[k] = <<>> /\ inserted'[k] = 0 /\ sub'[k] = NewSub
      /\ seen'[k] = NothingSeen /\ calls'[k] = <<>> /\ link'[k] = "none"
  BY DEF Told, Fresh, LeavesData
<1>2. Fresh(k)' /\ Settled(k)'
  BY <1>1 DEF Fresh, Settled
<1>3. Accounted(k)'
  BY <1>1 DEF Accounted, NewSub, NothingSeen
<1>4. GapsCounted(k)'
  <2>1. Got(k)' = {} /\ Known(k)' = {}
    BY <1>1, EmptyHoldsNothing DEF Got, Known, Holds, NewSub
  <2> QED
    BY <2>1 DEF GapsCounted
<1> QED
  BY <1>2, <1>3, <1>4 DEF Told

\* What a step of one instance leaves of the others' statistics and connections.
LEMMA JobLeavesOthers ==
  ASSUME Control, Rows, NEW j \in Jobs, JobStep(j), NEW k \in Jobs \ {j}
  PROVE  LeavesData(k)
<1>1. /\ seen'[k] = seen[k] /\ link'[k] = link[k] /\ calls'[k] = calls[k]
  <2> USE DEF Moves, Control, LinksOK, data, net
  <2>1. CASE WorkerProgress(j)
    BY <2>1 DEF WorkerProgress, WorkerSubscribes, WorkerRuns, WorkerLooks, WorkerInserts,
       WorkerCounts, WorkerPauses, WorkerResumes, Receives, TimesOut, IsHindered, WorkerEnds,
       WorkerCloses, WorkerFinishes
  <2>2. CASE ~WorkerProgress(j)
    BY <2>2 DEF JobStep, WorkerRefreshes, WorkerFails, LinkDrops, LinkSettles, LinkBecomes,
       CallsBack
  <2> QED
    BY <2>1, <2>2
<1> QED
  BY <1>1, JobRowsFrame DEF RowsFramed, LeavesData

\* A step of an instance.
LEMMA JobKeepsTold ==
  ASSUME Control, Rows, \A k \in Jobs : Told(k), NEW j \in Jobs, JobStep(j)
  PROVE  \A k \in Jobs : Told(k)'
<1>1. Told(j)'
  BY JobKeepsFresh, JobKeepsSettled, JobKeepsAccounts, JobKeepsGaps DEF Told
<1>2. ASSUME NEW k \in Jobs \ {j} PROVE Told(k)'
  <2>1. worker'[k] = worker[k] /\ job'[k] = job[k]
    BY JobStepFrame DEF Framed
  <2> QED
    BY <2>1, SameTold, JobLeavesOthers DEF SameReport
<1> QED
  BY <1>1, <1>2

\* A message that is published.
LEMMA PublishKeepsTold ==
  ASSUME Control, Rows, NEW k \in Jobs, Told(k), Publish
  PROVE  Told(k)'
<1>1. /\ published' = published + 1 /\ worker' = worker /\ link' = link /\ inserted' = inserted
      /\ calls' = calls /\ job' = job /\ batch' = batch /\ table' = table /\ seen' = seen
      /\ sub'[k] = IF Subscribed(k) /\ link[k] = "up" THEN Arrives(sub[k], published + 1)
                                                      ELSE sub[k]
  BY DEF Publish, data
<1>2. Fresh(k)'
  BY <1>1 DEF Told, Fresh, Subscribed
<1>3. Settled(k)'
  BY <1>1 DEF Told, Settled, Newest
<1>4. Accounted(k)'
  <2>1. /\ sub[k] \in Subscriptions /\ sub[k].dropped \in Nat /\ seen[k].dropped \in Nat
    BY DEF Control, LinksOK, Subscriptions
  <2>2. sub'[k].delivered = sub[k].delivered
        /\ sub'[k].dropped \in {sub[k].dropped, sub[k].dropped + 1}
    BY <1>1, <2>1 DEF Arrives, Subscriptions
  <2>3. seen'[k].dropped <= sub'[k].dropped
    BY <1>1, <2>1, <2>2 DEF Told, Accounted
  <2> QED
    BY <1>1, <2>2, <2>3 DEF Told, Accounted
<1>5. GapsCounted(k)'
  BY PublishCounted DEF Told
<1> QED
  BY <1>2, <1>3, <1>4, <1>5 DEF Told

\* A connection only sets flags, puts an instance into the map or gives it its worker.
LEMMA CallerKeepsTold ==
  ASSUME Control, Owned, Rows, NEW c \in Callers, CallerStep(c), NEW k \in Jobs, Told(k)
  PROVE  Told(k)'
<1> USE DEF Control, FlagsOK, Flags, WorkersOK
<1>1. LeavesData(k)
  BY DEF LeavesData, CallerStep, data, net, Start, CreateChecks, CreateWaits, CreateReplaces,
         LaunchSucceeds, LaunchFails, Remove, RemoveChecks, RemoveWaits, RemoveErases, Stop,
         Pause, PauseJob, ResumeJob
<1>2. CASE LaunchSucceeds(c)
  <2>1. /\ caller[c].on \in Jobs /\ worker[caller[c].on] = "none" /\ job' = job
        /\ worker' = [worker EXCEPT ![caller[c].on] = "spawned"]
    BY <1>2 DEF LaunchSucceeds, Owned, LaunchOwnsName, Control, CallersOK, Jobs, Moves
  <2>2. CASE k = caller[c].on
    <3>1. worker[k] = "none" /\ worker'[k] = "spawned" /\ ~job'[k].running
      BY <2>1, <2>2 DEF Told, Fresh
    <3> QED
      BY <1>1, <3>1, FreshTold
  <2>3. CASE k # caller[c].on
    BY <1>1, <2>1, <2>3, SameTold DEF SameReport
  <2> QED
    BY <2>2, <2>3
<1>3. ASSUME Enter(c), UNCHANGED worker PROVE Told(k)'
  <2>1. created + 1 \in Jobs /\ job' = [job EXCEPT ![created + 1] = NewJob]
        /\ worker[created + 1] = "none"
    BY <1>3 DEF Enter, Jobs, CallersOK, Owned, WorkerOwnsName
  <2>2. CASE k = created + 1
    <3>1. worker[k] = "none" /\ worker'[k] = "none" /\ ~job'[k].running
      BY <1>3, <2>1, <2>2 DEF NewJob
    <3> QED
      BY <1>1, <3>1, FreshTold
  <2>3. CASE k # created + 1
    BY <1>1, <1>3, <2>1, <2>3, SameTold DEF SameReport
  <2> QED
    BY <2>2, <2>3
<1>4. CASE UNCHANGED worker /\ SameReport(k)
  BY <1>1, <1>4, SameTold
<1>5. \/ LaunchSucceeds(c)
      \/ Enter(c) /\ UNCHANGED worker
      \/ UNCHANGED worker /\ SameReport(k)
  BY SMTT(30) DEF SameReport, CallerStep, Start, CreateChecks, CreateWaits, CreateReplaces,
     LaunchFails,
         Remove, RemoveChecks, RemoveWaits, RemoveErases, Stop, Pause, PauseJob, ResumeJob, ctl
<1> QED
  BY <1>2, <1>3, <1>4, <1>5

LEMMA InitTold == ASSUME Init, NEW k \in Jobs PROVE Told(k)
<1>1. /\ table[k] = <<>> /\ batch[k] = <<>> /\ inserted[k] = 0 /\ sub[k] = NewSub
      /\ seen[k] = NothingSeen /\ calls[k] = <<>> /\ link[k] = "none" /\ worker[k] = "none"
      /\ ~job[k].running
  BY DEF Init, NewJob
<1>2. Fresh(k) /\ Settled(k)
  BY <1>1 DEF Fresh, Settled
<1>3. Accounted(k)
  BY <1>1 DEF Accounted, NewSub, NothingSeen
<1>4. GapsCounted(k)
  <2>1. Got(k) = {} /\ Known(k) = {}
    BY <1>1, EmptyHoldsNothing DEF Got, Known, NewSub
  <2> QED
    BY <1>1, <2>1 DEF GapsCounted
<1> QED
  BY <1>2, <1>3, <1>4 DEF Told

LEMMA ToldHolds == Spec => [](\A j \in Jobs : Told(j))
<1>1. Inv /\ (\A j \in Jobs : Told(j)) /\ [Next]_vars => (\A j \in Jobs : Told(j))'
  <2> SUFFICES ASSUME Inv, \A j \in Jobs : Told(j), [Next]_vars, NEW k \in Jobs
               PROVE  Told(k)'
    OBVIOUS
  <2>1. Control /\ Owned /\ Rows
    BY DEF Inv
  <2>2. CASE UNCHANGED vars
    BY <2>2, SameTold DEF vars, ctl, data, net, LeavesData, SameReport
  <2>3. CASE Publish
    BY <2>1, <2>3, PublishKeepsTold
  <2>4. ASSUME NEW c \in Callers, CallerStep(c) PROVE Told(k)'
    BY <2>1, <2>4, CallerKeepsTold
  <2>5. ASSUME NEW j \in Jobs, JobStep(j) PROVE Told(k)'
    BY <2>1, <2>5, JobKeepsTold
  <2> QED
    BY <2>2, <2>3, <2>4, <2>5 DEF Next, JobStep
<1>2. Init => \A j \in Jobs : Told(j)
  BY InitTold
<1> QED
  BY <1>1, <1>2, InvHolds, PTL DEF Spec

\* The counters that are shown never run ahead of the rows or of what was delivered, and a
\* job that ended without a failure has inserted all it was delivered.
THEOREM CountersNeverLie == Spec => []CountersAgree
<1>1. Inv /\ (\A j \in Jobs : Told(j)) => CountersAgree
  <2> SUFFICES ASSUME Inv, NEW j \in Jobs, Told(j)
               PROVE  /\ inserted[j] <= Len(table[j]) /\ Len(table[j]) <= seen[j].delivered
                      /\ worker[j] = "done" /\ ~job[j].failed => inserted[j] = seen[j].delivered
    BY DEF CountersAgree
  <2>1. /\ inserted[j] \in Nat /\ Len(batch[j]) \in Nat /\ Len(table[j]) \in Nat
    BY DEF Inv, Rows, RowsOK
  <2>2. seen[j].delivered = inserted[j] + Len(batch[j])
    BY DEF Told, Accounted
  <2>3. Len(table[j]) \in {inserted[j], inserted[j] + Len(batch[j])}
    <3>1. Counted(j)
      BY DEF Inv, Rows, Orderly
    <3> QED
      BY <2>1, <3>1 DEF Counted
  <2>4. worker[j] = "done" /\ ~job[j].failed => Len(batch[j]) = 0
    BY DEF Told, Accounted
  <2> QED
    BY <2>1, <2>2, <2>3, <2>4
<1> QED
  BY <1>1, InvHolds, ToldHolds, PTL

\* The report of the connection catches up with the connection once no callback is due,
\* whatever the order in which the library and the worker wrote it.
THEOREM StatusCatchesUp == Spec => []StatusSettles
<1>1. (\A j \in Jobs : Told(j)) => StatusSettles
  BY DEF Told, Settled, StatusSettles
<1> QED
  BY <1>1, ToldHolds, PTL

\* No loss is silent while the connection lasts: the messages missing between two rows are
\* at most those that messages_dropped shows.
THEOREM LossesAreReported == Spec => []GapsAreReported
<1>1. Inv /\ (\A j \in Jobs : Told(j)) => GapsAreReported
  <2> SUFFICES ASSUME Inv, NEW j \in Jobs, Told(j), table[j] # <<>>, Unbroken(j)
               PROVE  Cardinality(Skipped(j)) <= seen[j].dropped
    BY DEF GapsAreReported, Unbroken
  <2> DEFINE t == table[j]
             n == Len(table[j])
  <2>1. /\ t \in Seq(Nat) /\ batch[j] \in Seq(Nat) /\ Got(j) \subseteq Nat
        /\ seen[j].dropped \in Nat
    BY HoldTypes DEF Inv, Rows
  <2>2. n \in Nat \ {0} /\ DOMAIN t = 1..n /\ 1 \in DOMAIN t /\ n \in DOMAIN t
    BY <2>1, EmptySeq, LenProperties
  <2>3. t[1] \in Got(j) /\ t[n] \in Got(j) /\ t[1] \in Nat /\ t[n] \in Nat
    BY <2>1, <2>2 DEF Got, Holds
  <2>4. ASSUME NEW m \in Skipped(j) PROVE m \in (t[1]..t[n]) \ Got(j)
    <3>1. m \in t[1]..t[n] /\ \A i \in DOMAIN t : t[i] # m
      BY DEF Skipped
    <3>2. m \notin Holds(t)
      BY <3>1 DEF Holds
    <3>3. CASE worker[j] = "count"
      BY <3>1, <3>2, <3>3 DEF Told, GapsCounted, Got
    <3>4. CASE worker[j] # "count"
      <4>1. Below(t, batch[j])
        BY <3>4 DEF Inv, Rows, Orderly, InOrder
      <4>2. \A i \in DOMAIN batch[j] : t[n] < batch[j][i] /\ batch[j][i] \in Nat
        <5>1. \A i \in DOMAIN batch[j] : batch[j][i] \in Nat
          BY <2>1
        <5>2. \A i \in DOMAIN batch[j] : t[n] < batch[j][i]
          BY <2>2, <4>1, Zenon DEF Below
        <5> QED
          BY <5>1, <5>2
      <4>3. m \notin Holds(batch[j])
        BY <2>3, <3>1, <4>2 DEF Holds
      <4> QED
        BY <3>1, <3>2, <4>3 DEF Got
    <3> QED
      BY <3>3, <3>4
  <2>5. Skipped(j) \in SUBSET ((t[1]..t[n]) \ Got(j))
    BY <2>4
  <2>6. /\ Cardinality(Skipped(j)) \in Nat
        /\ Cardinality((t[1]..t[n]) \ Got(j)) \in Nat
        /\ Cardinality(Skipped(j)) <= Cardinality((t[1]..t[n]) \ Got(j))
    BY <2>3, <2>5, MissingCount
  <2>7. Cardinality((t[1]..t[n]) \ Got(j)) <= seen[j].dropped
    BY <2>3 DEF Told, GapsCounted
  <2> QED
    BY <2>1, <2>6, <2>7
<1> QED
  BY <1>1, InvHolds, ToldHolds, PTL
=============================================================================
