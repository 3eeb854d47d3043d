------------------------- MODULE IngestControlProofs -------------------------
(***************************************************************************)
(* Proofs about who may run and who may commit: IngestLease, for any       *)
(* number of job instances, any sharing of lock files and any lease        *)
(* lifetime, and IngestJobLifecycle, for any number of connections, job    *)
(* instances and restarts.                                                 *)
(***************************************************************************)
EXTENDS IngestJobLifecycle, IngestLease, TLAPS

-----------------------------------------------------------------------------
(* IngestLease.                                                            *)

\* From the lock file to the release a job has its lock file open.
Holding == Stages \ {"new", "gone"}

HoldersHaveLocks == \A j \in Claimants : stage[j] \in Holding => j \in fds

LocksExclude == \A j, k \in fds : LockOf[j] = LockOf[k] => j = k

\* A claim in progress found no row, or one that had run out; the clock cannot undo it.
ClaimStaysValid ==
  \A j \in Claimants : stage[j] = "claiming" => lease.owner = NoJob \/ lease.ttl = 0

FencedOwns == \A j \in Claimants : stage[j] = "fenced" => lease.owner = j

\* The worker that owns the row has loaded, or written, the newest checkpoint.
OwnerIsCurrent ==
  \A j \in Claimants : lease.owner = j /\ stage[j] \in Working \union {"starting"} => base[j] = mark

\* The inductive invariant: a stale worker may run, but it is not the owner.
Ownership ==
  /\ LeaseTypeOK
  /\ HoldersHaveLocks
  /\ LocksExclude
  /\ ClaimStaysValid
  /\ FencedOwns
  /\ OwnerIsCurrent

\* No job has started: nothing is claimed.
LEMMA InitOwnership == LeaseInit => Ownership
<1> SUFFICES ASSUME LeaseInit PROVE Ownership
  OBVIOUS
<1>1. LeaseTicks \in Nat /\ NoJob \notin Claimants
  BY LeaseAssumption DEF LeaseAssumption
<1>2. LeaseTypeOK
  BY <1>1 DEF LeaseInit, LeaseTypeOK, Stages, NoLease
<1> QED BY <1>1, <1>2 DEF Ownership, LeaseInit, HoldersHaveLocks, LocksExclude, ClaimStaysValid,
           FencedOwns, OwnerIsCurrent, Holding, NoLease

\* The steps of the launch.
LEMMA LaunchOwnership ==
  ASSUME Ownership, NEW j \in Claimants,
         AcquireLock(j) \/ LockRefused(j) \/ ClaimWrites(j) \/ ClaimCommits(j)
           \/ ClaimRefused(j) \/ LoadCheckpoint(j) \/ StartWorker(j)
  PROVE  Ownership'
<1> USE LeaseAssumption DEF LeaseAssumption, Ownership, LeaseTypeOK, HoldersHaveLocks, LocksExclude,
        ClaimStaysValid, FencedOwns, OwnerIsCurrent, Holding, Stages, Working
<1>1. CASE AcquireLock(j)
  BY <1>1 DEF AcquireLock, AcquireUnlocked
<1>2. CASE LockRefused(j)
  BY <1>2 DEF LockRefused
<1>3. CASE ClaimWrites(j)
  BY <1>3 DEF ClaimWrites, Claimable
<1>4. CASE ClaimCommits(j)
  BY <1>4 DEF ClaimCommits, TxAfterChangeBy
<1>5. CASE ClaimRefused(j)
  BY <1>5 DEF ClaimRefused
<1>6. CASE StartWorker(j)
  BY <1>6 DEF StartWorker
<1>7. CASE LoadCheckpoint(j)
  BY <1>7 DEF LoadCheckpoint
<1> QED BY <1>1, <1>2, <1>3, <1>4, <1>5, <1>6, <1>7

\* A renewal is the owner's, and changes nothing but the time left.
LEMMA RenewalOwnership ==
  ASSUME Ownership, NEW j \in Claimants, stage[j] \in {"loop", "batch"}, RenewIfDue(j),
         polled' \in SUBSET Claimants, UNCHANGED <<fds, writer, token, mark, base>>
  PROVE  Ownership'
<1> USE LeaseAssumption DEF LeaseAssumption, Ownership, LeaseTypeOK, HoldersHaveLocks, LocksExclude,
        ClaimStaysValid, FencedOwns, OwnerIsCurrent, Holding, Stages, Working
<1>1. CASE ~RenewalIsDue(j)
  BY <1>1 DEF RenewIfDue
<1>2. CASE RenewalIsDue(j) /\ Owns(j)
  <2>1. /\ lease' = Renewed(lease) /\ due' = [due EXCEPT ![j] = 0]
        /\ stage' = [stage EXCEPT ![j] = "loop"] /\ tx' = TxAfterChangeBy(j)
        /\ writer = NoJob
    BY <1>2 DEF RenewIfDue, Owns
  <2>2. /\ lease' \in [owner : Claimants \union {NoJob}, token : Nat, ttl : 0..LeaseTicks]
        /\ lease'.owner = lease.owner
    BY <2>1 DEF Renewed
  <2>3. /\ tx' \in [Claimants -> {"none", "fresh", "stale"}]
        /\ \A k \in Claimants : tx'[k] # "none" => stage'[k] \in Working
    BY <2>1 DEF TxAfterChangeBy
  <2>4. stage' \in [Claimants -> Stages] /\ due' \in [Claimants -> 0..LeaseTicks]
    BY <2>1
  <2>5. \A k \in Claimants : writer' = k <=> stage'[k] \in {"claiming", "fenced"}
    BY <2>1
  <2>6. LeaseTypeOK'
    BY <2>2, <2>3, <2>4, <2>5
  <2>7. HoldersHaveLocks' /\ LocksExclude' /\ ClaimStaysValid' /\ FencedOwns'
    BY <2>1, <2>2, <2>5
  <2>8. OwnerIsCurrent'
    BY <2>1, <2>2
  <2> QED BY <2>6, <2>7, <2>8
<1>3. CASE RenewalIsDue(j) /\ ~Owns(j)
  BY <1>3 DEF RenewIfDue
<1> QED BY <1>1, <1>2, <1>3

\* The steps of the worker and its end.
LEMMA WorkerOwnership ==
  ASSUME Ownership, NEW j \in Claimants,
         Poll(j) \/ BeginBatch(j) \/ EmptyBatch(j) \/ Fence(j) \/ CommitBatch(j)
           \/ PauseWorker(j) \/ ResumeWorker(j) \/ End(j) \/ Release(j)
  PROVE  Ownership'
<1> USE LeaseAssumption DEF LeaseAssumption, Ownership, LeaseTypeOK, HoldersHaveLocks, LocksExclude,
        ClaimStaysValid, FencedOwns, OwnerIsCurrent, Holding, Stages, Working
<1>1. CASE Poll(j)
  <2>1. CASE tx[j] = "none"
    BY <1>1, <2>1, RenewalOwnership DEF Poll
  <2>2. CASE tx[j] # "none"
    BY <1>1, <2>2 DEF Poll
  <2> QED BY <2>1, <2>2
<1>2. CASE BeginBatch(j)
  BY <1>2 DEF BeginBatch
<1>3. CASE EmptyBatch(j)
  BY <1>3, RenewalOwnership DEF EmptyBatch
<1>4. CASE Fence(j)
  BY <1>4 DEF Fence, MayFence, Owns
<1>5. CASE CommitBatch(j)
  <2>1. lease.owner = j /\ lease'.owner = j /\ writer = j /\ mark \in Nat
    BY <1>5 DEF CommitBatch, Renewed
  <2>2. base' \in [Claimants -> Nat] /\ base'[j] = mark' /\ mark' \in Nat
    BY <1>5, <2>1 DEF CommitBatch
  <2>3. tx' \in [Claimants -> {"none", "fresh", "stale"}]
    BY <1>5 DEF CommitBatch, TxAfterChangeBy
  <2>4. \A k \in Claimants : tx'[k] # "none" => stage'[k] \in Working
    BY <1>5 DEF CommitBatch, TxAfterChangeBy
  <2>5. lease' \in [owner : Claimants \union {NoJob}, token : Nat, ttl : 0..LeaseTicks]
    BY <1>5 DEF CommitBatch, Renewed
  <2>6. \A k \in Claimants : writer' = k <=> stage'[k] \in {"claiming", "fenced"}
    BY <1>5, <2>1 DEF CommitBatch
  <2>7. LeaseTypeOK'
    BY <1>5, <2>2, <2>3, <2>4, <2>5, <2>6 DEF CommitBatch
  <2>8. HoldersHaveLocks' /\ LocksExclude' /\ ClaimStaysValid' /\ FencedOwns'
    BY <1>5, <2>1 DEF CommitBatch
  <2>9. OwnerIsCurrent'
    BY <2>1, <2>2
  <2> QED BY <2>7, <2>8, <2>9
<1>6. CASE PauseWorker(j)
  BY <1>6 DEF PauseWorker
<1>7. CASE ResumeWorker(j)
  BY <1>7 DEF ResumeWorker
<1>8. CASE End(j)
  BY <1>8 DEF End
<1>9. CASE Release(j)
  <2>1. CASE Owns(j)
    BY <1>9, <2>1 DEF Release, Owns, NoLease, TxAfterChangeBy
  <2>2. CASE ~Owns(j)
    BY <1>9, <2>2 DEF Release
  <2> QED BY <2>1, <2>2
<1> QED BY <1>1, <1>2, <1>3, <1>4, <1>5, <1>6, <1>7, <1>8, <1>9

\* Every step preserves ownership.
LEMMA NextOwnership == Ownership /\ [LeaseNext]_leaseVars => Ownership'
<1> SUFFICES ASSUME Ownership, [LeaseNext]_leaseVars PROVE Ownership'
  OBVIOUS
<1> USE LeaseAssumption DEF LeaseAssumption
<1>1. ASSUME NEW j \in Claimants, JobStep(j) PROVE Ownership'
  BY <1>1, LaunchOwnership, WorkerOwnership DEF JobStep
<1>2. CASE ProcessDies
  BY <1>2 DEF ProcessDies, Ownership, LeaseTypeOK, HoldersHaveLocks, LocksExclude, ClaimStaysValid,
     FencedOwns, OwnerIsCurrent, Holding, Stages, Working
<1>3. CASE Tick
  BY <1>3 DEF Tick, Ownership, LeaseTypeOK, HoldersHaveLocks, LocksExclude, ClaimStaysValid,
     FencedOwns, OwnerIsCurrent, Holding, Stages, Working
<1>4. CASE UNCHANGED leaseVars
  BY <1>4 DEF leaseVars, Ownership, LeaseTypeOK, HoldersHaveLocks, LocksExclude, ClaimStaysValid,
     FencedOwns, OwnerIsCurrent, Holding, Stages, Working
<1> QED BY <1>1, <1>2, <1>3, <1>4 DEF LeaseNext

-----------------------------------------------------------------------------
\* Ownership holds in every reachable state.
THEOREM OwnershipAlways == LeaseSpec => []Ownership
  BY InitOwnership, NextOwnership, PTL DEF LeaseSpec

\* Type correctness, with what may be left of a transaction in each stage.
THEOREM LeaseTypeCorrect == LeaseSpec => []LeaseTypeOK
<1>1. Ownership => LeaseTypeOK
  BY DEF Ownership
<1> QED BY <1>1, OwnershipAlways, PTL

\* A transaction that passed the fence was built on the current checkpoint: no
\* superseded worker ever commits.
THEOREM NoStaleCommit == LeaseSpec => []FencedIsCurrent
<1>1. Ownership => FencedIsCurrent
  BY DEF Ownership, FencedOwns, OwnerIsCurrent, FencedIsCurrent, Working
<1> QED BY <1>1, OwnershipAlways, PTL

\* Jobs that share a lock file never have two workers.
THEOREM LockFileExcludes == LeaseSpec => []OneWorkerPerLock
<1>1. Ownership => OneWorkerPerLock
  BY DEF Ownership, HoldersHaveLocks, LocksExclude, OneWorkerPerLock, Holding, Working, Stages
<1> QED BY <1>1, OwnershipAlways, PTL

\* The row changes hands only after it has run out, and with a larger token.
THEOREM TakeoversAreOrdered == LeaseSpec => TakeoverOnlyWhenExpired
<1> DEFINE Ordered == lease.owner # NoJob /\ lease'.owner \notin {lease.owner, NoJob} =>
                        lease.ttl = 0 /\ lease'.token > lease.token
<1>1. Ownership /\ [LeaseNext]_leaseVars => [Ordered]_leaseVars
  <2> SUFFICES ASSUME Ownership, LeaseNext PROVE Ordered
    OBVIOUS
  <2>1. ASSUME NEW j \in Claimants, ClaimCommits(j) PROVE Ordered
    BY <2>1 DEF ClaimCommits, Ownership, ClaimStaysValid, LeaseTypeOK
  <2>2. ASSUME NEW j \in Claimants, JobStep(j), ~ClaimCommits(j)
        PROVE  lease'.owner \in {lease.owner, NoJob}
    BY <2>2 DEF JobStep, AcquireLock, AcquireUnlocked, LockRefused, ClaimWrites, ClaimRefused,
       LoadCheckpoint, StartWorker, Poll, RenewIfDue, BeginBatch, EmptyBatch, Fence, CommitBatch,
       PauseWorker, ResumeWorker, End, Release, Renewed, NoLease, Ownership, LeaseTypeOK
  <2>3. CASE ProcessDies \/ Tick
    BY <2>3 DEF ProcessDies, Tick, Ownership, LeaseTypeOK
  <2> QED BY <2>1, <2>2, <2>3 DEF LeaseNext
<1> QED BY <1>1, OwnershipAlways, PTL DEF LeaseSpec, TakeoverOnlyWhenExpired

-----------------------------------------------------------------------------
\* A worker without an open transaction whose loop came round since the last tick is in
\* time with its renewal.
RenewsInTime ==
  \A j \in polled : stage[j] \in {"loop", "paused"} /\ tx[j] = "none" => due[j] < RenewTicks

\* A third of the lifetime is at least a tick, and at most a third.
LEMMA ThirdOfTheLifetime == RenewTicks \in Nat /\ RenewTicks >= 1 /\ 3 * RenewTicks <= LeaseTicks
  BY LeaseAssumption DEF LeaseAssumption, RenewTicks

\* The attempt to renew leaves a worker in its loop only with a renewal that is not due.
LEMMA RenewalInTime ==
  ASSUME LeaseTypeOK, RenewsInTime, NEW j \in Claimants, RenewIfDue(j),
         polled' \subseteq polled \union {j}
  PROVE  RenewsInTime'
<1>1. due'[j] < RenewTicks \/ stage'[j] = "ending"
  BY ThirdOfTheLifetime DEF RenewIfDue, RenewalIsDue, LeaseTypeOK
<1>2. ASSUME NEW k \in polled', k # j
      PROVE  /\ k \in polled /\ stage'[k] = stage[k] /\ due'[k] = due[k]
             /\ tx'[k] = "none" => tx[k] = "none"
  BY <1>2 DEF RenewIfDue, TxAfterChangeBy, LeaseTypeOK
<1> QED
  BY <1>1, <1>2 DEF RenewsInTime

\* Every step keeps the renewals in time.
LEMMA NextInTime ==
  LeaseTypeOK /\ LeaseTypeOK' /\ RenewsInTime /\ [LeaseNext]_leaseVars => RenewsInTime'
<1> SUFFICES ASSUME LeaseTypeOK, LeaseTypeOK', RenewsInTime, [LeaseNext]_leaseVars
             PROVE  RenewsInTime'
  OBVIOUS
<1>1. ASSUME NEW j \in Claimants, Poll(j) PROVE RenewsInTime'
  <2>1. CASE tx[j] = "none"
    BY <1>1, <2>1, RenewalInTime DEF Poll
  <2>2. CASE tx[j] # "none"
    BY <1>1, <2>2 DEF Poll, RenewsInTime
  <2> QED
    BY <2>1, <2>2
<1>2. ASSUME NEW j \in Claimants, EmptyBatch(j) PROVE RenewsInTime'
  BY <1>2, RenewalInTime DEF EmptyBatch
<1>3. ASSUME NEW j \in Claimants, CommitBatch(j) PROVE RenewsInTime'
  <2>1. due'[j] < RenewTicks
    BY <1>3, ThirdOfTheLifetime DEF CommitBatch, LeaseTypeOK
  <2>2. \A k \in polled : k # j => /\ stage'[k] = stage[k] /\ due'[k] = due[k]
                                   /\ tx'[k] = "none" => tx[k] = "none"
    BY <1>3 DEF CommitBatch, TxAfterChangeBy, LeaseTypeOK
  <2> QED
    BY <1>3, <2>1, <2>2 DEF CommitBatch, RenewsInTime
<1>4. ASSUME NEW j \in Claimants, ClaimCommits(j) \/ Release(j) PROVE RenewsInTime'
  <2>1. stage'[j] \notin {"loop", "paused"} /\ polled' = polled /\ due' = due
    BY <1>4 DEF ClaimCommits, Release, LeaseTypeOK
  <2>2. \A k \in polled : k # j => stage'[k] = stage[k] /\ (tx'[k] = "none" => tx[k] = "none")
    BY <1>4 DEF ClaimCommits, Release, TxAfterChangeBy, LeaseTypeOK
  <2> QED
    BY <2>1, <2>2 DEF RenewsInTime
<1>5. ASSUME NEW j \in Claimants,
             AcquireLock(j) \/ LockRefused(j) \/ ClaimWrites(j) \/ ClaimRefused(j)
               \/ LoadCheckpoint(j) \/ StartWorker(j) \/ BeginBatch(j) \/ Fence(j)
               \/ PauseWorker(j) \/ ResumeWorker(j) \/ End(j)
      PROVE  RenewsInTime'
  BY <1>5 DEF AcquireLock, AcquireUnlocked, LockRefused, ClaimWrites, ClaimRefused,
     LoadCheckpoint, StartWorker, BeginBatch, Fence, PauseWorker, ResumeWorker, End,
     RenewsInTime, LeaseTypeOK
<1>6. CASE ProcessDies
  BY <1>6 DEF ProcessDies, RenewsInTime, LeaseTypeOK
<1>7. CASE Tick
  BY <1>7 DEF Tick, RenewsInTime
<1>8. CASE UNCHANGED leaseVars
  BY <1>8 DEF leaseVars, RenewsInTime
<1> QED
  BY <1>1, <1>2, <1>3, <1>4, <1>5, <1>6, <1>7, <1>8 DEF LeaseNext, JobStep

\* A worker past its first transaction keeps its lease, however long it finds nothing: a
\* renewal is due after a third of the lifetime, and the loop comes round in every third.
THEOREM RenewalsKeepTheLease == LeaseSpec => LeaseKeptAfterFirstBatch
<1> DEFINE Kept(j) ==
             stage[j] = "loop" /\ tx[j] = "none" /\ ClockAgrees(j) /\ lease.ttl > 0
               => lease'.owner # j \/ lease'.ttl > 0
<1>1. LeaseInit => RenewsInTime
  BY DEF LeaseInit, RenewsInTime
<1>2. LeaseTypeOK /\ RenewsInTime /\ [LeaseNext]_leaseVars
        => [\A j \in Claimants : Kept(j)]_leaseVars
  <2> SUFFICES ASSUME LeaseTypeOK, RenewsInTime, LeaseNext, NEW j \in Claimants,
                      stage[j] = "loop", tx[j] = "none", ClockAgrees(j), lease.ttl > 0
               PROVE  lease'.owner # j \/ lease'.ttl > 0
    OBVIOUS
  <2>1. LeaseTicks \in Nat /\ LeaseTicks >= 3 /\ NoJob \notin Claimants /\ lease.ttl \in Nat
    BY LeaseAssumption DEF LeaseAssumption, LeaseTypeOK
  <2>2. CASE Tick
    <3>1. due[j] < RenewTicks /\ due[j] \in Nat
      BY <2>2 DEF Tick, RenewsInTime, LeaseTypeOK
    <3>2. lease.ttl + due[j] >= LeaseTicks
      BY DEF ClockAgrees
    <3>3. lease.ttl > 1
      BY <2>1, <3>1, <3>2, ThirdOfTheLifetime
    <3> QED
      BY <2>1, <2>2, <3>3 DEF Tick, LeaseTypeOK
  <2>3. CASE ProcessDies
    BY <2>3 DEF ProcessDies
  <2>4. ASSUME NEW k \in Claimants, JobStep(k)
        PROVE  lease' = lease \/ lease'.ttl = LeaseTicks \/ lease'.owner = NoJob
    BY <2>4 DEF JobStep, AcquireLock, AcquireUnlocked, LockRefused, ClaimWrites, ClaimCommits,
       ClaimRefused, LoadCheckpoint, StartWorker, Poll, RenewIfDue, BeginBatch, EmptyBatch, Fence,
       CommitBatch, PauseWorker, ResumeWorker, End, Release, Renewed, NoLease, LeaseTypeOK
  <2> QED
    BY <2>1, <2>2, <2>3, <2>4 DEF LeaseNext
<1> QED
  BY <1>1, <1>2, NextInTime, LeaseTypeCorrect, PTL DEF LeaseSpec, LeaseKeptAfterFirstBatch

-----------------------------------------------------------------------------
(* IngestJobLifecycle.                                                     *)

\* The newest instance is the only one that can be in the map.
NewestIsMapped == current \in {0, created}

UnbornHasNoWorker == \A j \in Jobs : j > created => worker[j] = "none"

\* A live worker is in the map and cannot be replaced or erased, as it has not finished.
WorkerOwnsName == \A j \in Jobs : Alive(j) => current = j /\ ~job[j].finished

\* Nor can an instance that is being launched, which only one connection does.
LaunchOwnsName ==
  \A c \in Callers : At(c, "launch") =>
    /\ current = caller[c].on
    /\ ~job[caller[c].on].finished
    /\ worker[caller[c].on] = "none"
    /\ \A d \in Callers : At(d, "launch") => d = c

EndedIsInactive == \A j \in Jobs : worker[j] = "stopped" => ~job[j].running

\* The inductive invariant.
Control ==
  /\ TypeOK
  /\ NewestIsMapped
  /\ UnbornHasNoWorker
  /\ WorkerOwnsName
  /\ LaunchOwnsName
  /\ EndedIsInactive
  /\ StoppedStaysStopped

\* The part of the types that the moves of a connection touch.
Places == {"idle", "create", "check", "wait", "replace", "launch", "cleanup", "mark",
           "remove", "drain", "erase", "pause", "resume", "returns"}

NoInstance == {"idle", "create", "mark"}

CallersOK ==
  /\ caller \in [Callers -> [at : Places, on : 0..created, restore : Rows]]
  /\ \A c \in Callers : caller[c].on = 0 <=> caller[c].at \in NoInstance

\* At a place with an instance, it is one of those created.
LEMMA HeldInstance ==
  ASSUME TypeOK, NEW c \in Callers, caller[c].at \notin NoInstance
  PROVE  /\ caller[c].on \in Jobs /\ caller[c].on \in 1..created
         /\ job[caller[c].on] \in Flags
<1>1. /\ caller[c].on \in 0..created /\ caller[c].on # 0
      /\ created \in 0..MaxJobs /\ MaxJobs \in Nat
  BY LifecycleAssumption DEF TypeOK, NoInstance, LifecycleAssumption
<1>2. caller[c].on \in Jobs /\ caller[c].on \in 1..created
  BY <1>1 DEF Jobs
<1> QED
  BY <1>2 DEF TypeOK

\* A move of one connection keeps the types, and leaves the other connections where they are.
LEMMA GoesTyped ==
  ASSUME TypeOK, NEW c \in Callers, NEW place \in Places, NEW j \in 0..created',
         created' \in Nat, created <= created', j = 0 <=> place \in NoInstance,
         Goes(c, place, j)
  PROVE  /\ CallersOK'
         /\ caller'[c].at = place /\ caller'[c].on = j
         /\ \A d \in Callers : d # c => caller'[d] = caller[d]
<1>1. /\ caller \in [Callers -> [at : Places, on : 0..created, restore : Rows]]
      /\ \A d \in Callers : caller[d].on = 0 <=> caller[d].at \in NoInstance
      /\ created \in Nat
  BY LifecycleAssumption DEF TypeOK, Places, NoInstance, LifecycleAssumption
<1>2. caller' = [caller EXCEPT ![c] = [caller[c] EXCEPT !.at = place, !.on = j]]
  BY <1>1 DEF Goes
<1>3. [caller[c] EXCEPT !.at = place, !.on = j] \in
        [at : Places, on : 0..created', restore : Rows]
  BY <1>1
<1>4. \A d \in Callers : caller[d] \in [at : Places, on : 0..created', restore : Rows]
  BY <1>1
<1>5. caller' \in [Callers -> [at : Places, on : 0..created', restore : Rows]]
  BY <1>1, <1>2, <1>3, <1>4
<1>6. caller'[c].at = place /\ caller'[c].on = j
  BY <1>1, <1>2
<1>7. \A d \in Callers : d # c => caller'[d] = caller[d]
  BY <1>1, <1>2
<1>8. \A d \in Callers : caller'[d].on = 0 <=> caller'[d].at \in NoInstance
  BY <1>1, <1>6, <1>7
<1> QED
  BY <1>5, <1>6, <1>7, <1>8 DEF CallersOK

LEMMA ReturnsTyped ==
  ASSUME TypeOK, NEW c \in Callers, created' = created, Returns(c)
  PROVE  /\ CallersOK'
         /\ caller'[c].at \in NoInstance
         /\ \A d \in Callers : d # c => caller'[d] = caller[d]
<1>1. /\ caller \in [Callers -> [at : Places, on : 0..created, restore : Rows]]
      /\ \A d \in Callers : caller[d].on = 0 <=> caller[d].at \in NoInstance
      /\ created \in Nat
  BY LifecycleAssumption DEF TypeOK, Places, NoInstance, LifecycleAssumption
<1>2. /\ Idle \in [at : Places, on : 0..created, restore : Rows]
      /\ Idle.on = 0 /\ Idle.at \in NoInstance
  BY <1>1 DEF Idle, Places, NoInstance, NoRow, Rows
<1> QED
  BY <1>1, <1>2 DEF Returns, CallersOK

LEMMA RaisesTyped ==
  ASSUME TypeOK, NEW c \in Callers, created' = created, Raises(c)
  PROVE  /\ CallersOK'
         /\ caller'[c].at \in NoInstance
         /\ \A d \in Callers : d # c => caller'[d] = caller[d]
<1>1. created' \in Nat /\ 0 \in 0..created' /\ "mark" \in Places /\ "mark" \in NoInstance
  BY LifecycleAssumption DEF TypeOK, Places, NoInstance, LifecycleAssumption
<1>2. CASE caller[c].restore.active
  <2>1. Goes(c, "mark", 0)
    BY <1>2 DEF Raises
  <2> QED
    BY <1>1, <2>1, GoesTyped
<1>3. CASE ~caller[c].restore.active
  BY <1>3, ReturnsTyped DEF Raises
<1> QED
  BY <1>2, <1>3

\* No job has been started.
LEMMA ControlInit == Init => Control
<1> SUFFICES ASSUME Init PROVE Control
  OBVIOUS
<1>1. TypeOK
  <2>1. MaxJobs \in Nat /\ MaxCrashes \in Nat /\ 0 \in 0..0
    BY LifecycleAssumption DEF LifecycleAssumption
  <2>2. NewJob \in Flags /\ NoRow \in Rows
    BY DEF NewJob, Flags, NoRow, Rows
  <2>3. job \in [Jobs -> Flags] /\ row \in Rows
    BY <2>2 DEF Init
  <2>4. /\ current \in 0..created /\ created \in 0..MaxJobs /\ crashes \in 0..MaxCrashes
    BY <2>1 DEF Init
  <2>5. CallersOK
    <3>1. /\ Idle \in [at : Places, on : 0..created, restore : Rows]
          /\ Idle.on = 0 /\ Idle.at \in NoInstance
      BY <2>2, <2>4 DEF Init, Idle, Places, NoInstance
    <3> QED
      BY <3>1 DEF Init, CallersOK
  <2>6. txOpen \in [Jobs -> BOOLEAN] /\ loaded \in BOOLEAN
    BY DEF Init
  <2> QED
    BY <2>3, <2>4, <2>5, <2>6 DEF Init, TypeOK, CallersOK, Places, NoInstance
<1> QED
  BY <1>1 DEF Init, Control, NewestIsMapped, UnbornHasNoWorker, WorkerOwnsName, LaunchOwnsName,
     EndedIsInactive, StoppedStaysStopped, Alive, At, Idle

\* A move of a connection that starts no launch, leaves the map and the workers alone,
\* changes no flag but the requests, and writes no row of an active job.
LEMMA MoveKeeps ==
  ASSUME Control, CallersOK', UNCHANGED <<current, created, worker, txOpen, crashes>>,
         job' \in [Jobs -> Flags], loaded' \in BOOLEAN, row' \in Rows,
         \A j \in Jobs : /\ job'[j].finished <=> job[j].finished
                         /\ job'[j].running <=> job[j].running
                         /\ job'[j].failed <=> job[j].failed,
         row'.active => row.active,
         \A c \in Callers :
           caller'[c].at = "launch" => caller[c].at = "launch" /\ caller'[c].on = caller[c].on
  PROVE  Control'
<1>1. TypeOK'
  BY DEF Control, TypeOK, CallersOK, Places, NoInstance
<1>2. WorkerOwnsName' /\ EndedIsInactive' /\ UnbornHasNoWorker' /\ NewestIsMapped'
  BY DEF Control, WorkerOwnsName, EndedIsInactive, UnbornHasNoWorker, NewestIsMapped, Alive
<1>3. LaunchOwnsName'
  <2> SUFFICES ASSUME NEW c \in Callers, caller'[c].at = "launch"
               PROVE  /\ current' = caller'[c].on
                      /\ ~job'[caller'[c].on].finished
                      /\ worker'[caller'[c].on] = "none"
                      /\ \A d \in Callers : caller'[d].at = "launch" => d = c
    BY DEF LaunchOwnsName, At
  <2>1. caller[c].at = "launch" /\ caller'[c].on = caller[c].on
    OBVIOUS
  <2>2. caller[c].on \in Jobs
    BY <2>1, HeldInstance DEF Control, NoInstance
  <2> QED
    BY <2>1, <2>2 DEF Control, LaunchOwnsName, At
<1>4. StoppedStaysStopped'
  BY DEF Control, StoppedStaysStopped
<1> QED
  BY <1>1, <1>2, <1>3, <1>4 DEF Control

\* What most moves leave alone.
LEMMA QuietKeeps ==
  ASSUME Control, CallersOK', UNCHANGED mem, UNCHANGED row, UNCHANGED crashes,
         loaded' \in BOOLEAN, NEW c \in Callers, caller'[c].at # "launch",
         \A d \in Callers : d # c => caller'[d] = caller[d]
  PROVE  Control'
<1>1. /\ job \in [Jobs -> Flags] /\ row \in Rows
      /\ UNCHANGED <<current, created, worker, txOpen, crashes, job, row>>
  BY DEF Control, TypeOK, mem
<1> QED
  BY <1>1, MoveKeeps

\* A new instance is put into the map: it is the newest, and its name was free.
LEMMA EnterKeeps ==
  ASSUME Control, NEW c \in Callers, Enter(c),
         \A j \in Jobs : ~Alive(j), \A d \in Callers : ~At(d, "launch"),
         UNCHANGED <<worker, txOpen, row, crashes, loaded>>
  PROVE  Control'
<1>1. /\ created \in Nat /\ MaxJobs \in Nat /\ created < MaxJobs
      /\ created' = created + 1 /\ current' = created'
      /\ job' = [job EXCEPT ![created'] = NewJob]
      /\ Goes(c, "launch", created')
  BY LifecycleAssumption DEF LifecycleAssumption, Control, TypeOK, Enter
<1>2. created' \in Jobs /\ created' \in 0..created' /\ created' # 0 /\ created' \in 0..MaxJobs
  BY <1>1 DEF Jobs
<1>3. /\ CallersOK' /\ caller'[c].at = "launch" /\ caller'[c].on = created'
      /\ \A d \in Callers : d # c => caller'[d] = caller[d]
  <2>1. "launch" \in Places /\ "launch" \notin NoInstance
    BY DEF Places, NoInstance
  <2>2. created' \in Nat /\ created <= created' /\ TypeOK
    BY <1>1 DEF Control
  <2> QED
    BY <1>1, <1>2, <2>1, <2>2, GoesTyped
<1>4. job' \in [Jobs -> Flags] /\ ~job'[created'].finished
  <2>1. job \in [Jobs -> Flags] /\ NewJob \in Flags /\ ~NewJob.finished
    BY DEF Control, TypeOK, NewJob, Flags
  <2> QED
    BY <1>1, <1>2, <2>1
<1>5. \A j \in Jobs : j # created' => job'[j] = job[j]
  BY <1>1 DEF Control, TypeOK
<1>6. worker'[created'] = "none" /\ worker' = worker
  BY <1>1, <1>2 DEF Control, UnbornHasNoWorker
<1>7. TypeOK'
  BY <1>1, <1>2, <1>3, <1>4 DEF Control, TypeOK, CallersOK, Places, NoInstance
<1>8. NewestIsMapped' /\ WorkerOwnsName'
  BY <1>1, <1>6 DEF NewestIsMapped, WorkerOwnsName, Alive
<1>9. UnbornHasNoWorker'
  BY <1>1, <1>6 DEF Control, UnbornHasNoWorker, Jobs
<1>10. LaunchOwnsName'
  BY <1>1, <1>3, <1>4, <1>6 DEF LaunchOwnsName, At
<1>11. EndedIsInactive' /\ StoppedStaysStopped'
  BY <1>2, <1>5, <1>6 DEF Control, EndedIsInactive, StoppedStaysStopped
<1> QED
  BY <1>7, <1>8, <1>9, <1>10, <1>11 DEF Control

\* The steps of a connection: nats_start_ingest and the rehydration.
LEMMA CreateKeeps ==
  ASSUME Control, NEW c \in Callers,
         Call(c) \/ CreateLooks(c) \/ CreateChecks(c) \/ CreateWaits(c) \/ CreateReplaces(c)
           \/ RehydrationFails(c)
  PROVE  Control'
<1>1. /\ TypeOK /\ created \in Nat /\ current \in 0..created
      /\ \A place \in {"create"} : place \in Places /\ place \in NoInstance
      /\ \A place \in {"check", "wait", "replace"} : place \in Places /\ place \notin NoInstance
  BY LifecycleAssumption DEF LifecycleAssumption, Control, TypeOK, Places, NoInstance
<1>2. CASE Call(c)
  <2>1. /\ CallersOK' /\ caller'[c].at # "launch"
        /\ \A d \in Callers : d # c => caller'[d] = caller[d]
    <3>1. /\ caller \in [Callers -> [at : Places, on : 0..created, restore : Rows]]
          /\ \A d \in Callers : caller[d].on = 0 <=> caller[d].at \in NoInstance
          /\ row \in Rows /\ created' = created
      BY <1>2 DEF Call, Control, TypeOK, Places, NoInstance, mem
    <3>2. caller[c].at = "idle"
      BY <1>2 DEF Call, At
    <3>3. CASE caller' = [caller EXCEPT ![c].at = "create"]
      BY <3>1, <3>2, <3>3 DEF CallersOK, Places, NoInstance
    <3>4. CASE caller' = [caller EXCEPT ![c].at = "create", ![c].restore = row]
      <4>1. /\ caller'[c].at = "create" /\ caller'[c].on = caller[c].on
            /\ \A d \in Callers : d # c => caller'[d] = caller[d]
        <5>1. caller'[c].at = "create"
          BY <3>1, <3>4
        <5>2. caller'[c].on = caller[c].on
          BY <3>1, <3>4
        <5>3. \A d \in Callers : d # c => caller'[d] = caller[d]
          BY <3>1, <3>4
        <5> QED
          BY <5>1, <5>2, <5>3
      <4>2. caller' \in [Callers -> [at : Places, on : 0..created, restore : Rows]]
        <5> DEFINE turned == [[caller[c] EXCEPT !.at = "create"] EXCEPT !.restore = row]
        <5>1. caller[c] \in [at : Places, on : 0..created, restore : Rows] /\ row \in Rows
          BY <3>1
        <5>2. turned \in [at : Places, on : 0..created, restore : Rows]
          BY <5>1 DEF Places
        <5>3. caller' = [caller EXCEPT ![c] = turned]
          BY <3>1, <3>4
        <5> HIDE DEF turned
        <5> QED
          BY <3>1, <5>2, <5>3
      <4>3. caller'[c].at = "create" /\ caller'[c].on = 0
        BY <3>1, <3>2, <4>1 DEF NoInstance
      <4> QED
        BY <3>1, <4>1, <4>2, <4>3 DEF CallersOK, NoInstance
    <3>5. CASE UNCHANGED caller
      BY <3>1, <3>2, <3>5 DEF CallersOK
    <3> QED
      BY <1>2, <3>3, <3>4, <3>5 DEF Call
  <2>2. loaded' \in BOOLEAN /\ UNCHANGED mem /\ UNCHANGED row /\ UNCHANGED crashes
    BY <1>2 DEF Call, Control, TypeOK
  <2> QED
    BY <2>1, <2>2, QuietKeeps
<1>3. CASE RehydrationFails(c)
  <2>1. /\ UNCHANGED <<current, created, worker, txOpen, crashes, job, loaded>> /\ Returns(c)
        /\ row' \in {row, [caller[c].restore EXCEPT !.active = FALSE]}
    BY <1>3 DEF RehydrationFails, mem
  <2>2. caller[c].restore \in Rows /\ row \in Rows /\ job' \in [Jobs -> Flags] /\ loaded' \in BOOLEAN
    BY <2>1 DEF Control, TypeOK
  <2>3. row' \in Rows /\ (row'.active => row.active)
    BY <2>1, <2>2 DEF Rows
  <2>4. /\ CallersOK' /\ caller'[c].at \in NoInstance
        /\ \A d \in Callers : d # c => caller'[d] = caller[d]
    BY <1>1, <2>1, ReturnsTyped
  <2>5. \A d \in Callers :
          caller'[d].at = "launch" => caller[d].at = "launch" /\ caller'[d].on = caller[d].on
    BY <2>4 DEF NoInstance
  <2> QED
    BY <2>1, <2>2, <2>3, <2>4, <2>5, MoveKeeps
<1>4. CASE CreateLooks(c)
  <2>1. CASE current = 0 /\ Enter(c)
    <3>1. (\A j \in Jobs : ~Alive(j)) /\ (\A d \in Callers : ~At(d, "launch"))
      <4>1. \A j \in Jobs : j # 0
        BY DEF Jobs
      <4>2. \A d \in Callers : At(d, "launch") => caller[d].on \in Jobs
        BY <1>1, HeldInstance DEF At, NoInstance
      <4> QED
        BY <2>1, <4>1, <4>2 DEF Control, WorkerOwnsName, LaunchOwnsName
    <3> QED
      BY <1>4, <2>1, <3>1, EnterKeeps DEF CreateLooks
  <2>2. CASE current # 0 /\ Goes(c, "check", current) /\ UNCHANGED <<current, created, job>>
    BY <1>1, <1>4, <2>2, GoesTyped, QuietKeeps DEF CreateLooks, mem, Control, TypeOK
  <2> QED
    BY <1>4, <2>1, <2>2 DEF CreateLooks
<1>5. CASE CreateChecks(c) \/ CreateWaits(c)
  <2>1. /\ UNCHANGED mem /\ UNCHANGED row /\ UNCHANGED crashes /\ loaded' = loaded
        /\ created' = created /\ loaded' \in BOOLEAN /\ caller[c].at \in {"check", "wait"}
        /\ \/ Raises(c) \/ Goes(c, "wait", caller[c].on) \/ Goes(c, "replace", caller[c].on)
    BY <1>5 DEF CreateChecks, CreateWaits, mem, Control, TypeOK, At
  <2>2. caller[c].on \in 0..created' /\ caller[c].on # 0
    BY <1>1, <2>1, HeldInstance DEF NoInstance
  <2>3. /\ CallersOK' /\ caller'[c].at # "launch"
        /\ \A d \in Callers : d # c => caller'[d] = caller[d]
    <3>1. CASE Raises(c)
      BY <1>1, <2>1, <3>1, RaisesTyped DEF NoInstance
    <3>2. CASE Goes(c, "wait", caller[c].on)
      BY <1>1, <2>1, <2>2, <3>2, GoesTyped
    <3>3. CASE Goes(c, "replace", caller[c].on)
      BY <1>1, <2>1, <2>2, <3>3, GoesTyped
    <3> QED
      BY <2>1, <3>1, <3>2, <3>3
  <2> QED
    BY <2>1, <2>3, QuietKeeps
<1>6. CASE CreateReplaces(c)
  <2>1. CASE StillReplaceable(caller[c].on)
    <3>1. current = caller[c].on /\ job[current].finished
      BY <2>1 DEF StillReplaceable
    <3>2. (\A j \in Jobs : ~Alive(j)) /\ (\A d \in Callers : ~At(d, "launch"))
      BY <3>1 DEF Control, WorkerOwnsName, LaunchOwnsName
    <3> QED
      BY <1>6, <2>1, <3>2, EnterKeeps DEF CreateReplaces
  <2>2. CASE ~StillReplaceable(caller[c].on)
    <3>1. /\ Goes(c, "create", 0) /\ UNCHANGED mem /\ UNCHANGED <<row, crashes>>
          /\ created' = created /\ loaded' \in BOOLEAN /\ 0 \in 0..created'
      BY <1>1, <1>6, <2>2 DEF CreateReplaces, mem, Control, TypeOK
    <3> QED
      BY <1>1, <3>1, GoesTyped, QuietKeeps
  <2> QED
    BY <2>1, <2>2
<1> QED
  BY <1>2, <1>3, <1>4, <1>5, <1>6

\* A launch keeps its name until it ends, in a worker or in a job that has finished.
LEMMA LaunchKeeps ==
  ASSUME Control, NEW c \in Callers,
         LaunchSucceeds(c) \/ LaunchFails(c) \/ LaunchCleansUp(c)
  PROVE  Control'
<1>1. TypeOK
  BY DEF Control
<1>2. CASE LaunchCleansUp(c)
  <2>1. /\ UNCHANGED mem /\ UNCHANGED <<row, crashes>> /\ created' = created
        /\ loaded' \in BOOLEAN /\ caller[c].at = "cleanup"
        /\ \/ Raises(c)
           \/ current # 0 /\ Goes(c, "remove", current)
    BY <1>2 DEF LaunchCleansUp, mem, Control, TypeOK, At
  <2>2. current \in 0..created' /\ created' \in Nat /\ created <= created'
    BY <2>1, LifecycleAssumption DEF Control, TypeOK, LifecycleAssumption
  <2>3. /\ CallersOK' /\ caller'[c].at # "launch"
        /\ \A d \in Callers : d # c => caller'[d] = caller[d]
    <3>1. CASE Raises(c)
      BY <1>1, <2>1, <3>1, RaisesTyped DEF NoInstance
    <3>2. CASE current # 0 /\ Goes(c, "remove", current)
      <4>1. "remove" \in Places /\ "remove" \notin NoInstance
        BY DEF Places, NoInstance
      <4> QED
        BY <1>1, <2>1, <2>2, <3>2, <4>1, GoesTyped
    <3> QED
      BY <2>1, <3>1, <3>2
  <2> QED
    BY <2>1, <2>3, QuietKeeps
<1>3. ASSUME LaunchSucceeds(c) \/ LaunchFails(c)
      PROVE  /\ caller[c].on \in Jobs /\ caller[c].on \in 1..created
             /\ job[caller[c].on] \in Flags /\ caller[c].restore \in Rows
             /\ current = caller[c].on /\ current = created
             /\ ~job[current].finished /\ worker[current] = "none"
             /\ \A d \in Callers : caller[d].at = "launch" => d = c
             /\ \A j \in Jobs : ~Alive(j)
             /\ created \in Nat
  <2>1. caller[c].at = "launch"
    BY <1>3 DEF LaunchSucceeds, LaunchFails, At
  <2>2. /\ caller[c].on \in Jobs /\ caller[c].on \in 1..created /\ job[caller[c].on] \in Flags
    BY <1>1, <2>1, HeldInstance DEF NoInstance
  <2>3. /\ current = caller[c].on /\ ~job[current].finished /\ worker[current] = "none"
        /\ \A d \in Callers : caller[d].at = "launch" => d = c
    BY <2>1 DEF Control, LaunchOwnsName, At
  <2>4. current = created /\ created \in Nat
    BY <2>2, <2>3, LifecycleAssumption
    DEF LifecycleAssumption, Control, NewestIsMapped, TypeOK
  <2>5. \A j \in Jobs : ~Alive(j)
    BY <2>3 DEF Control, WorkerOwnsName, Alive
  <2> QED
    BY <1>1, <2>2, <2>3, <2>4, <2>5 DEF TypeOK
<1>4. CASE LaunchSucceeds(c)
  <2> DEFINE r == caller[c].restore
             f == IF r.active
                  THEN [job[current] EXCEPT !.pause = r.pause, !.paused = r.paused]
                  ELSE job[current]
  <2>1. /\ job' = [job EXCEPT ![current] = [f EXCEPT !.finished = FALSE]]
        /\ row' = RowOf(f)
        /\ worker' = [worker EXCEPT ![current] = "spawned"]
        /\ Returns(c) \/ Goes(c, "returns", current)
        /\ UNCHANGED <<current, created, txOpen, crashes, loaded>>
    BY <1>3, <1>4 DEF LaunchSucceeds
  <2>2. /\ f \in Flags /\ [f EXCEPT !.finished = FALSE] \in Flags
        /\ ~[f EXCEPT !.finished = FALSE].finished /\ RowOf(f) \in Rows
    BY <1>3, <1>4 DEF Flags, Rows, RowOf
  <2> HIDE DEF r, f
  <2>3. /\ job' \in [Jobs -> Flags] /\ ~job'[current].finished
        /\ \A j \in Jobs : j # current => job'[j] = job[j]
    BY <1>1, <1>3, <1>4, <2>1, <2>2 DEF TypeOK
  <2>4. worker'[current] = "spawned" /\ \A j \in Jobs : j # current => worker'[j] = worker[j]
    BY <1>1, <1>3, <1>4, <2>1 DEF TypeOK
  <2>5. /\ CallersOK' /\ caller'[c].at # "launch"
        /\ \A d \in Callers : d # c => caller'[d] = caller[d]
    <3>1. CASE Returns(c)
      BY <1>1, <2>1, <3>1, ReturnsTyped DEF NoInstance
    <3>2. CASE Goes(c, "returns", current)
      <4>1. /\ "returns" \in Places /\ "returns" \notin NoInstance
            /\ current \in 0..created' /\ current # 0 /\ created' = created /\ created \in Nat
        BY <1>3, <1>4, <2>1 DEF Places, NoInstance
      <4> QED
        BY <1>1, <2>1, <3>2, <4>1, GoesTyped
    <3> QED
      BY <2>1, <3>1, <3>2
  <2>6. TypeOK'
    BY <1>1, <2>1, <2>2, <2>3, <2>5 DEF TypeOK, CallersOK, Places, NoInstance
  <2>7. NewestIsMapped' /\ UnbornHasNoWorker'
    BY <1>3, <1>4, <2>1, <2>4 DEF Control, NewestIsMapped, UnbornHasNoWorker
  <2>8. WorkerOwnsName'
    BY <1>3, <1>4, <2>1, <2>3, <2>4 DEF WorkerOwnsName, Alive
  <2>9. LaunchOwnsName'
    BY <1>3, <1>4, <2>5 DEF LaunchOwnsName, At
  <2>10. EndedIsInactive'
    BY <2>3, <2>4 DEF Control, EndedIsInactive
  <2>11. StoppedStaysStopped'
    BY <1>3, <1>4, <2>1, <2>4 DEF StoppedStaysStopped
  <2> QED
    BY <2>6, <2>7, <2>8, <2>9, <2>10, <2>11 DEF Control
<1>5. CASE LaunchFails(c)
  <2>1. /\ job' = [job EXCEPT ![current].finished = TRUE]
        /\ Goes(c, "cleanup", current)
        /\ UNCHANGED <<current, created, worker, txOpen, row, crashes, loaded>>
    BY <1>3, <1>5 DEF LaunchFails
  <2>2. /\ job' \in [Jobs -> Flags]
        /\ \A j \in Jobs : job'[j].running <=> job[j].running
        /\ \A j \in Jobs : job'[j].failed <=> job[j].failed
    BY <1>1, <1>3, <1>5, <2>1 DEF TypeOK, Flags
  <2>3. /\ CallersOK' /\ caller'[c].at # "launch"
        /\ \A d \in Callers : d # c => caller'[d] = caller[d]
    <3>1. /\ "cleanup" \in Places /\ "cleanup" \notin NoInstance
          /\ current \in 0..created' /\ current # 0 /\ created' = created /\ created \in Nat
      BY <1>3, <1>5, <2>1 DEF Places, NoInstance
    <3> QED
      BY <1>1, <2>1, <3>1, GoesTyped
  <2>4. TypeOK'
    BY <1>1, <2>1, <2>2, <2>3 DEF TypeOK, CallersOK, Places, NoInstance
  <2>5. NewestIsMapped' /\ UnbornHasNoWorker' /\ WorkerOwnsName' /\ EndedIsInactive'
    BY <1>3, <1>5, <2>1, <2>2
    DEF Control, NewestIsMapped, UnbornHasNoWorker, WorkerOwnsName, EndedIsInactive, Alive
  <2>6. LaunchOwnsName'
    BY <1>3, <1>5, <2>3 DEF LaunchOwnsName, At
  <2>7. StoppedStaysStopped'
    BY <2>1, <2>2 DEF Control, StoppedStaysStopped
  <2> QED
    BY <2>4, <2>5, <2>6, <2>7 DEF Control
<1> QED
  BY <1>2, <1>4, <1>5

\* nats_remove_ingest takes only an instance out of the map whose worker has finished.
LEMMA RemoveKeeps ==
  ASSUME Control, NEW c \in Callers,
         Remove(c) \/ RemoveChecks(c) \/ RemoveWaits(c) \/ RemoveErases(c)
  PROVE  Control'
<1>1. TypeOK /\ created \in Nat /\ current \in 0..created
  BY LifecycleAssumption DEF LifecycleAssumption, Control, TypeOK
<1>2. CASE Remove(c) \/ RemoveChecks(c) \/ RemoveWaits(c)
  <2>1. /\ UNCHANGED mem /\ UNCHANGED <<row, crashes>> /\ created' = created
        /\ loaded' \in BOOLEAN
        /\ \/ Raises(c)
           \/ current # 0 /\ Goes(c, "remove", current)
           \/ /\ caller[c].at \in {"remove", "drain"}
              /\ Goes(c, "drain", caller[c].on) \/ Goes(c, "erase", caller[c].on)
    BY <1>2 DEF Remove, RemoveChecks, RemoveWaits, mem, Control, TypeOK, At
  <2>2. \A place \in {"remove", "drain", "erase"} :
          place \in Places /\ place \notin NoInstance /\ place # "launch"
    BY DEF Places, NoInstance
  <2>3. /\ CallersOK' /\ caller'[c].at # "launch"
        /\ \A d \in Callers : d # c => caller'[d] = caller[d]
    <3>1. CASE Raises(c)
      BY <1>1, <2>1, <3>1, RaisesTyped DEF NoInstance
    <3>2. CASE current # 0 /\ Goes(c, "remove", current)
      BY <1>1, <2>1, <2>2, <3>2, GoesTyped
    <3>3. CASE /\ caller[c].at \in {"remove", "drain"}
               /\ Goes(c, "drain", caller[c].on) \/ Goes(c, "erase", caller[c].on)
      <4>1. caller[c].on \in 0..created' /\ caller[c].on # 0
        BY <1>1, <2>1, <3>3, HeldInstance DEF NoInstance
      <4> QED
        BY <1>1, <2>1, <2>2, <3>3, <4>1, GoesTyped
    <3> QED
      BY <2>1, <3>1, <3>2, <3>3
  <2> QED
    BY <2>1, <2>3, QuietKeeps
<1>3. CASE RemoveErases(c)
  <2>1. /\ UNCHANGED <<created, job, worker, txOpen, row, crashes, loaded>> /\ Raises(c)
        /\ current' = IF StillReplaceable(caller[c].on) THEN 0 ELSE current
        /\ row \in Rows /\ loaded \in BOOLEAN /\ job \in [Jobs -> Flags]
    BY <1>3 DEF RemoveErases, Control, TypeOK
  <2>2. /\ CallersOK' /\ caller'[c].at # "launch"
        /\ \A d \in Callers : d # c => caller'[d] = caller[d]
    BY <1>1, <2>1, RaisesTyped DEF NoInstance
  <2>3. CASE current' = current
    <3>1. UNCHANGED mem
      BY <2>1, <2>3 DEF mem
    <3> QED
      BY <2>1, <2>2, <3>1, QuietKeeps
  <2>4. CASE current' = 0 /\ job[current].finished
    <3>1. (\A j \in Jobs : ~Alive(j)) /\ (\A d \in Callers : ~At(d, "launch"))
      BY <2>4 DEF Control, WorkerOwnsName, LaunchOwnsName
    <3>2. TypeOK'
      BY <1>1, <2>1, <2>2, <2>4 DEF TypeOK, CallersOK, Places, NoInstance
    <3>3. NewestIsMapped' /\ UnbornHasNoWorker' /\ WorkerOwnsName' /\ EndedIsInactive'
      BY <2>1, <2>4, <3>1
      DEF Control, NewestIsMapped, UnbornHasNoWorker, WorkerOwnsName, EndedIsInactive, Alive
    <3>4. LaunchOwnsName'
      BY <2>2, <3>1 DEF LaunchOwnsName, At
    <3>5. StoppedStaysStopped'
      BY <2>1 DEF Control, StoppedStaysStopped
    <3> QED
      BY <3>2, <3>3, <3>4, <3>5 DEF Control
  <2> QED
    BY <2>1, <2>3, <2>4 DEF StillReplaceable
<1> QED
  BY <1>2, <1>3

\* The SQL controls of a job: only the requests change.
LEMMA ControlsKeep ==
  ASSUME Control, NEW c \in Callers,
         Stop(c) \/ Pause(c) \/ PauseJob(c) \/ Resume(c) \/ ResumeJob(c) \/ WaitIsOver(c)
  PROVE  Control'
<1>1. TypeOK /\ created \in Nat /\ current \in 0..created /\ row \in Rows /\ loaded \in BOOLEAN
      /\ job \in [Jobs -> Flags] /\ current \in Jobs \union {0} /\ CallersOK
  BY LifecycleAssumption
  DEF LifecycleAssumption, Control, TypeOK, Jobs, CallersOK, Places, NoInstance
<1>2. CASE Pause(c) \/ Resume(c)
  <2>1. PICK what \in {"pause", "resume"} : Controls(c, what)
    BY <1>2 DEF Pause, Resume
  <2>2. /\ UNCHANGED mem /\ UNCHANGED <<row, crashes>> /\ created' = created
        /\ loaded' \in BOOLEAN /\ current # 0 /\ Goes(c, what, current)
    BY <1>1, <2>1 DEF Controls, mem
  <2>3. what \in Places /\ what \notin NoInstance /\ what # "launch"
    BY DEF Places, NoInstance
  <2>4. /\ CallersOK' /\ caller'[c].at # "launch"
        /\ \A d \in Callers : d # c => caller'[d] = caller[d]
    BY <1>1, <2>2, <2>3, GoesTyped
  <2> QED
    BY <2>2, <2>4, QuietKeeps
<1>3. ASSUME job' \in [Jobs -> Flags],
             \A j \in Jobs : /\ job'[j].finished <=> job[j].finished
                             /\ job'[j].running <=> job[j].running
                             /\ job'[j].failed <=> job[j].failed,
             UNCHANGED <<current, created, worker, txOpen, row, crashes, loaded>>,
             \/ UNCHANGED caller
             \/ caller[c].at \in {"pause", "resume"} /\ Goes(c, "returns", caller[c].on)
      PROVE  Control'
  <2>1. CallersOK' /\ \A d \in Callers : caller'[d].at = "launch" => caller'[d] = caller[d]
    <3>1. CASE caller[c].at \in {"pause", "resume"} /\ Goes(c, "returns", caller[c].on)
      <4>1. caller[c].on \in 0..created' /\ caller[c].on # 0
        BY <1>1, <1>3, <3>1, HeldInstance DEF NoInstance
      <4>2. "returns" \in Places /\ "returns" \notin NoInstance
        BY DEF Places, NoInstance
      <4> QED
        BY <1>1, <1>3, <3>1, <4>1, <4>2, GoesTyped
    <3>2. CASE UNCHANGED caller
      BY <1>1, <1>3, <3>2 DEF CallersOK
    <3> QED
      BY <1>3, <3>1, <3>2
  <2> QED
    BY <1>1, <1>3, <2>1, MoveKeeps
<1>4. CASE Stop(c)
  <2>1. job' = [job EXCEPT ![current].stop = TRUE] /\ current \in Jobs
    BY <1>1, <1>4 DEF Stop
  <2>2. /\ job' \in [Jobs -> Flags]
        /\ \A j \in Jobs : /\ job'[j].finished <=> job[j].finished
                           /\ job'[j].running <=> job[j].running
                           /\ job'[j].failed <=> job[j].failed
    BY <1>1, <2>1 DEF Flags
  <2> QED
    BY <1>3, <1>4, <2>2 DEF Stop
<1>5. CASE PauseJob(c) \/ ResumeJob(c)
  <2>1. PICK value \in BOOLEAN : SetsPause(c, "pause", value) \/ SetsPause(c, "resume", value)
    BY <1>5 DEF PauseJob, ResumeJob
  <2>2. job' = job \/ (current \in Jobs /\ job' = [job EXCEPT ![current].pause = value])
    BY <1>1, <2>1 DEF SetsPause
  <2>3. /\ job' \in [Jobs -> Flags]
        /\ \A j \in Jobs : /\ job'[j].finished <=> job[j].finished
                           /\ job'[j].running <=> job[j].running
                           /\ job'[j].failed <=> job[j].failed
    BY <1>1, <2>2 DEF Flags
  <2> QED
    BY <1>3, <2>1, <2>3 DEF SetsPause, At
<1>6. CASE WaitIsOver(c)
  <2>1. /\ UNCHANGED mem /\ UNCHANGED <<row, crashes>> /\ created' = created
        /\ loaded' \in BOOLEAN /\ Returns(c)
    BY <1>1, <1>6 DEF WaitIsOver, mem
  <2>2. /\ CallersOK' /\ caller'[c].at # "launch"
        /\ \A d \in Callers : d # c => caller'[d] = caller[d]
    BY <1>1, <2>1, ReturnsTyped DEF NoInstance
  <2> QED
    BY <2>1, <2>2, QuietKeeps
<1> QED
  BY <1>2, <1>4, <1>5, <1>6

\* A step of a worker that neither begins nor ends its life: its instance is the one in the
\* map, and is not stopped for good yet.
LEMMA WorkerMoveKeeps ==
  ASSUME Control, NEW j \in Jobs, Alive(j), NEW place, NEW f \in Flags,
         place \in {"loop", "fetch", "waiting", "leaving", "stopped", "exiting"},
         UNCHANGED <<current, created, caller, crashes, loaded>>,
         worker' = [worker EXCEPT ![j] = place],
         job' = [job EXCEPT ![j] = f], f.finished <=> job[j].finished,
         place = "stopped" => ~f.running,
         txOpen' \in [Jobs -> BOOLEAN], row' \in Rows,
         place = "exiting" /\ ~f.failed /\ ~txOpen'[j] => ~row'.active
  PROVE  Control'
<1>1. /\ current = j /\ created = j /\ ~job[j].finished
      /\ worker'[j] = place /\ \A k \in Jobs : k # j => worker'[k] = worker[k]
      /\ job' \in [Jobs -> Flags]
      /\ job'[j] = f /\ \A k \in Jobs : k # j => job'[k] = job[k]
  <2>1. current = j /\ ~job[j].finished
    BY DEF Control, WorkerOwnsName
  <2>2. created = j
    BY <2>1, LifecycleAssumption DEF Control, NewestIsMapped, Jobs, LifecycleAssumption
  <2>3. worker'[j] = place /\ \A k \in Jobs : k # j => worker'[k] = worker[k]
    BY DEF Control, TypeOK
  <2>4. /\ job' \in [Jobs -> Flags]
        /\ job'[j] = f /\ \A k \in Jobs : k # j => job'[k] = job[k]
    BY DEF Control, TypeOK
  <2> QED
    BY <2>1, <2>2, <2>3, <2>4
<1>2. TypeOK'
  BY <1>1 DEF Control, TypeOK
<1>3. NewestIsMapped' /\ UnbornHasNoWorker'
  BY <1>1 DEF Control, NewestIsMapped, UnbornHasNoWorker, Jobs
<1>4. WorkerOwnsName'
  <2>1. ~job'[j].finished
    BY <1>1
  <2> QED
    BY <1>1, <2>1 DEF Control, WorkerOwnsName, Alive
<1>5. LaunchOwnsName'
  <2>1. \A c \in Callers : ~At(c, "launch")
    BY <1>1 DEF Control, LaunchOwnsName, Alive
  <2> QED
    BY <2>1 DEF LaunchOwnsName, At
<1>6. EndedIsInactive'
  BY <1>1 DEF Control, EndedIsInactive
<1>7. StoppedStaysStopped'
  <2> SUFFICES ASSUME NEW k \in Jobs, created' = k, worker'[k] \in {"exiting", "done"},
                      ~job'[k].failed, ~txOpen'[k]
               PROVE  ~row'.active
    BY DEF StoppedStaysStopped
  <2>1. k = j /\ place = "exiting"
    BY <1>1
  <2> QED
    BY <1>1, <2>1
<1> QED
  BY <1>2, <1>3, <1>4, <1>5, <1>6, <1>7 DEF Control

\* The steps of a worker.
LEMMA WorkerKeeps ==
  ASSUME Control, NEW j \in Jobs, WorkerProgress(j) \/ WorkerBatch(j) \/ WorkerFails(j)
  PROVE  Control'
<1>1. /\ TypeOK /\ job[j] \in Flags /\ row \in Rows /\ txOpen \in [Jobs -> BOOLEAN]
      /\ job = [job EXCEPT ![j] = job[j]]
  BY DEF Control, TypeOK
<1>2. ASSUME NEW f \in Flags PROVE RowOf(f) \in Rows /\ (~f.running => ~RowOf(f).active)
  BY DEF RowOf, Rows, Flags
<1>3. ASSUME NEW f \in Flags PROVE PersistedRow(j, f) \in Rows
  BY <1>1, <1>2 DEF PersistedRow
<1>4. CASE WorkerStarts(j)
  <2> DEFINE f == [job[j] EXCEPT !.running = TRUE, !.stop = FALSE, !.stopped = FALSE,
                                 !.failed = FALSE]
  <2>1. f \in Flags /\ (f.finished <=> job[j].finished)
    BY <1>1 DEF Flags
  <2>2. /\ Alive(j) /\ job' = [job EXCEPT ![j] = f] /\ row' = RowOf(f)
        /\ worker' = [worker EXCEPT ![j] = "loop"] /\ txOpen' = [txOpen EXCEPT ![j] = TRUE]
        /\ UNCHANGED <<current, created, caller, crashes, loaded>>
    BY <1>4 DEF WorkerStarts, Alive
  <2> HIDE DEF f
  <2>3. txOpen' \in [Jobs -> BOOLEAN] /\ row' \in Rows
    BY <1>1, <1>2, <2>1, <2>2
  <2> QED
    BY <2>1, <2>2, <2>3, WorkerMoveKeeps
<1>5. CASE WorkerFetches(j) \/ WorkerFindsNothing(j) \/ WorkerSeesStop(j) \/ WorkerBatch(j)
  <2>1. PICK place \in {"loop", "fetch", "leaving"} : worker' = [worker EXCEPT ![j] = place]
    BY <1>5 DEF WorkerFetches, WorkerFindsNothing, WorkerSeesStop, WorkerBatch
  <2>2. /\ Alive(j) /\ job' = job
        /\ UNCHANGED <<current, created, caller, crashes, loaded>>
    BY <1>5 DEF WorkerFetches, WorkerFindsNothing, WorkerSeesStop, WorkerBatch, Alive
  <2>3. txOpen' \in [Jobs -> BOOLEAN]
    BY <1>1, <1>5 DEF WorkerFetches, WorkerFindsNothing, WorkerSeesStop, WorkerBatch
  <2>4. row' \in Rows
    BY <1>1, <1>2, <1>5 DEF WorkerFetches, WorkerFindsNothing, WorkerSeesStop, WorkerBatch
  <2> QED
    BY <1>1, <2>1, <2>2, <2>3, <2>4, WorkerMoveKeeps
<1>6. CASE WorkerPauses(j) \/ WorkerResumes(j)
  <2>1. PICK b \in BOOLEAN : /\ job' = [job EXCEPT ![j] = [job[j] EXCEPT !.paused = b]]
                             /\ row' \in {row, PersistedRow(j, [job[j] EXCEPT !.paused = b])}
    BY <1>6 DEF WorkerPauses, WorkerResumes
  <2> DEFINE f == [job[j] EXCEPT !.paused = b]
  <2>2. f \in Flags /\ (f.finished <=> job[j].finished)
    BY <1>1 DEF Flags
  <2>3. job' = [job EXCEPT ![j] = f] /\ row' \in {row, PersistedRow(j, f)}
    BY <2>1
  <2> HIDE DEF f
  <2>4. PICK place \in {"loop", "waiting", "leaving"} : worker' = [worker EXCEPT ![j] = place]
    BY <1>6 DEF WorkerPauses, WorkerResumes
  <2>5. Alive(j) /\ UNCHANGED <<current, created, caller, crashes, loaded>> /\ txOpen' = txOpen
    BY <1>6 DEF WorkerPauses, WorkerResumes, Alive
  <2> QED
    BY <1>1, <1>3, <2>2, <2>3, <2>4, <2>5, WorkerMoveKeeps
<1>7. CASE WorkerEnds(j) \/ WorkerFails(j)
  <2>1. PICK f \in Flags : /\ job' = [job EXCEPT ![j] = f] /\ (f.finished <=> job[j].finished)
                           /\ ~f.running
    <3>1. CASE WorkerEnds(j)
      <4> DEFINE f == [job[j] EXCEPT !.running = FALSE, !.stopped = TRUE]
      <4>1. f \in Flags /\ (f.finished <=> job[j].finished) /\ ~f.running
        BY <1>1 DEF Flags
      <4>2. job' = [job EXCEPT ![j] = f]
        BY <1>1, <3>1 DEF WorkerEnds, TypeOK
      <4> QED
        BY <4>1, <4>2
    <3>2. CASE WorkerFails(j)
      <4> DEFINE f == [job[j] EXCEPT !.running = FALSE, !.stopped = TRUE, !.failed = TRUE]
      <4>1. f \in Flags /\ (f.finished <=> job[j].finished) /\ ~f.running
        BY <1>1 DEF Flags
      <4>2. job' = [job EXCEPT ![j] = f]
        BY <1>1, <3>2 DEF WorkerFails, TypeOK
      <4> QED
        BY <4>1, <4>2
    <3> QED
      BY <1>7, <3>1, <3>2
  <2>2. /\ Alive(j) /\ worker' = [worker EXCEPT ![j] = "stopped"] /\ row' = row
        /\ UNCHANGED <<current, created, caller, crashes, loaded>>
    BY <1>7 DEF WorkerEnds, WorkerFails, Alive
  <2>3. txOpen' \in [Jobs -> BOOLEAN]
    BY <1>1, <1>7 DEF WorkerEnds, WorkerFails
  <2> QED
    BY <1>1, <2>1, <2>2, <2>3, WorkerMoveKeeps
<1>8. CASE WorkerPersists(j)
  <2>1. /\ Alive(j) /\ worker' = [worker EXCEPT ![j] = "exiting"] /\ job' = job
        /\ txOpen' = txOpen /\ UNCHANGED <<current, created, caller, crashes, loaded>>
        /\ worker[j] = "stopped"
    BY <1>8 DEF WorkerPersists, Alive
  <2>2. ~job[j].running /\ ~RowOf(job[j]).active
    BY <1>1, <1>2, <2>1 DEF Control, EndedIsInactive
  <2>3. row' \in Rows
    BY <1>1, <1>2, <1>3, <1>8 DEF WorkerPersists
  <2>4. ~job[j].failed /\ ~txOpen[j] => ~row'.active
    BY <1>8, <2>2 DEF WorkerPersists, PersistedRow
  <2> QED
    BY <1>1, <2>1, <2>2, <2>3, <2>4, WorkerMoveKeeps
<1>9. CASE WorkerFinishes(j)
  <2>1. /\ worker[j] = "exiting" /\ worker' = [worker EXCEPT ![j] = "done"]
        /\ job' = [job EXCEPT ![j].finished = TRUE]
        /\ UNCHANGED <<current, created, txOpen, caller, row, crashes, loaded>>
    BY <1>9 DEF WorkerFinishes
  <2>2. /\ current = j /\ \A k \in Jobs : k # j => ~Alive(k)
        /\ \A c \in Callers : ~At(c, "launch")
    BY <2>1 DEF Control, WorkerOwnsName, LaunchOwnsName, Alive
  <2>3. /\ worker'[j] = "done" /\ \A k \in Jobs : k # j => worker'[k] = worker[k]
    BY <1>1, <2>1 DEF TypeOK
  <2>4. /\ job' \in [Jobs -> Flags]
        /\ \A k \in Jobs : job'[k].running <=> job[k].running
        /\ \A k \in Jobs : job'[k].failed <=> job[k].failed
    BY <1>1, <2>1 DEF TypeOK, Flags
  <2>5. TypeOK'
    BY <1>1, <2>1, <2>4 DEF TypeOK
  <2>6. NewestIsMapped' /\ UnbornHasNoWorker'
    <3>1. j <= created /\ \A k \in Jobs : k # j => worker'[k] = worker[k]
      BY <1>1, <2>2, <2>3, LifecycleAssumption DEF TypeOK, LifecycleAssumption
    <3>2. created \in Nat /\ \A k \in Jobs : k > created => k # j
      BY <1>1, <3>1, LifecycleAssumption DEF TypeOK, LifecycleAssumption, Jobs
    <3> QED
      BY <2>1, <3>1, <3>2 DEF Control, NewestIsMapped, UnbornHasNoWorker
  <2>7. WorkerOwnsName' /\ LaunchOwnsName'
    BY <2>1, <2>2, <2>3 DEF WorkerOwnsName, LaunchOwnsName, Alive, At
  <2>8. EndedIsInactive'
    BY <2>3, <2>4 DEF Control, EndedIsInactive
  <2>9. StoppedStaysStopped'
    BY <2>1, <2>3, <2>4 DEF Control, StoppedStaysStopped
  <2> QED
    BY <2>5, <2>6, <2>7, <2>8, <2>9 DEF Control
<1> QED
  BY <1>4, <1>5, <1>6, <1>7, <1>8, <1>9 DEF WorkerProgress

\* A restart leaves nothing but the row.
LEMMA CrashKeeps == ASSUME Control, Crash PROVE Control'
<1>1. /\ current' = 0 /\ created' = created /\ row' = row /\ crashes' = crashes + 1
      /\ crashes < MaxCrashes /\ loaded' = FALSE
      /\ worker' = [j \in Jobs |-> "none"] /\ job' = [j \in Jobs |-> NewJob]
      /\ txOpen' = [j \in Jobs |-> FALSE] /\ caller' = [c \in Callers |-> Idle]
  BY DEF Crash
<1>2. NewJob \in Flags /\ NoRow \in Rows /\ row \in Rows
  BY DEF NewJob, Flags, NoRow, Rows, Control, TypeOK
<1>3. /\ created' \in 0..MaxJobs /\ current' \in 0..created' /\ crashes' \in 0..MaxCrashes
      /\ 0 \in 0..created'
  BY <1>1, LifecycleAssumption DEF LifecycleAssumption, Control, TypeOK
<1>4. CallersOK'
  <2>1. /\ Idle \in [at : Places, on : 0..created', restore : Rows]
        /\ Idle.on = 0 /\ Idle.at \in NoInstance
    BY <1>2, <1>3 DEF Idle, Places, NoInstance
  <2> QED
    BY <1>1, <2>1 DEF CallersOK
<1>5. TypeOK'
  <2>1. job' \in [Jobs -> Flags] /\ txOpen' \in [Jobs -> BOOLEAN] /\ loaded' \in BOOLEAN
    BY <1>1, <1>2
  <2> QED
    BY <1>1, <1>2, <1>3, <1>4, <2>1 DEF TypeOK, CallersOK, Places, NoInstance
<1> QED
  BY <1>1, <1>5 DEF Control, NewestIsMapped, UnbornHasNoWorker, WorkerOwnsName, LaunchOwnsName,
     EndedIsInactive, StoppedStaysStopped, Alive, At, Idle

LEMMA ControlStep == Control /\ [Next]_vars => Control'
<1> SUFFICES ASSUME Control, [Next]_vars PROVE Control'
  OBVIOUS
<1>1. ASSUME NEW c \in Callers, CallerStep(c) PROVE Control'
  BY <1>1, CreateKeeps, LaunchKeeps, RemoveKeeps, ControlsKeep DEF CallerStep
<1>2. ASSUME NEW j \in Jobs, WorkerProgress(j) \/ WorkerBatch(j) \/ WorkerFails(j)
      PROVE  Control'
  BY <1>2, WorkerKeeps
<1>3. CASE UNCHANGED vars
  BY <1>3 DEF vars, mem, Control, TypeOK, NewestIsMapped, UnbornHasNoWorker, WorkerOwnsName,
     LaunchOwnsName, EndedIsInactive, StoppedStaysStopped, Alive, At
<1> QED
  BY <1>1, <1>2, <1>3, CrashKeeps DEF Next

\* The invariant holds in every reachable state.
THEOREM ControlAlways == Spec => []Control
  BY ControlInit, ControlStep, PTL DEF Spec

\* Type correctness: a connection past the lookup of the name holds an instance.
THEOREM LifecycleTypeCorrect == Spec => []TypeOK
<1>1. Control => TypeOK
  BY DEF Control
<1> QED
  BY <1>1, ControlAlways, PTL

\* A worker that lives is the one under the name, so nats_stop_ingest reaches it, and there
\* is never a second one.
THEOREM LiveWorkerIsMapped == Spec => []WorkerIsMapped
<1>1. Control => WorkerIsMapped
  BY DEF Control, WorkerOwnsName, WorkerIsMapped
<1> QED
  BY <1>1, ControlAlways, PTL

\* No restart brings a stopped job back that has processed a batch.
THEOREM StopOutlivesRestart == Spec => []StoppedStaysStopped
<1>1. Control => StoppedStaysStopped
  BY DEF Control
<1> QED
  BY <1>1, ControlAlways, PTL
=============================================================================
