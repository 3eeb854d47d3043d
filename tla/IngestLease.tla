----------------------------- MODULE IngestLease -----------------------------
(***************************************************************************)
(* Who may commit for a durable consumer: the lock file and the lease row  *)
(* of the ingest jobs on one (stream_name, durable_name), from the claim   *)
(* in LaunchIngestJob to ReleaseIngestLease (src/src/nats_ingest.cpp).     *)
(*                                                                         *)
(* All jobs share one DuckDB database, so at any time they run in the one  *)
(* process that has it open; ProcessDies ends it with everything in it.    *)
(* DuckDB's snapshot isolation is external: a transaction that changes the *)
(* row fails if the row was changed since it began, or is being changed.   *)
(***************************************************************************)
EXTENDS Naturals, FiniteSets

CONSTANTS
  Claimants,   \* job instances: each has its own lease_owner_id and starts once
  NoJob,
  LockOf,      \* the lock file of a job: equal for equal connection URLs
  LeaseTicks,  \* lease lifetime; the worker renews it after a third of that
  MaxMark      \* bound on the number of committed transactions

ASSUME LeaseAssumption ==
  /\ NoJob \notin Claimants
  /\ LeaseTicks \in Nat /\ LeaseTicks >= 3
  /\ MaxMark \in Nat

VARIABLES
  stage,   \* how far each job has come
  fds,     \* jobs whose lock file is open and locked in the process
  lease,   \* durable: the lease row, and the ticks left until lease_until
  writer,  \* the job with an uncommitted change to the lease row
  tx,      \* the worker's transaction, and whether the row changed under it
  token,   \* fencing_token in each job's memory
  mark,    \* durable: the checkpoint, as a number of transactions
  base,    \* last_committed_seq in each job's memory
  due,     \* ticks since last_lease_renewal, up to LeaseTicks
  polled   \* jobs whose loop came round since the last tick

leaseVars == <<stage, fds, lease, writer, tx, token, mark, base, due, polled>>

Stages == {"new", "locked", "claiming", "loading", "starting", "loop", "paused", "batch",
           "fenced", "ending", "gone"}

\* The stages of RunIngestWorker, between the launch and the release.
Working == {"loop", "paused", "batch", "fenced"}

NoLease == [owner |-> NoJob, token |-> 0, ttl |-> 0]

RenewTicks == LeaseTicks \div 3

Renewed(l) == [l EXCEPT !.ttl = LeaseTicks]

\* The transactions after job j has committed a change to the lease row.
TxAfterChangeBy(j) ==
  [k \in Claimants |-> IF k = j THEN "none" ELSE IF tx[k] = "fresh" THEN "stale" ELSE tx[k]]

-----------------------------------------------------------------------------
\* LaunchIngestJob: the lock file, then the lease row, then the checkpoint.

\* A lock file that is not locked.
AcquireUnlocked(j) ==
  /\ stage[j] = "new"
  /\ stage' = [stage EXCEPT ![j] = "locked"]
  /\ fds' = fds \union {j}
  /\ UNCHANGED <<lease, writer, tx, token, mark, base, due, polled>>

\* AcquireIngestProcessLock takes the lock: flock also excludes other descriptors of
\* the same process.
AcquireLock(j) ==
  /\ \A k \in fds : LockOf[k] # LockOf[j]
  /\ AcquireUnlocked(j)

LockRefused(j) ==
  /\ stage[j] = "new"
  /\ \E k \in fds : LockOf[k] = LockOf[j]
  /\ stage' = [stage EXCEPT ![j] = "gone"]
  /\ UNCHANGED <<fds, lease, writer, tx, token, mark, base, due, polled>>

\* The INSERT or the UPDATE of ClaimIngestLease will make the job the owner.
Claimable == writer = NoJob /\ (lease.owner = NoJob \/ lease.ttl = 0)

ClaimWrites(j) ==
  /\ stage[j] = "locked"
  /\ Claimable
  /\ stage' = [stage EXCEPT ![j] = "claiming"]
  /\ writer' = j
  /\ UNCHANGED <<fds, lease, tx, token, mark, base, due, polled>>

\* A new row gets token 1, and then the UPDATE, which follows it, adds one.
ClaimCommits(j) ==
  /\ stage[j] = "claiming"
  /\ lease' = [owner |-> j, token |-> (IF lease.owner = NoJob THEN 1 ELSE lease.token) + 1,
               ttl |-> LeaseTicks]
  /\ token' = [token EXCEPT ![j] = lease'.token]
  /\ stage' = [stage EXCEPT ![j] = "loading"]
  /\ writer' = NoJob
  /\ tx' = TxAfterChangeBy(j)
  /\ UNCHANGED <<fds, mark, base, due, polled>>

\* The row has another owner, or another transaction is changing it.  fencing_token
\* is still 0, so ReleaseIngestLease returns before it closes the lock file.
ClaimRefused(j) ==
  /\ stage[j] = "locked"
  /\ ~Claimable
  /\ stage' = [stage EXCEPT ![j] = "gone"]
  /\ UNCHANGED <<fds, lease, writer, tx, token, mark, base, due, polled>>

\* InitializeIngestResources resumes from the checkpoint.
LoadCheckpoint(j) ==
  /\ stage[j] = "loading"
  /\ base' = [base EXCEPT ![j] = mark]
  /\ stage' = [stage EXCEPT ![j] = "starting"]
  /\ UNCHANGED <<fds, lease, writer, tx, token, mark, due, polled>>

\* The worker opens its first transaction before it enters its loop.
StartWorker(j) ==
  /\ stage[j] = "starting"
  /\ stage' = [stage EXCEPT ![j] = "loop"]
  /\ tx' = [tx EXCEPT ![j] = "fresh"]
  /\ due' = [due EXCEPT ![j] = 0]
  /\ UNCHANGED <<fds, lease, writer, token, mark, base, polled>>

-----------------------------------------------------------------------------
\* RunIngestWorker.

\* FenceIngestCommit finds the job's row; it does not look at lease_until.
Owns(j) == writer = NoJob /\ lease.owner = j /\ lease.token = token[j]

\* A renewal that waits for the whole lifetime.
RenewalIsDueTooLate(j) == due[j] >= LeaseTicks

RenewalIsDue(j) == due[j] >= RenewTicks

\* RenewIngestLeaseIfDue without an open transaction, and back to the loop.
RenewIfDue(j) ==
  \/ /\ ~RenewalIsDue(j)
     /\ stage' = [stage EXCEPT ![j] = "loop"]
     /\ tx' = [tx EXCEPT ![j] = "none"]
     /\ UNCHANGED <<lease, due>>
  \/ /\ RenewalIsDue(j) /\ Owns(j)
     /\ lease' = Renewed(lease)
     /\ due' = [due EXCEPT ![j] = 0]
     /\ stage' = [stage EXCEPT ![j] = "loop"]
     /\ tx' = TxAfterChangeBy(j)
  \/ /\ RenewalIsDue(j) /\ ~Owns(j)
     /\ stage' = [stage EXCEPT ![j] = "ending"]
     /\ tx' = [tx EXCEPT ![j] = "none"]
     /\ UNCHANGED <<lease, due>>

\* The loop comes round without a batch: a renewal, unless a transaction is open.
Poll(j) ==
  /\ stage[j] = "loop"
  /\ polled' = polled \union {j}
  /\ IF tx[j] = "none"
     THEN RenewIfDue(j)
     ELSE UNCHANGED <<stage, tx, lease, due>>
  /\ UNCHANGED <<fds, writer, token, mark, base>>

\* Messages to process: in the transaction that is open, or a new one.
BeginBatch(j) ==
  /\ stage[j] = "loop"
  /\ mark < MaxMark
  /\ stage' = [stage EXCEPT ![j] = "batch"]
  /\ tx' = [tx EXCEPT ![j] = IF @ = "none" THEN "fresh" ELSE @]
  /\ UNCHANGED <<fds, lease, writer, token, mark, base, due, polled>>

\* Every message was filtered or a duplicate: rollback, ack, renewal.
EmptyBatch(j) ==
  /\ stage[j] = "batch"
  /\ RenewIfDue(j)
  /\ UNCHANGED <<fds, writer, token, mark, base, polled>>

\* A fence that relies on write conflicts and does not compare owner and token.
FenceOnConflictOnly(j) == stage[j] = "batch" /\ writer = NoJob /\ tx[j] = "fresh"

\* The fence's UPDATE: no change of the row since the transaction began.
MayFence(j) == stage[j] = "batch" /\ Owns(j) /\ tx[j] = "fresh"

Fence(j) ==
  /\ MayFence(j)
  /\ stage' = [stage EXCEPT ![j] = "fenced"]
  /\ writer' = j
  /\ UNCHANGED <<fds, lease, tx, token, mark, base, due, polled>>

\* Rows, checkpoint and renewed lease become durable together.
CommitBatch(j) ==
  /\ stage[j] = "fenced"
  /\ mark' = mark + 1
  /\ base' = [base EXCEPT ![j] = mark']
  /\ lease' = Renewed(lease)
  /\ due' = [due EXCEPT ![j] = 0]
  /\ stage' = [stage EXCEPT ![j] = "loop"]
  /\ writer' = NoJob
  /\ tx' = TxAfterChangeBy(j)
  /\ UNCHANGED <<fds, token, polled>>

PauseWorker(j) ==
  /\ stage[j] = "loop"
  /\ stage' = [stage EXCEPT ![j] = "paused"]
  /\ UNCHANGED <<fds, lease, writer, tx, token, mark, base, due, polled>>

ResumeWorker(j) ==
  /\ stage[j] = "paused"
  /\ stage' = [stage EXCEPT ![j] = "loop"]
  /\ UNCHANGED <<fds, lease, writer, tx, token, mark, base, due, polled>>

\* A stop request, a refused fence or any other error after the claim: rollback.
End(j) ==
  /\ stage[j] \in Working \union {"loading", "starting"}
  /\ stage' = [stage EXCEPT ![j] = "ending"]
  /\ tx' = [tx EXCEPT ![j] = "none"]
  /\ writer' = IF writer = j THEN NoJob ELSE writer
  /\ UNCHANGED <<fds, lease, token, mark, base, due, polled>>

\* ReleaseIngestLease: a DELETE of the job's own row, whose failure is ignored.
Release(j) ==
  /\ stage[j] = "ending"
  /\ IF Owns(j)
     THEN lease' = NoLease /\ tx' = TxAfterChangeBy(j)
     ELSE UNCHANGED <<lease, tx>>
  /\ fds' = fds \ {j}
  /\ stage' = [stage EXCEPT ![j] = "gone"]
  /\ UNCHANGED <<writer, token, mark, base, due, polled>>

-----------------------------------------------------------------------------
\* The process and the clock.

\* The process dies: descriptors closed, transactions gone, the lease row left.
ProcessDies ==
  /\ \E j \in Claimants : stage[j] \notin {"new", "gone"} \/ j \in fds
  /\ stage' = [j \in Claimants |-> IF stage[j] = "new" THEN "new" ELSE "gone"]
  /\ fds' = {}
  /\ writer' = NoJob
  /\ tx' = [j \in Claimants |-> "none"]
  /\ UNCHANGED <<lease, token, mark, base, due, polled>>

\* A third of the lease time.  A worker's loop comes round more often than that:
\* fetch_timeout_ms and poll_ms are taken to be shorter.
Tick ==
  /\ \A j \in Claimants : stage[j] = "loop" => j \in polled
  /\ lease' = [lease EXCEPT !.ttl = IF @ = 0 THEN 0 ELSE @ - 1]
  /\ due' = [j \in Claimants |-> IF due[j] < LeaseTicks THEN due[j] + 1 ELSE due[j]]
  /\ polled' = {}
  /\ UNCHANGED <<stage, fds, writer, tx, token, mark, base>>

-----------------------------------------------------------------------------
LeaseInit ==
  /\ stage = [j \in Claimants |-> "new"]
  /\ fds = {}
  /\ lease = NoLease
  /\ writer = NoJob
  /\ tx = [j \in Claimants |-> "none"]
  /\ token = [j \in Claimants |-> 0]
  /\ mark = 0
  /\ base = [j \in Claimants |-> 0]
  /\ due = [j \in Claimants |-> 0]
  /\ polled = {}

JobStep(j) ==
  \/ AcquireLock(j)
  \/ LockRefused(j)
  \/ ClaimWrites(j)
  \/ ClaimCommits(j)
  \/ ClaimRefused(j)
  \/ LoadCheckpoint(j)
  \/ StartWorker(j)
  \/ Poll(j)
  \/ BeginBatch(j)
  \/ EmptyBatch(j)
  \/ Fence(j)
  \/ CommitBatch(j)
  \/ PauseWorker(j)
  \/ ResumeWorker(j)
  \/ End(j)
  \/ Release(j)

LeaseNext ==
  \/ \E j \in Claimants : JobStep(j)
  \/ ProcessDies
  \/ Tick

LeaseSpec == LeaseInit /\ [][LeaseNext]_leaseVars

-----------------------------------------------------------------------------
\* The types of the variables.  The lease row has an uncommitted change only inside
\* the claim or between fence and commit, and no transaction outlives its worker.
LeaseTypeOK ==
  /\ stage \in [Claimants -> Stages]
  /\ fds \subseteq Claimants
  /\ lease \in [owner : Claimants \union {NoJob}, token : Nat, ttl : 0..LeaseTicks]
  /\ writer \in Claimants \union {NoJob}
  /\ tx \in [Claimants -> {"none", "fresh", "stale"}]
  /\ token \in [Claimants -> Nat]
  /\ mark \in Nat
  /\ base \in [Claimants -> Nat]
  /\ due \in [Claimants -> 0..LeaseTicks]
  /\ polled \subseteq Claimants
  /\ \A j \in Claimants : writer = j <=> stage[j] \in {"claiming", "fenced"}
  /\ \A j \in Claimants : tx[j] # "none" => stage[j] \in Working

\* A transaction that passed the fence was built on the current checkpoint, however
\* often the durable changed hands meanwhile: a worker that was superseded while it
\* slept would insert again what its successor has stored.
FencedIsCurrent == \A j \in Claimants : stage[j] = "fenced" => base[j] = mark

\* Of the jobs that share a lock file at most one has a worker, whatever became of
\* the lease row: their prefetch threads would share the durable's messages.
OneWorkerPerLock ==
  \A j, k \in Claimants :
    stage[j] \in Working /\ stage[k] \in Working /\ LockOf[j] = LockOf[k] => j = k

\* The row changes hands only after it has run out, and the fencing token only grows.
TakeoverOnlyWhenExpired ==
  [][lease.owner # NoJob /\ lease'.owner \notin {lease.owner, NoJob} =>
       lease.ttl = 0 /\ lease'.token > lease.token]_leaseVars

\* The worker's clock, which starts when its loop does, is not behind the row's.
ClockAgrees(j) == lease.owner = j /\ lease.ttl + due[j] >= LeaseTicks

\* A worker whose loop comes round, with its first transaction behind it, keeps its
\* lease however long the stream is idle or every batch is filtered.
LeaseKeptAfterFirstBatch ==
  [][\A j \in Claimants : stage[j] = "loop" /\ tx[j] = "none" /\ ClockAgrees(j) /\ lease.ttl > 0 =>
       lease'.owner # j \/ lease'.ttl > 0]_leaseVars

\* nats_ingest.cpp:473, of the renewal: it "keeps the lease alive across idle or fully
\* filtered batches", hence also across the idle time before the first batch.  It does not
\* hold, because the renewal waits for a first batch (nats_ingest.cpp:478): README, section 4.
LeaseKeptWhileIdle ==
  [][\A j \in Claimants : stage[j] = "loop" /\ ClockAgrees(j) /\ lease.ttl > 0 =>
       lease'.owner # j \/ lease'.ttl > 0]_leaseVars

\* A refusal says that the lease "is held by another process" (nats_ingest.cpp:378):
\* a locked lock file always belongs to a job that is still alive.  It does not hold after a
\* refused claim: README, section 4.
LockHasLivingOwner == \A j \in fds : stage[j] # "gone"
=============================================================================
