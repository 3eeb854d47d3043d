--------------------------- MODULE IngestPipeline ---------------------------
(***************************************************************************)
(* The path of a JetStream message into the target table of one ingest     *)
(* job: the stream and its durable consumer, the subscription and prefetch *)
(* thread of NatsJetStreamBatchSource, and the transactions of             *)
(* RunIngestWorker (src/src/nats_ingest.cpp, src/src/nats_source.cpp).     *)
(*                                                                         *)
(* A message is its stream sequence number.  A row is a count per sequence *)
(* number.  The ownership lease is in IngestLease: here at most one worker *)
(* runs, and a refused fence is one of the errors WorkerFails stands for.  *)
(* resume_from_checkpoint is true, its default.                            *)
(***************************************************************************)
EXTENDS Naturals, Sequences, FiniteSets, FiniteSetsExt

CONSTANTS
  MaxSeq,          \* bound on the stream: sequence numbers are 1..MaxSeq
  Matching,        \* the sequence numbers whose subject passes subject_contains
  StartSeq,        \* start_seq of the job
  BatchSize,       \* batch_size: messages per transaction
  TransportBatch,  \* transport_batch_size: messages per pull request
  LossyLink,       \* may a connection break lose deliveries and acks?
  EarlyTakeover    \* may a job be launched on the same durable name while the
                   \* batch source of a stopped one is still being torn down?

ASSUME PipelineAssumption ==
  /\ MaxSeq \in Nat
  /\ Matching \subseteq 1..MaxSeq
  /\ StartSeq \in Nat \ {0}
  /\ BatchSize \in Nat \ {0}
  /\ TransportBatch \in Nat \ {0}
  /\ LossyLink \in BOOLEAN
  /\ EarlyTakeover \in BOOLEAN

VARIABLES
  published,   \* last sequence number of the stream
  consumer,    \* the server's durable consumer
  wire,        \* answers to the open pull request, not yet a fetched batch
  prefetched,  \* prefetch_batches_: at most one batch
  batch,       \* messages_ from next_index_ on
  taken,       \* ack_msgs: messages of the current transaction, not yet acked
  pc,          \* where the worker is
  committed,   \* progress.last_committed_seq, in memory
  zombie,      \* a stopped job's prefetch thread still has a pull request open
  table,       \* durable: rows per sequence number in the target table
  ckpt,        \* durable: last_committed_seq of the checkpoint view, 0 if none
  registry,    \* durable: last_committed_seq of the job's registry row
  acked        \* history: sequence numbers the server will not deliver again

durable == <<table, ckpt, registry>>
source  == <<wire, prefetched, batch>>
vars == <<published, consumer, source, taken, pc, committed, zombie, durable, acked>>

Seqs == 1..MaxSeq

\* The messages the user expects to find in the table.
Expected == {s \in Matching : s >= StartSeq}

Elements(q) == {q[i] : i \in 1..Len(q)}

MaxOf(a, b) == IF a >= b THEN a ELSE b

NoConsumer == [exists |-> FALSE, next |-> 0, pending |-> {}]

ConsumerFrom(s) == [exists |-> TRUE, next |-> s, pending |-> {}]

Consumers == [exists : BOOLEAN, next : Nat, pending : SUBSET Seqs]

-----------------------------------------------------------------------------
\* Pure parts of the worker's transaction.

\* A batch that forgets which sequence numbers it has already seen.
RowsOfWithoutSeenSet(q, s) ==
  IF s > committed /\ s \in Matching THEN Cardinality({i \in 1..Len(q) : q[i] = s}) ELSE 0

\* A batch that trusts the consumer not to deliver what the checkpoint covers.
RowsOfWithoutCheckpoint(q, s) ==
  IF s \in Elements(q) /\ s \in Matching THEN 1 ELSE 0

\* Rows appended for s by a transaction over q: none for a sequence number the
\* checkpoint covers or that subject_contains refuses, one however often q holds s.
RowsOf(q, s) ==
  IF s \in Elements(q) /\ s > committed /\ s \in Matching THEN 1 ELSE 0

Inserts(q) == \E s \in Seqs : RowsOf(q, s) > 0

\* The sequence number of the last message instead of the largest one.
HighWaterOfLast(q) == q[Len(q)]

\* batch_last_delivered_seq, the checkpoint the transaction writes.
HighWater(q) == Max(Elements(q))

-----------------------------------------------------------------------------
\* The JetStream server, as the client sees it.

Publish ==
  /\ published < MaxSeq
  /\ published' = published + 1
  /\ UNCHANGED <<consumer, source, taken, pc, committed, zombie, durable, acked>>

\* PrefetchLoop has a pull request open whenever its queue is empty.
Pulling == pc # "down" /\ prefetched = <<>> /\ Len(wire) < TransportBatch

\* The consumer answers the pull request with its next new message.
Deliver ==
  /\ Pulling
  /\ consumer.exists
  /\ consumer.next <= published
  /\ wire' = Append(wire, consumer.next)
  /\ consumer' = [consumer EXCEPT !.next = @ + 1, !.pending = @ \union {consumer.next}]
  /\ UNCHANGED <<published, prefetched, batch, taken, pc, committed, zombie, durable, acked>>

\* AckWait has passed for a delivered message: it is delivered again.
Redeliver(s) ==
  /\ Pulling
  /\ s \in consumer.pending
  /\ wire' = Append(wire, s)
  /\ UNCHANGED <<published, consumer, prefetched, batch, taken, pc, committed, zombie,
                 durable, acked>>

\* The connection breaks: the deliveries from the k-th on never reach the worker
\* (in the socket, or destroyed with the failed fetch) and the client reconnects.
LoseInFlight(k) ==
  /\ LossyLink
  /\ k \in 1..Len(wire)
  /\ wire' = SubSeq(wire, 1, k - 1)
  /\ UNCHANGED <<published, consumer, prefetched, batch, taken, pc, committed, zombie,
                 durable, acked>>

\* The prefetch thread of a stopped job receives a message and destroys it.
ZombieReceives ==
  /\ zombie
  /\ consumer.exists
  /\ consumer.next <= published
  /\ consumer' = [consumer EXCEPT !.next = @ + 1, !.pending = @ \union {consumer.next}]
  /\ UNCHANGED <<published, source, taken, pc, committed, zombie, durable, acked>>

\* ~NatsJetStreamBatchSource has joined the prefetch thread.
ZombieJoined ==
  /\ zombie
  /\ zombie' = FALSE
  /\ UNCHANGED <<published, consumer, source, taken, pc, committed, durable, acked>>

\* InactiveThreshold: the server drops a durable nobody has pulled from for long.
ConsumerExpires ==
  /\ pc = "down"
  /\ ~zombie
  /\ consumer.exists
  /\ consumer' = NoConsumer
  /\ UNCHANGED <<published, source, taken, pc, committed, zombie, durable, acked>>

-----------------------------------------------------------------------------
\* The prefetch thread and the worker.

\* PrefetchLoop queues what one pull request returned (a full or a partial batch).
PrefetchPush ==
  /\ pc # "down"
  /\ prefetched = <<>>
  /\ wire # <<>>
  /\ prefetched' = wire
  /\ wire' = <<>>
  /\ UNCHANGED <<published, consumer, batch, taken, pc, committed, zombie, durable, acked>>

\* FetchBatch: the worker has used up its batch and takes the queued one.
FetchBatch ==
  /\ pc = "loop"
  /\ batch = <<>>
  /\ prefetched # <<>>
  /\ batch' = prefetched
  /\ prefetched' = <<>>
  /\ UNCHANGED <<published, consumer, wire, taken, pc, committed, zombie, durable, acked>>

\* A worker that acknowledges a batch instead of committing it first.
AfterProcessingAckFirst(q) == IF q # <<>> THEN "ack" ELSE "commit"

\* A transaction without rows is rolled back and its messages are acked at once.
AfterProcessing(q) == IF Inserts(q) THEN "commit" ELSE "ack"

\* The message loop of one transaction: up to batch_size buffered messages.
ProcessBatch ==
  /\ pc = "loop"
  /\ batch # <<>>
  /\ LET n == Min({BatchSize, Len(batch)}) IN
       /\ taken' = SubSeq(batch, 1, n)
       /\ batch' = SubSeq(batch, n + 1, Len(batch))
       /\ pc' = AfterProcessing(SubSeq(batch, 1, n))
  /\ UNCHANGED <<published, consumer, wire, prefetched, committed, zombie, durable, acked>>

\* Rows, checkpoint and lease fence commit together.  The checkpoint view shows the
\* largest logged value.  Every few batches the registry row is brought up to date.
CommitBatch ==
  /\ pc = "commit"
  /\ table' = [s \in Seqs |-> table[s] + RowsOf(taken, s)]
  /\ ckpt' = MaxOf(ckpt, HighWater(taken))
  /\ committed' = HighWater(taken)
  /\ registry' \in {registry, committed'}
  /\ pc' = "ack"
  /\ UNCHANGED <<published, consumer, source, taken, zombie, acked>>

\* AckMessages, one message: after the last one the worker takes up its loop again.
AckOne(arrives) ==
  /\ pc = "ack"
  /\ arrives \/ LossyLink
  /\ taken' = Tail(taken)
  /\ pc' = IF Len(taken) = 1 THEN "loop" ELSE "ack"
  /\ acked' = IF arrives THEN acked \union {Head(taken)} ELSE acked
  /\ consumer' = IF arrives THEN [consumer EXCEPT !.pending = @ \ {Head(taken)}] ELSE consumer
  /\ UNCHANGED <<published, source, committed, zombie, durable>>

-----------------------------------------------------------------------------
\* The ends of a worker, and its next life.

\* What the worker's memory held is gone.  The messages stay pending on the server.
DropMemory ==
  /\ wire' = <<>>
  /\ prefetched' = <<>>
  /\ batch' = <<>>
  /\ taken' = <<>>
  /\ committed' = 0
  /\ pc' = "down"

\* A registry row written from what was delivered instead of what was committed.
RegistrySeqDelivered == Max({committed} \union Elements(taken))

\* last_committed_seq of the registry row, when the worker writes it.
RegistrySeq == committed

\* nats_stop_ingest, seen between two transactions.  The lease is released before the
\* batch source is destroyed: a pull request that is open stays open for a while.
StopWorker ==
  /\ pc = "loop"
  /\ DropMemory
  /\ registry' = RegistrySeq
  /\ zombie' = (prefetched = <<>>)
  /\ UNCHANGED <<published, consumer, table, ckpt, acked>>

\* Any exception: rollback, the messages destroyed unacked, the source torn down, the
\* registry row written if the database still allows it.
WorkerFails ==
  /\ pc # "down"
  /\ DropMemory
  /\ registry' \in {registry, RegistrySeq}
  /\ UNCHANGED <<published, consumer, table, ckpt, zombie, acked>>

\* The process dies, with any thread of a stopped job that it still had.
Crash ==
  /\ pc # "down"
  /\ DropMemory
  /\ zombie' \in {FALSE, zombie}
  /\ UNCHANGED <<published, consumer, durable, acked>>

\* Resume after the message that follows the checkpoint.
EffectiveStartTooLate == MaxOf(StartSeq, ckpt + 2)

\* Where InitializeIngestResources asks a new consumer to start.
EffectiveStart == MaxOf(StartSeq, ckpt + 1)

\* LoadCheckpoint, then RestoreJobProgress when the job is rehydrated.
CommittedOnLaunch(restore) == IF restore THEN MaxOf(ckpt, registry) ELSE ckpt

\* An existing consumer is bound only when nothing is pending on it.
MayBind == consumer.exists /\ consumer.pending = {}

\* The part of LaunchIngestJob that follows the ownership claim.
StartWorker(restore) ==
  /\ pc = "down"
  /\ zombie => EarlyTakeover
  /\ pc' = "loop"
  /\ committed' = CommittedOnLaunch(restore)
  /\ registry' = CommittedOnLaunch(restore)
  /\ UNCHANGED <<published, source, taken, table, ckpt, acked>>

LaunchBinding(restore) ==
  /\ MayBind
  /\ StartWorker(restore)
  /\ UNCHANGED <<consumer, zombie>>

\* No consumer, messages pending on it, or a binding the server refuses: a new
\* consumer replaces it, and requests open on the old one are gone with it.
LaunchRecreating(restore) ==
  /\ StartWorker(restore)
  /\ consumer' = ConsumerFrom(EffectiveStart)
  /\ zombie' = FALSE

-----------------------------------------------------------------------------
Init ==
  /\ published = 0
  /\ consumer = NoConsumer
  /\ wire = <<>>
  /\ prefetched = <<>>
  /\ batch = <<>>
  /\ taken = <<>>
  /\ pc = "down"
  /\ committed = 0
  /\ zombie = FALSE
  /\ table = [s \in Seqs |-> 0]
  /\ ckpt = 0
  /\ registry = 0
  /\ acked = {}

Next ==
  \/ Publish
  \/ Deliver
  \/ \E s \in Seqs : Redeliver(s)
  \/ \E k \in 1..TransportBatch : LoseInFlight(k)
  \/ ZombieReceives
  \/ ZombieJoined
  \/ ConsumerExpires
  \/ PrefetchPush
  \/ FetchBatch
  \/ ProcessBatch
  \/ CommitBatch
  \/ \E arrives \in BOOLEAN : AckOne(arrives)
  \/ StopWorker
  \/ WorkerFails
  \/ Crash
  \/ \E restore \in BOOLEAN : LaunchBinding(restore)
  \/ \E restore \in BOOLEAN : LaunchRecreating(restore)

\* The server answers pull requests, and the prefetch thread and the worker are
\* threads the scheduler runs.  Nothing makes a job start, stop or fail.
Fairness ==
  /\ WF_vars(Deliver)
  /\ WF_vars(PrefetchPush)
  /\ WF_vars(FetchBatch)
  /\ WF_vars(ProcessBatch)
  /\ WF_vars(CommitBatch)
  /\ WF_vars(AckOne(TRUE))

Spec == Init /\ [][Next]_vars

FairSpec == Spec /\ Fairness

-----------------------------------------------------------------------------
\* The types of the variables, and the bound on what the client holds unprocessed:
\* one batch, in the queue or still arriving.
TypeOK ==
  /\ published \in 0..MaxSeq
  /\ consumer \in Consumers
  /\ wire \in Seq(Seqs)
  /\ prefetched \in Seq(Seqs)
  /\ Len(wire) + Len(prefetched) <= TransportBatch
  /\ batch \in Seq(Seqs)
  /\ taken \in Seq(Seqs)
  /\ pc \in {"down", "loop", "commit", "ack"}
  /\ committed \in 0..MaxSeq
  /\ zombie \in BOOLEAN
  /\ table \in [Seqs -> Nat]
  /\ ckpt \in 0..MaxSeq
  /\ registry \in 0..MaxSeq
  /\ acked \subseteq Seqs

\* Exactly-once, the "at most" half: whatever is redelivered, lost, replayed after a
\* crash or started over, no message gets a second row in the target table.
AtMostOnce == \A s \in Seqs : table[s] <= 1

\* Rows and checkpoint commit together, so a row above the checkpoint never exists:
\* it would be inserted again by the next worker that resumes from the checkpoint.
CheckpointCoversRows == \A s \in Seqs : table[s] > 0 => s <= ckpt

\* The registry row, written outside the transaction and used on rehydration to skip
\* duplicates, never runs ahead of the checkpoint: what lies between would be skipped.
RegistryNotAhead == registry <= ckpt

\* An acknowledgement is never sent for a message that is not durably stored.
AckedIsStored == \A s \in acked \intersect Expected : table[s] = 1

\* The table is at every moment a prefix of the stream, loaded once.
ExactlyOnce == INSTANCE ExactlyOnceTable WITH mark <- ckpt, rows <- table

ImplementsExactlyOnce == ExactlyOnce!Spec

\* If from some point on the worker stays up, whatever the stream holds gets its row.
EventuallyStored ==
  <>[](pc # "down") => \A s \in Expected : (s <= published) ~> (table[s] = 1)
=============================================================================
