------------------------ MODULE IngestPipelineProofs ------------------------
(***************************************************************************)
(* Proofs about IngestPipeline, for every stream, filter, batch size and   *)
(* link: lost deliveries, redeliveries, crashes and takeovers included.    *)
(***************************************************************************)
EXTENDS IngestPipeline, SequenceTheorems, WellFoundedInduction, TLAPS

-----------------------------------------------------------------------------
\* A non-empty set of sequence numbers has a largest element, and Max is it.
LEMMA MaxIsLargest ==
  ASSUME NEW N \in Nat, NEW S \in SUBSET (0..N), S # {}
  PROVE  Max(S) \in S /\ \A y \in S : y <= Max(S)
<1> DEFINE T == {N - x : x \in S}
<1>1. IsWellFoundedOn(OpToRel(<, Nat), Nat)
  BY NatLessThanWellFounded
<1>2. T \subseteq Nat
  <2>1. \A x \in S : x \in Nat /\ x <= N
    OBVIOUS
  <2> QED BY <2>1
<1>3. T # {}
  <2>1. PICK x \in S : TRUE
    OBVIOUS
  <2>2. N - x \in T
    OBVIOUS
  <2> QED BY <2>2
<1>4. PICK d \in T : \A y \in T : ~ (<<y, d>> \in OpToRel(<, Nat))
  <2> HIDE DEF T
  <2> DEFINE R == OpToRel(<, Nat)
  <2>1. IsWellFoundedOn(R, Nat)
    BY <1>1
  <2> HIDE DEF R
  <2>2. \E x \in T : \A y \in T : ~ (<<y, x>> \in R)
    BY <2>1, <1>2, <1>3, WFMin, Zenon
  <2> QED BY <2>2 DEF R
<1>5. \A y \in T : d <= y
  <2> HIDE DEF T
  <2>1. \A y \in T : y \in Nat /\ d \in Nat
    BY <1>2
  <2>2. \A a, b \in Nat : a < b => <<a, b>> \in OpToRel(<, Nat)
    BY DEF OpToRel
  <2>3. \A y \in T : ~ (y < d)
    BY <1>4, <2>1, <2>2
  <2> QED BY <2>1, <2>3
<1>6. PICK m \in S : d = N - m
  OBVIOUS
<1>7. \A y \in S : m >= y
  <2> TAKE y \in S
  <2>1. d <= N - y
    BY <1>5
  <2>2. m \in 0..N /\ y \in 0..N
    OBVIOUS
  <2> QED BY <1>6, <2>1, <2>2
<1>8. Max(S) \in S /\ \A y \in S : Max(S) >= y
  BY <1>7 DEF Max
<1>9. \A y \in S : y \in Nat /\ Max(S) \in Nat
  BY <1>8
<1> QED BY <1>8, <1>9

\* The length of one transaction: batch_size, or what the batch still holds.
LEMMA MinOfTwo ==
  ASSUME NEW a \in Nat, NEW b \in Nat
  PROVE  Min({a, b}) \in {a, b} /\ Min({a, b}) <= a /\ Min({a, b}) <= b
<1>1. \E x \in {a, b} : \A y \in {a, b} : x =< y
  <2>1. CASE a <= b
    BY <2>1
  <2>2. CASE b <= a
    BY <2>2
  <2> QED BY <2>1, <2>2
<1> QED BY <1>1 DEF Min

\* The checkpoint a transaction writes is one of its sequence numbers and the largest.
LEMMA HighWaterIsLargest ==
  ASSUME NEW q \in Seq(Seqs), q # <<>>
  PROVE  /\ HighWater(q) \in Seqs
         /\ HighWater(q) \in Elements(q)
         /\ \A s \in Elements(q) : s <= HighWater(q)
<1>1. Elements(q) \subseteq Seqs
  BY DEF Elements
<1>2. Elements(q) # {}
  <2>1. q[1] \in Elements(q)
    BY EmptySeq DEF Elements
  <2> QED BY <2>1
<1>3. Elements(q) \subseteq 0..MaxSeq
  BY <1>1 DEF Seqs
<1>4. MaxSeq \in Nat
  BY PipelineAssumption DEF PipelineAssumption
<1> QED BY <1>1, <1>2, <1>3, <1>4, MaxIsLargest DEF HighWater

\* What is left of a batch after one transaction, and the transaction, are sequences.
LEMMA BatchSplits ==
  ASSUME NEW q \in Seq(Seqs), q # <<>>
  PROVE  LET n == Min({BatchSize, Len(q)}) IN
         /\ SubSeq(q, 1, n) \in Seq(Seqs)
         /\ SubSeq(q, 1, n) # <<>>
         /\ SubSeq(q, n + 1, Len(q)) \in Seq(Seqs)
<1> DEFINE n == Min({BatchSize, Len(q)})
<1>1. BatchSize \in Nat \ {0} /\ Len(q) \in Nat \ {0}
  BY PipelineAssumption, EmptySeq DEF PipelineAssumption
<1>2. n \in Nat \ {0} /\ n <= Len(q)
  BY <1>1, MinOfTwo
<1> HIDE DEF n
<1>3. \A i \in 1..Len(q) : q[i] \in Seqs
  OBVIOUS
<1>4. SubSeq(q, 1, n) \in Seq(Seqs) /\ Len(SubSeq(q, 1, n)) = n
  BY <1>1, <1>2, <1>3, SubSeqProperties
<1>5. SubSeq(q, n + 1, Len(q)) \in Seq(Seqs)
  BY <1>1, <1>2, <1>3, SubSeqProperties
<1>6. SubSeq(q, 1, n) # <<>>
  BY <1>2, <1>4, EmptySeq
<1> QED BY <1>4, <1>5, <1>6 DEF n

-----------------------------------------------------------------------------
\* The worker's memory follows the durable checkpoint while it runs, and a transaction
\* in progress has messages; one that will commit inserts at least one row.
WorkerFollowsCheckpoint ==
  /\ pc # "down" => committed = ckpt
  /\ pc \in {"commit", "ack"} => taken # <<>>
  /\ pc = "commit" => Inserts(taken)

\* A consumer starts at a sequence number of the stream, which begins with 1.
ConsumerInStream == consumer.exists => consumer.next # 0

\* The inductive invariant: neither part of exactly-once bookkeeping is inductive
\* without the link between the worker's committed and the durable checkpoint.
Safe ==
  /\ TypeOK
  /\ AtMostOnce
  /\ CheckpointCoversRows
  /\ RegistryNotAhead
  /\ WorkerFollowsCheckpoint
  /\ ConsumerInStream

\* Every initial state satisfies the inductive invariant.
LEMMA InitSafe == Init => Safe
<1> SUFFICES ASSUME Init PROVE Safe
  OBVIOUS
<1> USE PipelineAssumption DEF PipelineAssumption, Init, Seqs
<1>1. <<>> \in Seq(Seqs) /\ Len(<<>>) = 0
  BY EmptySeq
<1>2. consumer \in Consumers
  BY DEF Consumers, NoConsumer
<1>3. table \in [Seqs -> Nat]
  OBVIOUS
<1>4. Len(wire) + Len(prefetched) <= TransportBatch
  BY <1>1
<1>5. wire \in Seq(Seqs) /\ prefetched \in Seq(Seqs) /\ batch \in Seq(Seqs) /\ taken \in Seq(Seqs)
  BY <1>1
<1> HIDE DEF Seqs
<1>6. zombie \in BOOLEAN
  BY Zenon
<1>7. TypeOK
  BY <1>2, <1>3, <1>4, <1>5, <1>6 DEF TypeOK
<1> QED BY <1>3, <1>7 DEF Safe, AtMostOnce, CheckpointCoversRows, RegistryNotAhead,
                    WorkerFollowsCheckpoint, ConsumerInStream, NoConsumer

\* A commit appends one row, to messages above the checkpoint, and moves the checkpoint.
LEMMA CommitSafe == Safe /\ CommitBatch => Safe'
<1> SUFFICES ASSUME Safe, CommitBatch PROVE Safe'
  OBVIOUS
<1> DEFINE h == HighWater(taken)
<1>1. taken \in Seq(Seqs) /\ taken # <<>> /\ committed = ckpt /\ Inserts(taken)
  BY DEF Safe, TypeOK, WorkerFollowsCheckpoint, CommitBatch
<1>2. h \in Seqs /\ \A s \in Elements(taken) : s <= h
  BY <1>1, HighWaterIsLargest
<1>3. MaxSeq \in Nat /\ ckpt \in 0..MaxSeq /\ registry \in 0..MaxSeq /\ table \in [Seqs -> Nat]
  BY PipelineAssumption DEF PipelineAssumption, Safe, TypeOK
<1> HIDE DEF h
<1>4. h \in Nat /\ h <= MaxSeq /\ h > ckpt
  <2>1. PICK s \in Seqs : s \in Elements(taken) /\ s > ckpt
    BY <1>1 DEF Inserts, RowsOf
  <2> QED BY <1>2, <1>3, <2>1 DEF Seqs
<1>5. ckpt' = h /\ committed' = h /\ registry' \in {registry, h} /\ pc' = "ack" /\ taken' = taken
  BY <1>3, <1>4 DEF CommitBatch, MaxOf, h
<1>6. \A s \in Seqs : \/ /\ table'[s] = table[s] + 1
                         /\ s > ckpt
                         /\ s <= h
                      \/ table'[s] = table[s]
  <2> TAKE s \in Seqs
  <2>1. table'[s] = table[s] + RowsOf(taken, s)
    BY DEF CommitBatch
  <2>2. CASE RowsOf(taken, s) = 1
    BY <1>1, <1>2, <2>1, <2>2 DEF RowsOf
  <2>3. CASE RowsOf(taken, s) = 0
    BY <1>3, <2>1, <2>3
  <2> QED BY <2>2, <2>3 DEF RowsOf
<1>7. table' \in [Seqs -> Nat]
  <2>1. \A s \in Seqs : table[s] + RowsOf(taken, s) \in Nat
    BY <1>3 DEF RowsOf
  <2> QED BY <2>1 DEF CommitBatch
<1>8. TypeOK'
  BY <1>3, <1>4, <1>5, <1>7 DEF Safe, TypeOK, CommitBatch, source
<1>9. AtMostOnce'
  BY <1>3, <1>6 DEF Safe, AtMostOnce, CheckpointCoversRows, Seqs
<1>10. CheckpointCoversRows'
  BY <1>3, <1>4, <1>5, <1>6 DEF Safe, CheckpointCoversRows, Seqs
<1>11. RegistryNotAhead'
  BY <1>3, <1>4, <1>5 DEF Safe, RegistryNotAhead
<1>12. WorkerFollowsCheckpoint'
  BY <1>1, <1>5 DEF WorkerFollowsCheckpoint
<1>13. ConsumerInStream'
  BY DEF Safe, ConsumerInStream, CommitBatch
<1> QED BY <1>8, <1>9, <1>10, <1>11, <1>12, <1>13 DEF Safe

\* Taking the head of a non-empty sequence of messages off it.
LEMMA TailOfMessages ==
  ASSUME NEW q \in Seq(Seqs), q # <<>>
  PROVE  Head(q) \in Seqs /\ Tail(q) \in Seq(Seqs) /\ (Len(q) # 1 => Tail(q) # <<>>)
<1>1. Head(q) \in Seqs /\ Tail(q) \in Seq(Seqs) /\ Len(Tail(q)) = Len(q) - 1
  BY HeadTailProperties
<1>2. Len(q) \in Nat
  BY LenProperties
<1> QED BY <1>1, <1>2, EmptySeq

\* Handing out the next message, or one less pending, leaves a consumer a consumer.
LEMMA ConsumerSteps ==
  ASSUME NEW c \in Consumers, NEW s \in Seqs
  PROVE  /\ [c EXCEPT !.next = @ + 1, !.pending = @ \union {c.next}].exists = c.exists
         /\ [c EXCEPT !.next = @ + 1, !.pending = @ \union {c.next}].next # 0
         /\ [c EXCEPT !.pending = @ \ {s}].exists = c.exists
         /\ [c EXCEPT !.pending = @ \ {s}].next = c.next
         /\ [c EXCEPT !.pending = @ \ {s}] \in Consumers
         /\ c.next \in Seqs =>
              [c EXCEPT !.next = @ + 1, !.pending = @ \union {c.next}] \in Consumers
<1> USE DEF Consumers
<1>1. c.next \in Nat /\ c.pending \in SUBSET Seqs
  OBVIOUS
<1>2. c.exists \in BOOLEAN
  BY Zenon
<1>3. c.pending \ {s} \in SUBSET Seqs
  BY <1>1
<1>4. c.next \in Seqs => c.pending \union {c.next} \in SUBSET Seqs
  BY <1>1
<1>5. c.next + 1 \in Nat /\ c.next + 1 # 0
  BY <1>1
<1>6. [c EXCEPT !.next = @ + 1, !.pending = @ \union {c.next}].next = c.next + 1
  OBVIOUS
<1> HIDE DEF Seqs
<1>7. c.next \in Seqs => [c EXCEPT !.next = @ + 1, !.pending = @ \union {c.next}] \in Consumers
  BY <1>1, <1>2, <1>4, <1>5
<1> QED BY <1>1, <1>2, <1>3, <1>5, <1>6, <1>7

\* Any other step than the commit and the ack preserves the inductive invariant when it
\* preserves the types: it leaves rows, checkpoint and worker alone, or ends the worker.
LEMMA QuietStepSafe ==
  ASSUME Safe, TypeOK', ConsumerInStream', UNCHANGED <<table, ckpt>>, registry' <= ckpt,
         \/ UNCHANGED <<taken, pc, committed>>
         \/ pc' = "down"
         \/ pc' = "loop" /\ committed' = ckpt
  PROVE  Safe'
<1>1. AtMostOnce' /\ CheckpointCoversRows' /\ RegistryNotAhead'
  BY DEF Safe, AtMostOnce, CheckpointCoversRows, RegistryNotAhead
<1>2. WorkerFollowsCheckpoint'
  BY DEF Safe, WorkerFollowsCheckpoint, Inserts, RowsOf
<1> QED BY <1>1, <1>2 DEF Safe

\* The steps of the server and the network.
LEMMA ServerStepSafe ==
  ASSUME Safe,
         \/ Publish \/ Deliver \/ \E s \in Seqs : Redeliver(s)
         \/ \E k \in 1..TransportBatch : LoseInFlight(k)
         \/ ZombieReceives \/ ZombieJoined \/ ConsumerExpires
  PROVE  Safe'
<1> USE DEF source, durable
<1>0. /\ TypeOK /\ ConsumerInStream /\ registry <= ckpt
      /\ MaxSeq \in Nat /\ TransportBatch \in Nat \ {0}
  BY PipelineAssumption DEF Safe, RegistryNotAhead, PipelineAssumption
<1>1. CASE Publish
  <2>1. TypeOK' /\ ConsumerInStream'
    BY <1>0, <1>1 DEF Publish, TypeOK, ConsumerInStream
  <2> QED BY <1>0, <1>1, <2>1, QuietStepSafe DEF Publish
<1>2. CASE Deliver
  <2>1. consumer.next \in Seqs /\ consumer \in Consumers /\ consumer.exists
    BY <1>0, <1>2 DEF Deliver, TypeOK, ConsumerInStream, Consumers, Seqs
  <2>2. consumer' \in Consumers /\ consumer'.next # 0
    BY <1>2, <2>1, ConsumerSteps DEF Deliver
  <2>3. wire' \in Seq(Seqs) /\ Len(wire') = Len(wire) + 1 /\ Len(wire) \in Nat
    BY <1>0, <1>2, <2>1, AppendProperties, LenProperties DEF Deliver, TypeOK
  <2>4. Len(wire') + Len(prefetched') <= TransportBatch
    BY <1>0, <1>2, <2>3, EmptySeq DEF Deliver, Pulling, TypeOK
  <2>5. TypeOK' /\ ConsumerInStream'
    BY <1>0, <1>2, <2>2, <2>3, <2>4 DEF Deliver, TypeOK, ConsumerInStream
  <2> QED BY <1>0, <1>2, <2>5, QuietStepSafe DEF Deliver
<1>3. CASE \E s \in Seqs : Redeliver(s)
  <2>1. PICK s \in Seqs : Redeliver(s)
    BY <1>3
  <2>2. wire' \in Seq(Seqs) /\ Len(wire') = Len(wire) + 1 /\ Len(wire) \in Nat
    BY <1>0, <2>1, AppendProperties, LenProperties DEF Redeliver, TypeOK
  <2>3. Len(wire') + Len(prefetched') <= TransportBatch
    BY <1>0, <2>1, <2>2, EmptySeq DEF Redeliver, Pulling, TypeOK
  <2>4. TypeOK' /\ ConsumerInStream'
    BY <1>0, <2>1, <2>2, <2>3 DEF Redeliver, TypeOK, ConsumerInStream
  <2> QED BY <1>0, <2>1, <2>4, QuietStepSafe DEF Redeliver
<1>4. CASE \E k \in 1..TransportBatch : LoseInFlight(k)
  <2>1. PICK k \in 1..TransportBatch : LoseInFlight(k)
    BY <1>4
  <2>2. k \in 1..Len(wire) /\ wire \in Seq(Seqs) /\ Len(wire) \in Nat
    BY <1>0, <2>1, LenProperties DEF LoseInFlight, TypeOK
  <2>3. wire' \in Seq(Seqs) /\ Len(wire') <= Len(wire)
    <3>1. k - 1 \in Int /\ \A i \in 1..(k - 1) : wire[i] \in Seqs
      BY <2>2
    <3>2. wire' = SubSeq(wire, 1, k - 1)
      BY <2>1 DEF LoseInFlight
    <3> QED BY <2>2, <3>1, <3>2, SubSeqProperties
  <2>4. prefetched' = prefetched /\ Len(prefetched) \in Nat /\ Len(wire') \in Nat
    BY <1>0, <2>1, <2>3, LenProperties DEF LoseInFlight, TypeOK
  <2>5. Len(wire') + Len(prefetched') <= TransportBatch
    BY <1>0, <2>2, <2>3, <2>4 DEF TypeOK
  <2>6. TypeOK' /\ ConsumerInStream'
    BY <1>0, <2>1, <2>3, <2>5 DEF LoseInFlight, TypeOK, ConsumerInStream
  <2> QED BY <1>0, <2>1, <2>6, QuietStepSafe DEF LoseInFlight
<1>5. CASE ZombieReceives
  <2>1. consumer.next \in Seqs /\ consumer \in Consumers /\ consumer.exists
    BY <1>0, <1>5 DEF ZombieReceives, TypeOK, ConsumerInStream, Consumers, Seqs
  <2>2. consumer' \in Consumers /\ consumer'.next # 0
    BY <1>5, <2>1, ConsumerSteps DEF ZombieReceives
  <2>3. TypeOK' /\ ConsumerInStream'
    BY <1>0, <1>5, <2>2 DEF ZombieReceives, TypeOK, ConsumerInStream
  <2> QED BY <1>0, <1>5, <2>3, QuietStepSafe DEF ZombieReceives
<1>6. CASE ZombieJoined
  <2>1. zombie' \in BOOLEAN
    BY <1>6, Zenon DEF ZombieJoined
  <2>2. TypeOK' /\ ConsumerInStream'
    BY <1>0, <1>6, <2>1 DEF ZombieJoined, TypeOK, ConsumerInStream
  <2> QED BY <1>0, <1>6, <2>2, QuietStepSafe DEF ZombieJoined
<1>7. CASE ConsumerExpires
  <2>1. consumer' \in Consumers /\ consumer'.exists = FALSE
    BY <1>7 DEF ConsumerExpires, NoConsumer, Consumers
  <2>2. TypeOK' /\ ConsumerInStream'
    BY <1>0, <1>7, <2>1 DEF ConsumerExpires, TypeOK, ConsumerInStream
  <2> QED BY <1>0, <1>7, <2>2, QuietStepSafe DEF ConsumerExpires
<1> QED BY <1>1, <1>2, <1>3, <1>4, <1>5, <1>6, <1>7

\* The steps of the prefetch thread and the worker that neither commit nor end it.
LEMMA WorkerStepSafe ==
  ASSUME Safe,
         PrefetchPush \/ FetchBatch \/ ProcessBatch \/ \E arrives \in BOOLEAN : AckOne(arrives)
  PROVE  Safe'
<1> USE DEF source, durable
<1>0. /\ TypeOK /\ ConsumerInStream /\ registry <= ckpt
      /\ MaxSeq \in Nat /\ TransportBatch \in Nat \ {0}
  BY PipelineAssumption DEF Safe, RegistryNotAhead, PipelineAssumption
<1>b. <<>> \in Seq(Seqs) /\ Len(<<>>) = 0
  BY EmptySeq
<1>1. CASE PrefetchPush
  <2>1. TypeOK' /\ ConsumerInStream'
    BY <1>0, <1>b, <1>1 DEF PrefetchPush, TypeOK, ConsumerInStream
  <2> QED BY <1>0, <1>1, <2>1, QuietStepSafe DEF PrefetchPush
<1>2. CASE FetchBatch
  <2>1. Len(wire) \in Nat /\ Len(prefetched) \in Nat
    BY <1>0, LenProperties DEF TypeOK
  <2>2. Len(wire') + Len(prefetched') <= TransportBatch
    BY <1>0, <1>b, <1>2, <2>1 DEF FetchBatch, TypeOK
  <2>3. TypeOK' /\ ConsumerInStream'
    BY <1>0, <1>b, <1>2, <2>2 DEF FetchBatch, TypeOK, ConsumerInStream
  <2> QED BY <1>0, <1>2, <2>3, QuietStepSafe DEF FetchBatch
<1>3. CASE ProcessBatch
  <2>1. /\ taken' \in Seq(Seqs) /\ taken' # <<>> /\ batch' \in Seq(Seqs)
        /\ pc' = AfterProcessing(taken')
    BY <1>0, <1>3, BatchSplits DEF ProcessBatch, TypeOK
  <2>2. pc' \in {"commit", "ack"} /\ (pc' = "commit" => Inserts(taken'))
    BY <2>1 DEF AfterProcessing
  <2>3. TypeOK' /\ ConsumerInStream'
    BY <1>0, <1>3, <2>1, <2>2 DEF ProcessBatch, TypeOK, ConsumerInStream
  <2>4. WorkerFollowsCheckpoint'
    BY <1>3, <2>1, <2>2 DEF Safe, WorkerFollowsCheckpoint, ProcessBatch, Inserts, RowsOf
  <2>5. AtMostOnce' /\ CheckpointCoversRows' /\ RegistryNotAhead'
    BY <1>3 DEF Safe, AtMostOnce, CheckpointCoversRows, RegistryNotAhead, ProcessBatch
  <2> QED BY <2>3, <2>4, <2>5 DEF Safe
<1>4. CASE \E arrives \in BOOLEAN : AckOne(arrives)
  <2>1. PICK arrives \in BOOLEAN : AckOne(arrives)
    BY <1>4
  <2>2. pc = "ack" /\ taken \in Seq(Seqs) /\ taken # <<>>
    BY <1>0, <2>1 DEF AckOne, TypeOK, Safe, WorkerFollowsCheckpoint
  <2>3. /\ Head(taken) \in Seqs /\ taken' \in Seq(Seqs)
        /\ pc' \in {"loop", "ack"} /\ (pc' = "ack" => taken' # <<>>)
    BY <2>1, <2>2, TailOfMessages DEF AckOne
  <2>4. acked' \subseteq Seqs
    BY <1>0, <2>1, <2>3 DEF AckOne, TypeOK
  <2>5. /\ consumer' \in Consumers
        /\ consumer'.exists = consumer.exists
        /\ consumer'.next = consumer.next
    BY <1>0, <2>1, <2>3, ConsumerSteps DEF AckOne, TypeOK
  <2>6. TypeOK' /\ ConsumerInStream'
    BY <1>0, <2>1, <2>3, <2>4, <2>5 DEF AckOne, TypeOK, ConsumerInStream
  <2>7. WorkerFollowsCheckpoint'
    BY <2>1, <2>2, <2>3 DEF Safe, WorkerFollowsCheckpoint, AckOne
  <2>8. AtMostOnce' /\ CheckpointCoversRows' /\ RegistryNotAhead'
    BY <2>1 DEF Safe, AtMostOnce, CheckpointCoversRows, RegistryNotAhead, AckOne
  <2> QED BY <2>6, <2>7, <2>8 DEF Safe
<1> QED BY <1>1, <1>2, <1>3, <1>4

\* The ends of a worker: what it held is gone, and the registry row at most catches up.
LEMMA EndSafe == Safe /\ (StopWorker \/ WorkerFails \/ Crash) => Safe'
<1> SUFFICES ASSUME Safe, StopWorker \/ WorkerFails \/ Crash PROVE Safe'
  OBVIOUS
<1>0. /\ TypeOK /\ ConsumerInStream /\ registry <= ckpt /\ pc # "down" /\ committed = ckpt
      /\ MaxSeq \in Nat /\ TransportBatch \in Nat \ {0}
      /\ ckpt \in 0..MaxSeq /\ registry \in 0..MaxSeq
  BY PipelineAssumption DEF Safe, RegistryNotAhead, PipelineAssumption, TypeOK,
     WorkerFollowsCheckpoint, StopWorker, WorkerFails, Crash
<1>1. DropMemory /\ UNCHANGED <<published, consumer, table, ckpt, acked>>
  BY DEF StopWorker, WorkerFails, Crash, durable
<1>2. registry' \in 0..MaxSeq /\ registry' <= ckpt
  <2>1. CASE StopWorker
    BY <1>0, <2>1 DEF StopWorker, RegistrySeq
  <2>2. CASE WorkerFails
    BY <1>0, <2>2 DEF WorkerFails, RegistrySeq
  <2>3. CASE Crash
    <3>1. registry' = registry
      BY <2>3 DEF Crash, durable
    <3> QED BY <1>0, <3>1
  <2> QED BY <2>1, <2>2, <2>3
<1>3. zombie' \in BOOLEAN
  <2>1. zombie \in BOOLEAN
    BY <1>0, Zenon DEF TypeOK
  <2> QED BY <2>1, Zenon DEF StopWorker, WorkerFails, Crash
<1>4. <<>> \in Seq(Seqs) /\ Len(<<>>) = 0
  BY EmptySeq
<1>5. TypeOK' /\ ConsumerInStream'
  BY <1>0, <1>1, <1>2, <1>3, <1>4 DEF DropMemory, TypeOK, ConsumerInStream
<1>6. UNCHANGED <<table, ckpt>> /\ pc' = "down"
  BY <1>1 DEF DropMemory
<1> QED BY <1>2, <1>5, <1>6, QuietStepSafe

\* A launch starts behind the checkpoint, with a bound consumer or a new one.
LEMMA LaunchSafe ==
  ASSUME Safe, NEW restore \in BOOLEAN, LaunchBinding(restore) \/ LaunchRecreating(restore)
  PROVE  Safe'
<1>0. /\ TypeOK /\ ConsumerInStream /\ registry <= ckpt
      /\ MaxSeq \in Nat /\ StartSeq \in Nat \ {0}
      /\ ckpt \in 0..MaxSeq /\ registry \in 0..MaxSeq
  BY PipelineAssumption DEF Safe, RegistryNotAhead, PipelineAssumption, TypeOK
<1>1. StartWorker(restore)
  BY DEF LaunchBinding, LaunchRecreating
<1>2. CommittedOnLaunch(restore) = ckpt
  BY <1>0 DEF CommittedOnLaunch, MaxOf
<1>3. committed' = ckpt /\ registry' = ckpt /\ pc' = "loop" /\ UNCHANGED <<table, ckpt>>
  BY <1>1, <1>2 DEF StartWorker
<1>4. consumer' \in Consumers /\ (consumer'.exists => consumer'.next # 0)
  <2>1. CASE LaunchBinding(restore)
    BY <1>0, <2>1 DEF LaunchBinding, TypeOK, ConsumerInStream
  <2>2. CASE LaunchRecreating(restore)
    <3>1. EffectiveStart \in Nat \ {0}
      BY <1>0 DEF EffectiveStart, MaxOf
    <3> QED BY <2>2, <3>1 DEF LaunchRecreating, ConsumerFrom, Consumers
  <2> QED BY <2>1, <2>2
<1>5. zombie' \in BOOLEAN
  <2>1. zombie \in BOOLEAN
    BY <1>0, Zenon DEF TypeOK
  <2> QED BY <2>1, Zenon DEF LaunchBinding, LaunchRecreating
<1>6. TypeOK' /\ ConsumerInStream'
  BY <1>0, <1>1, <1>3, <1>4, <1>5 DEF StartWorker, source, TypeOK, ConsumerInStream
<1> QED BY <1>0, <1>3, <1>6, QuietStepSafe

\* Every step preserves the inductive invariant.
LEMMA NextSafe == Safe /\ [Next]_vars => Safe'
<1> SUFFICES ASSUME Safe, [Next]_vars PROVE Safe'
  OBVIOUS
<1>1. CASE UNCHANGED vars
  <2>1. TypeOK' /\ ConsumerInStream'
    BY <1>1 DEF Safe, TypeOK, ConsumerInStream, vars, source, durable
  <2> QED BY <1>1, <2>1 DEF Safe, vars, durable, AtMostOnce, CheckpointCoversRows,
             RegistryNotAhead, WorkerFollowsCheckpoint, Inserts, RowsOf
<1>2. CASE Next
  BY <1>2, ServerStepSafe, WorkerStepSafe, CommitSafe, EndSafe, LaunchSafe DEF Next
<1> QED BY <1>1, <1>2

-----------------------------------------------------------------------------
\* The inductive invariant holds in every reachable state.
THEOREM SafeAlways == Spec => []Safe
  BY InitSafe, NextSafe, PTL DEF Spec

\* Type correctness, and with it the bound on the messages the client holds unprocessed:
\* the prefetch thread never pulls ahead of its one-batch queue.
THEOREM TypeCorrect == Spec => []TypeOK
<1>1. Safe => TypeOK
  BY DEF Safe
<1> QED BY <1>1, SafeAlways, PTL

\* No message ever gets a second row, however it is redelivered or replayed.
THEOREM NeverTwice == Spec => []AtMostOnce
<1>1. Safe => AtMostOnce
  BY DEF Safe
<1> QED BY <1>1, SafeAlways, PTL

\* No row is ever ahead of the durable checkpoint.
THEOREM RowsBehindCheckpoint == Spec => []CheckpointCoversRows
<1>1. Safe => CheckpointCoversRows
  BY DEF Safe
<1> QED BY <1>1, SafeAlways, PTL

\* The registry row never runs ahead of the durable checkpoint.
THEOREM RegistryBehindCheckpoint == Spec => []RegistryNotAhead
<1>1. Safe => RegistryNotAhead
  BY DEF Safe
<1> QED BY <1>1, SafeAlways, PTL

-----------------------------------------------------------------------------
\* The messages between the server and the table, in the order the worker meets them:
\* a transaction that will commit, the rest of the batch, the queued batch, the wire.
InHand == IF pc = "commit" THEN taken ELSE <<>>

Flow == InHand \o (batch \o (prefetched \o wire))

\* No expected message above c is overtaken: before anything larger, q holds it.
NoGap(q, c) ==
  \A i \in 1..Len(q) : \A t \in Expected :
    c < t /\ t <= q[i] => \E k \in 1..i : q[k] = t

\* A message the consumer has delivered.
Delivered(s) == StartSeq <= s /\ s < consumer.next /\ s <= published

FlowInOrder ==
  /\ NoGap(Flow, ckpt)
  /\ \A s \in Elements(Flow) : Delivered(s)

\* While a worker runs, every expected message that was delivered to it and that the
\* checkpoint does not cover is still on its way.
NothingMissing ==
  pc # "down" =>
    \A t \in Expected : ckpt < t /\ t < consumer.next => t \in Elements(Flow)

\* The server keeps what the checkpoint does not cover: a later worker can ask for it.
PendingCovers ==
  consumer.exists =>
    /\ \A s \in consumer.pending : Delivered(s)
    /\ \A t \in Expected : ckpt < t /\ t < consumer.next => t \in consumer.pending
    /\ StartSeq <= consumer.next

\* A running worker has the consumer to itself, and a stopped one holds nothing.
WorkerIsAlone ==
  /\ pc # "down" => consumer.exists /\ ~zombie
  /\ pc = "down" => batch = <<>> /\ prefetched = <<>> /\ wire = <<>>

\* What was acknowledged, and what is about to be, is behind the checkpoint.
AcksBehind ==
  /\ \A s \in Expected : s \in acked => s <= ckpt
  /\ pc = "ack" => \A s \in Expected : s \in Elements(taken) => s <= ckpt

\* What the checkpoint covers is in the table.
PrefixStored == \A s \in Expected : s <= ckpt => table[s] = 1

\* The inductive invariant of a link that loses nothing and a clean handover.
InOrder ==
  /\ FlowInOrder
  /\ NothingMissing
  /\ PendingCovers
  /\ WorkerIsAlone
  /\ AcksBehind
  /\ PrefixStored

\* The link and the handover under which the order holds.
FifoLink == ~LossyLink /\ ~EarlyTakeover

-----------------------------------------------------------------------------
\* The elements of a sequence of messages, of a concatenation, and of an extension.
LEMMA ElementsOf ==
  ASSUME NEW q \in Seq(Seqs)
  PROVE  /\ Elements(q) \subseteq Seqs
         /\ \A s : s \in Elements(q) <=> \E i \in 1..Len(q) : q[i] = s
  BY DEF Elements

\* Nothing is in an empty sequence, so nothing is missing from one that ends there.
LEMMA ElementsOfEmpty == Elements(<<>>) = {} /\ \A c : NoGap(<<>>, c)
<1>1. Len(<<>>) = 0
  BY EmptySeq
<1> QED BY <1>1 DEF Elements, NoGap

\* A concatenation holds what its parts hold.
LEMMA ElementsOfConcat ==
  ASSUME NEW p \in Seq(Seqs), NEW r \in Seq(Seqs)
  PROVE  Elements(p \o r) = Elements(p) \union Elements(r)
<1>1. /\ p \o r \in Seq(Seqs) /\ Len(p \o r) = Len(p) + Len(r)
      /\ \A i \in 1..Len(p) + Len(r) : (p \o r)[i] = IF i <= Len(p) THEN p[i] ELSE r[i - Len(p)]
  BY ConcatProperties
<1>2. Len(p) \in Nat /\ Len(r) \in Nat
  BY LenProperties
<1>3. \A i \in 1..Len(p) : i \in 1..Len(p) + Len(r) /\ (p \o r)[i] = p[i]
  BY <1>1, <1>2
<1>4. \A i \in 1..Len(r) : /\ i + Len(p) \in 1..Len(p) + Len(r)
                           /\ (p \o r)[i + Len(p)] = r[i]
  BY <1>1, <1>2
<1>5. \A i \in 1..Len(p) + Len(r) : \/ i \in 1..Len(p)
                                    \/ i - Len(p) \in 1..Len(r)
  BY <1>2
<1>6. Elements(p \o r) \subseteq Elements(p) \union Elements(r)
  <2> SUFFICES ASSUME NEW i \in 1..Len(p) + Len(r)
               PROVE  (p \o r)[i] \in Elements(p) \union Elements(r)
    BY <1>1 DEF Elements
  <2>1. CASE i \in 1..Len(p)
    BY <1>3, <2>1 DEF Elements
  <2>2. CASE i - Len(p) \in 1..Len(r)
    <3>1. (p \o r)[i] = r[i - Len(p)]
      BY <1>1, <1>2, <2>2
    <3> QED BY <2>2, <3>1 DEF Elements
  <2> QED BY <1>5, <2>1, <2>2
<1>7. Elements(p) \union Elements(r) \subseteq Elements(p \o r)
  <2>1. \A i \in 1..Len(p) : p[i] \in Elements(p \o r)
    BY <1>1, <1>3 DEF Elements
  <2>2. \A i \in 1..Len(r) : r[i] \in Elements(p \o r)
    BY <1>1, <1>4 DEF Elements
  <2> QED BY <2>1, <2>2 DEF Elements
<1> QED BY <1>6, <1>7

\* A message added at the end closes no gap and opens none if what is below it is there.
LEMMA AppendKeepsOrder ==
  ASSUME NEW q \in Seq(Seqs), NEW s \in Seqs, NEW c \in Nat, NoGap(q, c),
         \A t \in Expected : c < t /\ t < s => t \in Elements(q)
  PROVE  /\ Append(q, s) \in Seq(Seqs)
         /\ NoGap(Append(q, s), c)
         /\ Elements(Append(q, s)) = Elements(q) \union {s}
<1> DEFINE a == Append(q, s)
<1>1. /\ a \in Seq(Seqs) /\ Len(a) = Len(q) + 1 /\ a[Len(q) + 1] = s
      /\ \A i \in 1..Len(q) : a[i] = q[i]
  BY AppendProperties
<1>2. Len(q) \in Nat
  BY LenProperties
<1> HIDE DEF a
<1>3. \A i \in 1..Len(a) : i \in 1..Len(q) \/ i = Len(q) + 1
  BY <1>1, <1>2
<1>4. \A i \in 1..Len(q) : i \in 1..Len(a)
  BY <1>1, <1>2
<1>5. Len(q) + 1 \in 1..Len(a)
  BY <1>1, <1>2
<1>6. Elements(a) = Elements(q) \union {s}
  BY <1>1, <1>3, <1>4, <1>5 DEF Elements
<1>7. NoGap(a, c)
  <2> SUFFICES ASSUME NEW i \in 1..Len(a), NEW t \in Expected, c < t, t <= a[i]
               PROVE  \E k \in 1..i : a[k] = t
    BY DEF NoGap
  <2>1. CASE i \in 1..Len(q)
    <3>1. PICK k \in 1..i : q[k] = t
      BY <1>1, <2>1 DEF NoGap
    <3>2. k \in 1..Len(q)
      BY <1>2, <2>1
    <3> QED BY <1>1, <3>1, <3>2
  <2>2. CASE i = Len(q) + 1
    <3>1. CASE t = s
      <4>1. i \in 1..i
        BY <1>2, <2>2
      <4> QED BY <1>1, <2>2, <3>1, <4>1
    <3>2. CASE t # s
      <4>1. t \in Nat /\ s \in Nat /\ t <= s
        BY <1>1, <2>2, PipelineAssumption DEF PipelineAssumption, Expected, Seqs
      <4>2. t \in Elements(q)
        BY <3>2, <4>1
      <4>3. PICK k \in 1..Len(q) : q[k] = t
        BY <4>2 DEF Elements
      <4>4. k \in 1..i
        BY <1>2, <2>2
      <4> QED BY <1>1, <4>3, <4>4
    <3> QED BY <3>1, <3>2
  <2> QED BY <1>3, <2>1, <2>2
<1> QED BY <1>1, <1>6, <1>7 DEF a

\* Taking a part off the front is safe when a checkpoint covers what it held.
LEMMA DropKeepsOrder ==
  ASSUME NEW p \in Seq(Seqs), NEW r \in Seq(Seqs), NEW c \in Nat, NEW d \in Nat,
         NoGap(p \o r, c), c <= d, \A s \in Expected : s \in Elements(p) => s <= d
  PROVE  NoGap(r, d)
<1>1. /\ \A i \in 1..Len(p) + Len(r) : (p \o r)[i] = IF i <= Len(p) THEN p[i] ELSE r[i - Len(p)]
      /\ Len(p \o r) = Len(p) + Len(r)
  BY ConcatProperties
<1>2. Len(p) \in Nat /\ Len(r) \in Nat
  BY LenProperties
<1> SUFFICES ASSUME NEW i \in 1..Len(r), NEW t \in Expected, d < t, t <= r[i]
             PROVE  \E k \in 1..i : r[k] = t
  BY DEF NoGap
<1>3. t \in Nat
  BY PipelineAssumption DEF PipelineAssumption, Expected
<1>4. i + Len(p) \in 1..Len(p \o r) /\ (p \o r)[i + Len(p)] = r[i]
  BY <1>1, <1>2
<1>5. PICK k \in 1..(i + Len(p)) : (p \o r)[k] = t
  <2>1. c < t /\ t <= (p \o r)[i + Len(p)]
    BY <1>3, <1>4
  <2>2. \A m \in 1..Len(p \o r) : t <= (p \o r)[m] => \E k \in 1..m : (p \o r)[k] = t
    BY <2>1 DEF NoGap
  <2> QED BY <1>4, <2>1, <2>2
<1>6. CASE k <= Len(p)
  <2>1. k \in 1..Len(p) /\ p[k] = t
    BY <1>1, <1>2, <1>5, <1>6
  <2>2. t \in Elements(p)
    BY <2>1 DEF Elements
  <2> QED BY <1>3, <2>2
<1>7. CASE k > Len(p)
  <2>1. k - Len(p) \in 1..i /\ r[k - Len(p)] = t
    BY <1>1, <1>2, <1>5, <1>7
  <2> QED BY <2>1
<1> QED BY <1>2, <1>6, <1>7

\* What is due before a message of the front part is in the front part.
LEMMA FrontIsComplete ==
  ASSUME NEW p \in Seq(Seqs), NEW r \in Seq(Seqs), NEW c \in Nat, NoGap(p \o r, c),
         NEW h \in Elements(p), NEW t \in Expected, c < t, t <= h
  PROVE  t \in Elements(p)
<1>1. /\ \A i \in 1..Len(p) + Len(r) : (p \o r)[i] = IF i <= Len(p) THEN p[i] ELSE r[i - Len(p)]
      /\ Len(p \o r) = Len(p) + Len(r)
  BY ConcatProperties
<1>2. Len(p) \in Nat /\ Len(r) \in Nat
  BY LenProperties
<1>3. PICK j \in 1..Len(p) : p[j] = h
  BY DEF Elements
<1>4. j \in 1..Len(p \o r) /\ (p \o r)[j] = h
  BY <1>1, <1>2, <1>3
<1>5. PICK k \in 1..j : (p \o r)[k] = t
  BY <1>4 DEF NoGap
<1>6. k \in 1..Len(p) /\ p[k] = t
  BY <1>1, <1>2, <1>5
<1> QED BY <1>6 DEF Elements

\* The parts of the flow, and the flow, are sequences of messages.
LEMMA FlowTypes ==
  ASSUME TypeOK
  PROVE  /\ InHand \in Seq(Seqs) /\ batch \in Seq(Seqs) /\ prefetched \in Seq(Seqs)
         /\ wire \in Seq(Seqs) /\ prefetched \o wire \in Seq(Seqs)
         /\ batch \o (prefetched \o wire) \in Seq(Seqs) /\ Flow \in Seq(Seqs)
<1>1. InHand \in Seq(Seqs) /\ batch \in Seq(Seqs) /\ prefetched \in Seq(Seqs) /\ wire \in Seq(Seqs)
  BY EmptySeq DEF TypeOK, InHand
<1>2. prefetched \o wire \in Seq(Seqs)
  BY <1>1, ConcatProperties
<1>3. batch \o (prefetched \o wire) \in Seq(Seqs)
  BY <1>1, <1>2, ConcatProperties
<1> QED BY <1>1, <1>2, <1>3, ConcatProperties DEF Flow

\* A message that joins the wire joins the flow, behind everything else.
LEMMA JoinsFlow ==
  ASSUME TypeOK, NEW s \in Seqs, wire' = Append(wire, s),
         UNCHANGED <<prefetched, batch, taken, pc>>
  PROVE  Flow' = Append(Flow, s)
<1>1. /\ InHand \in Seq(Seqs) /\ batch \in Seq(Seqs) /\ prefetched \in Seq(Seqs)
      /\ wire \in Seq(Seqs) /\ prefetched \o wire \in Seq(Seqs)
      /\ batch \o (prefetched \o wire) \in Seq(Seqs) /\ Flow \in Seq(Seqs)
  BY FlowTypes
<1>2. <<s>> \in Seq(Seqs)
  OBVIOUS
<1>3. \A a, b \in Seq(Seqs) : a \o Append(b, s) = Append(a \o b, s)
  <2> TAKE a, b \in Seq(Seqs)
  <2>1. Append(b, s) = b \o <<s>> /\ a \o b \in Seq(Seqs)
    BY AppendIsConcat, ConcatProperties
  <2>2. Append(a \o b, s) = (a \o b) \o <<s>>
    BY <2>1, AppendIsConcat
  <2>3. (a \o b) \o <<s>> = a \o (b \o <<s>>)
    BY <1>2, ConcatAssociative
  <2> QED BY <2>1, <2>2, <2>3
<1>4. prefetched \o Append(wire, s) = Append(prefetched \o wire, s)
  BY <1>1, <1>3
<1>5. batch \o Append(prefetched \o wire, s) = Append(batch \o (prefetched \o wire), s)
  BY <1>1, <1>3
<1>6. InHand \o Append(batch \o (prefetched \o wire), s) = Append(Flow, s)
  BY <1>1, <1>3 DEF Flow
<1>7. InHand' = InHand
  BY DEF InHand
<1> QED BY <1>4, <1>5, <1>6, <1>7 DEF Flow

\* A step that leaves the flow, the consumer, the checkpoint, the rows and what is
\* acknowledged alone, or only lets the stream grow, keeps the order.
LEMMA SameFlowKeepsOrder ==
  ASSUME TypeOK, InOrder, Flow' = Flow,
         UNCHANGED <<consumer, ckpt, table, acked, zombie, pc, taken>>,
         published' \in {published, published + 1},
         pc = "down" => UNCHANGED <<batch, prefetched, wire>>
  PROVE  InOrder'
<1>1. published \in Nat
  BY PipelineAssumption DEF TypeOK, PipelineAssumption
<1>2. \A s : s <= published => s <= published \/ s <= published + 1
  OBVIOUS
<1>3. \A s \in Seqs : Delivered(s) => Delivered(s)'
  BY <1>1 DEF Delivered, Seqs
<1>4. Elements(Flow) \subseteq Seqs /\ consumer.pending \subseteq Seqs
  BY FlowTypes, ElementsOf DEF TypeOK, Consumers
<1>5. FlowInOrder'
  BY <1>3, <1>4 DEF InOrder, FlowInOrder, NoGap, Elements
<1>6. PendingCovers'
  BY <1>3, <1>4 DEF InOrder, PendingCovers
<1>7. NothingMissing'
  BY DEF InOrder, NothingMissing, Elements
<1>8. WorkerIsAlone'
  BY DEF InOrder, WorkerIsAlone
<1>9. AcksBehind' /\ PrefixStored'
  BY DEF InOrder, AcksBehind, PrefixStored, Elements
<1> QED BY <1>5, <1>6, <1>7, <1>8, <1>9 DEF InOrder

\* A delivery for the first time: the message follows everything delivered before it.
LEMMA DeliverKeepsOrder == Safe /\ InOrder /\ Deliver => InOrder'
<1> SUFFICES ASSUME Safe, InOrder, Deliver PROVE InOrder'
  OBVIOUS
<1> DEFINE n == consumer.next
<1>0. /\ TypeOK /\ consumer.exists /\ n <= published /\ n # 0 /\ wire' = Append(wire, n)
      /\ pc # "down" /\ consumer \in Consumers
  BY DEF Safe, TypeOK, ConsumerInStream, Deliver, Pulling
<1>1. /\ TypeOK /\ n \in Seqs /\ consumer \in Consumers /\ consumer.exists /\ n <= published
      /\ pc # "down" /\ wire' = Append(wire, n)
  <2>1. n \in Nat
    BY <1>0 DEF Consumers
  <2>2. MaxSeq \in Nat /\ published \in 0..MaxSeq
    BY <1>0, PipelineAssumption DEF TypeOK, PipelineAssumption
  <2>3. n \in Seqs
    BY <1>0, <2>1, <2>2 DEF Seqs
  <2> QED BY <1>0, <2>3
<1>2. /\ consumer'.next = n + 1 /\ consumer'.pending = consumer.pending \union {n}
      /\ consumer'.exists = consumer.exists
  BY <1>1 DEF Deliver, Consumers
<1>3. Flow \in Seq(Seqs) /\ Flow' = Append(Flow, n)
  BY <1>1, FlowTypes, JoinsFlow DEF Deliver, source
<1>4. n \in Nat /\ ckpt \in Nat /\ (\A t \in Expected : t \in Nat) /\ (\A t \in Seqs : t \in Nat)
      /\ published \in Nat /\ StartSeq \in Nat
  <2>1. MaxSeq \in Nat /\ StartSeq \in Nat /\ Matching \subseteq Seqs
    BY PipelineAssumption DEF PipelineAssumption, Seqs
  <2>2. (\A t \in Seqs : t \in Nat) /\ (\A t \in Expected : t \in Seqs)
    BY <2>1 DEF Seqs, Expected
  <2>3. ckpt \in Nat /\ published \in Nat
    BY <1>1, <2>1 DEF TypeOK
  <2> QED BY <1>1, <2>1, <2>2, <2>3
<1>5. \A t \in Expected : ckpt < t /\ t < n => t \in Elements(Flow)
  BY <1>1 DEF InOrder, NothingMissing
<1>6. NoGap(Flow', ckpt) /\ Elements(Flow') = Elements(Flow) \union {n}
  BY <1>1, <1>3, <1>4, <1>5, AppendKeepsOrder DEF InOrder, FlowInOrder
<1>7. StartSeq <= n
  BY <1>1 DEF InOrder, PendingCovers
<1>8. UNCHANGED <<published, ckpt, table, acked, zombie, pc, taken>>
  BY DEF Deliver, durable
<1> HIDE DEF n
<1>9. \A s \in Seqs : Delivered(s) \/ s = n => Delivered(s)'
  <2>1. consumer.next = n
    BY DEF n
  <2>2. \A s \in Seqs : s < n \/ s = n => s < n + 1
    BY <1>4
  <2> QED BY <1>1, <1>2, <1>7, <1>8, <2>1, <2>2 DEF Delivered
<1>10. Elements(Flow) \subseteq Seqs /\ consumer.pending \subseteq Seqs
  BY <1>1, FlowTypes, ElementsOf DEF Consumers
<1>11. FlowInOrder'
  <2>1. NoGap(Flow', ckpt') = NoGap(Flow, ckpt)'
    BY DEF NoGap
  <2>2. Elements(Flow)' = Elements(Flow')
    BY DEF Elements
  <2>3. NoGap(Flow, ckpt)'
    BY <1>6, <1>8, <2>1
  <2>4. \A s \in Elements(Flow)' : Delivered(s)'
    BY <1>1, <1>6, <1>9, <1>10, <2>2 DEF InOrder, FlowInOrder
  <2> QED BY <2>3, <2>4 DEF FlowInOrder
<1>12. NothingMissing'
  <2>1. Elements(Flow)' = Elements(Flow) \union {n}
    BY <1>6 DEF Elements
  <2>2. \A t \in Expected : ckpt < t /\ t < n + 1 => t \in Elements(Flow) \union {n}
    BY <1>4, <1>5
  <2> QED BY <1>2, <1>8, <2>1, <2>2 DEF NothingMissing
<1>13. PendingCovers'
  <2>1. \A t \in Expected : ckpt < t /\ t < n + 1 => t \in consumer.pending \union {n}
    BY <1>1, <1>4 DEF InOrder, PendingCovers, n
  <2>2. \A s \in consumer'.pending : Delivered(s)'
    BY <1>1, <1>2, <1>9, <1>10 DEF InOrder, PendingCovers
  <2>3. StartSeq <= n + 1
    BY <1>4, <1>7
  <2> QED BY <1>2, <1>8, <2>1, <2>2, <2>3 DEF PendingCovers
<1>14. WorkerIsAlone'
  BY <1>1, <1>2, <1>8 DEF InOrder, WorkerIsAlone
<1>15. AcksBehind' /\ PrefixStored'
  BY <1>8 DEF InOrder, AcksBehind, PrefixStored, Elements
<1> QED BY <1>11, <1>12, <1>13, <1>14, <1>15 DEF InOrder

\* A redelivery: what the server still has pending is behind what was delivered before.
LEMMA RedeliverKeepsOrder ==
  ASSUME Safe, InOrder, NEW s \in Seqs, Redeliver(s)
  PROVE  InOrder'
<1>1. /\ TypeOK /\ s \in consumer.pending /\ wire' = Append(wire, s) /\ pc # "down"
      /\ ckpt \in Nat /\ consumer \in Consumers
      /\ UNCHANGED <<published, consumer, prefetched, batch, ckpt, table, acked, zombie, pc, taken>>
  BY PipelineAssumption
  DEF PipelineAssumption, Safe, TypeOK, Redeliver, Pulling, durable
<1>2. Flow \in Seq(Seqs) /\ Flow' = Append(Flow, s)
  BY <1>1, FlowTypes, JoinsFlow
<1>3. Delivered(s)
  BY <1>1 DEF InOrder, PendingCovers, WorkerIsAlone
<1>4. \A t \in Expected : ckpt < t /\ t < s => t \in Elements(Flow)
  <2>1. \A t \in Expected : t \in Nat
    BY PipelineAssumption DEF PipelineAssumption, Expected
  <2>2. \A t \in Expected : t < s => t < consumer.next
    BY <1>1, <1>3, <2>1 DEF Delivered, Consumers, Seqs
  <2> QED BY <1>1, <2>2 DEF InOrder, NothingMissing
<1>5. NoGap(Flow', ckpt) /\ Elements(Flow') = Elements(Flow) \union {s}
  BY <1>1, <1>2, <1>4, AppendKeepsOrder DEF InOrder, FlowInOrder
<1>6. Elements(Flow)' = Elements(Flow') /\ \A t \in Seqs : Delivered(t)' = Delivered(t)
  BY <1>1 DEF Elements, Delivered
<1>7. FlowInOrder'
  <2>1. NoGap(Flow', ckpt') = NoGap(Flow, ckpt)'
    BY DEF NoGap
  <2>2. \A t \in Elements(Flow)' : Delivered(t)'
    BY <1>2, <1>3, <1>5, <1>6, ElementsOf DEF InOrder, FlowInOrder
  <2> QED BY <1>1, <1>5, <2>1, <2>2 DEF FlowInOrder
<1>8. NothingMissing'
  BY <1>1, <1>5, <1>6 DEF InOrder, NothingMissing
<1>9. PendingCovers'
  BY <1>1, <1>6 DEF InOrder, PendingCovers, Consumers
<1>10. WorkerIsAlone'
  BY <1>1 DEF InOrder, WorkerIsAlone
<1>11. AcksBehind' /\ PrefixStored'
  BY <1>1 DEF InOrder, AcksBehind, PrefixStored, Elements
<1> QED BY <1>7, <1>8, <1>9, <1>10, <1>11 DEF InOrder

\* A step after which no worker runs and nothing is in flight keeps the order: what the
\* checkpoint does not cover is still pending on the consumer that remains, if one does.
LEMMA StoppedKeepsOrder ==
  ASSUME InOrder, pc' = "down", UNCHANGED <<published, ckpt, table, acked>>,
         batch' = <<>>, prefetched' = <<>>, wire' = <<>>, PendingCovers'
  PROVE  InOrder'
<1>1. Flow' = <<>>
  <2>1. InHand' = <<>>
    BY DEF InHand
  <2>2. <<>> \o <<>> = <<>>
    BY EmptySeq, ConcatEmptySeq
  <2> QED BY <2>1, <2>2 DEF Flow
<1>2. FlowInOrder'
  <2>1. NoGap(Flow, ckpt)' = NoGap(Flow', ckpt') /\ Elements(Flow)' = Elements(Flow')
    BY DEF NoGap, Elements
  <2> QED BY <1>1, <2>1, ElementsOfEmpty DEF FlowInOrder
<1>3. NothingMissing' /\ WorkerIsAlone'
  BY DEF NothingMissing, WorkerIsAlone
<1>4. AcksBehind' /\ PrefixStored'
  BY DEF InOrder, AcksBehind, PrefixStored
<1> QED BY <1>2, <1>3, <1>4 DEF InOrder

\* A consumer that is not touched goes on covering what the checkpoint does not.
LEMMA SameConsumerCovers ==
  ASSUME InOrder, UNCHANGED <<published, consumer, ckpt>>
  PROVE  PendingCovers'
  BY DEF InOrder, PendingCovers, Delivered

\* What another thread of a stopped job receives stays pending.
LEMMA ZombieKeepsOrder == Safe /\ InOrder /\ ZombieReceives => InOrder'
<1> SUFFICES ASSUME Safe, InOrder, ZombieReceives PROVE InOrder'
  OBVIOUS
<1> DEFINE n == consumer.next
<1>1. pc = "down" /\ batch = <<>> /\ prefetched = <<>> /\ wire = <<>>
  BY DEF InOrder, WorkerIsAlone, ZombieReceives, Safe, TypeOK
<1>2. UNCHANGED <<published, ckpt, table, acked, pc, batch, prefetched, wire>>
  BY DEF ZombieReceives, source, durable
<1>3. /\ consumer \in Consumers /\ consumer.exists /\ n <= published
      /\ consumer'.next = n + 1 /\ consumer'.pending = consumer.pending \union {n}
  BY DEF ZombieReceives, Safe, TypeOK, Consumers
<1>4. n \in Nat /\ published \in Nat /\ StartSeq \in Nat /\ consumer.pending \subseteq Seqs
  BY <1>3, PipelineAssumption DEF Consumers, Safe, TypeOK, PipelineAssumption
<1>5. /\ StartSeq <= n /\ (\A t \in Expected : ckpt < t /\ t < n => t \in consumer.pending)
      /\ \A s \in consumer.pending : Delivered(s)
  BY <1>3 DEF InOrder, PendingCovers
<1>6. \A s \in consumer.pending \union {n} : StartSeq <= s /\ s < n + 1 /\ s <= published
  BY <1>3, <1>4, <1>5 DEF Delivered, Seqs
<1>7. \A t \in Expected : ckpt < t /\ t < n + 1 => t \in consumer.pending \union {n}
  <2>1. \A t \in Expected : t \in Nat
    BY PipelineAssumption DEF PipelineAssumption, Expected
  <2> QED BY <1>4, <1>5, <2>1
<1>8. StartSeq <= n + 1
  BY <1>4, <1>5
<1> HIDE DEF n
<1>9. PendingCovers'
  BY <1>2, <1>3, <1>6, <1>7, <1>8 DEF PendingCovers, Delivered
<1> QED BY <1>1, <1>2, <1>9, StoppedKeepsOrder

\* Moving messages from the wire to the queue, and from the queue to the batch, is
\* invisible to the order.
LEMMA HandoverKeepsOrder == Safe /\ InOrder /\ (PrefetchPush \/ FetchBatch) => InOrder'
<1> SUFFICES ASSUME Safe, InOrder, PrefetchPush \/ FetchBatch PROVE InOrder'
  OBVIOUS
<1>1. /\ TypeOK /\ pc # "down" /\ batch \in Seq(Seqs) /\ prefetched \in Seq(Seqs)
      /\ wire \in Seq(Seqs) /\ <<>> \in Seq(Seqs)
  BY EmptySeq DEF Safe, TypeOK, PrefetchPush, FetchBatch
<1>2. UNCHANGED <<published, consumer, ckpt, table, acked, zombie, pc, taken>>
  BY DEF PrefetchPush, FetchBatch, durable
<1>3. InHand' = InHand
  BY <1>2 DEF InHand
<1>4. \A q \in Seq(Seqs) : q \o <<>> = q /\ <<>> \o q = q
  BY ConcatEmptySeq
<1>5. batch' \o (prefetched' \o wire') = batch \o (prefetched \o wire)
  <2>1. CASE PrefetchPush
    <3>1. prefetched = <<>> /\ prefetched' = wire /\ wire' = <<>> /\ batch' = batch
      BY <2>1 DEF PrefetchPush
    <3> QED BY <1>1, <1>4, <3>1
  <2>2. CASE FetchBatch
    <3>1. batch = <<>> /\ batch' = prefetched /\ prefetched' = <<>> /\ wire' = wire
      BY <2>2 DEF FetchBatch
    <3>2. prefetched \o wire \in Seq(Seqs)
      BY <1>1, ConcatProperties
    <3> QED BY <1>1, <1>4, <3>1, <3>2
  <2> QED BY <2>1, <2>2
<1>6. Flow' = Flow
  BY <1>3, <1>5 DEF Flow
<1> QED BY <1>1, <1>2, <1>6, SameFlowKeepsOrder

\* A batch is one transaction and what is left of it.
LEMMA BatchIsItsParts ==
  ASSUME NEW q \in Seq(Seqs), q # <<>>
  PROVE  LET n == Min({BatchSize, Len(q)}) IN
         SubSeq(q, 1, n) \o SubSeq(q, n + 1, Len(q)) = q
<1> DEFINE n == Min({BatchSize, Len(q)})
<1>1. BatchSize \in Nat \ {0} /\ Len(q) \in Nat \ {0}
  BY PipelineAssumption, EmptySeq DEF PipelineAssumption
<1>2. n \in Nat \ {0} /\ n <= Len(q)
  BY <1>1, MinOfTwo
<1> HIDE DEF n
<1>3. SubSeq(q, 1, n) \o SubSeq(q, n + 1, Len(q)) = SubSeq(q, 1, Len(q))
  <2>1. 1 \in 1..Len(q) + 1 /\ n \in 1 - 1..Len(q) /\ Len(q) \in n..Len(q)
    BY <1>1, <1>2
  <2> QED BY <2>1, ConcatAdjacentSubSeq
<1>4. SubSeq(q, 1, Len(q)) = q
  BY SubSeqFull
<1> QED BY <1>3, <1>4 DEF n

\* A transaction that will commit stays in the flow; one without rows leaves it, and the
\* checkpoint covers every expected message it had.
LEMMA ProcessKeepsOrder == Safe /\ InOrder /\ ProcessBatch => InOrder'
<1> SUFFICES ASSUME Safe, InOrder, ProcessBatch PROVE InOrder'
  OBVIOUS
<1> DEFINE rest == prefetched \o wire
<1>1. /\ TypeOK /\ pc = "loop" /\ batch \in Seq(Seqs) /\ batch # <<>> /\ rest \in Seq(Seqs)
      /\ committed = ckpt /\ ckpt \in Nat /\ InHand = <<>>
  BY FlowTypes, PipelineAssumption
  DEF PipelineAssumption, Safe, TypeOK, ProcessBatch, WorkerFollowsCheckpoint, InHand
<1>2. /\ taken' \in Seq(Seqs) /\ batch' \in Seq(Seqs) /\ taken' \o batch' = batch
      /\ pc' = AfterProcessing(taken')
  BY <1>1, BatchSplits, BatchIsItsParts DEF ProcessBatch
<1>3. UNCHANGED <<published, consumer, ckpt, table, acked, zombie, prefetched, wire>>
  BY DEF ProcessBatch, durable
<1>4. batch' \o rest \in Seq(Seqs)
  BY <1>1, <1>2, ConcatProperties
<1>5. Flow = taken' \o (batch' \o rest)
  <2>1. Flow = batch \o rest
    BY <1>1, ConcatEmptySeq, ConcatProperties DEF Flow
  <2>2. rest \in Seq(Seqs)
    BY <1>1
  <2> HIDE DEF rest
  <2>3. (taken' \o batch') \o rest = taken' \o (batch' \o rest)
    <3>1. taken' \in Seq(Seqs) /\ batch' \in Seq(Seqs)
      BY <1>2
    <3>2. \A a, b, c \in Seq(Seqs) : (a \o b) \o c = a \o (b \o c)
      BY ConcatAssociative
    <3> QED BY <2>2, <3>1, <3>2, Zenon
  <2> QED BY <1>2, <2>1, <2>3
<1>6. /\ NoGap(Flow, ckpt) /\ (\A s \in Elements(Flow) : Delivered(s))
      /\ Elements(Flow) = Elements(taken') \union Elements(batch' \o rest)
      /\ \A t \in Expected : ckpt < t /\ t < consumer.next => t \in Elements(Flow)
  BY <1>1, <1>2, <1>4, <1>5, ElementsOfConcat DEF InOrder, FlowInOrder, NothingMissing
<1>7. PendingCovers'
  BY <1>3, SameConsumerCovers
<1>8. PrefixStored' /\ WorkerIsAlone'
  BY <1>1, <1>2, <1>3 DEF InOrder, PrefixStored, WorkerIsAlone, AfterProcessing
<1>9. \A s : Delivered(s)' = Delivered(s)
  BY <1>3 DEF Delivered
<1>10. CASE Inserts(taken')
  <2>1. pc' = "commit" /\ Flow' = Flow
    BY <1>2, <1>3, <1>5, <1>10 DEF AfterProcessing, Flow, InHand
  <2>2. FlowInOrder'
    BY <1>3, <1>6, <1>9, <2>1 DEF FlowInOrder, NoGap, Elements
  <2>3. NothingMissing' /\ AcksBehind'
    BY <1>3, <1>6, <2>1 DEF InOrder, NothingMissing, AcksBehind, Elements
  <2> QED BY <1>7, <1>8, <2>2, <2>3 DEF InOrder
<1>11. CASE ~Inserts(taken')
  <2>1. pc' = "ack" /\ Flow' = batch' \o rest
    <3>1. pc' = "ack" /\ InHand' = <<>>
      BY <1>2, <1>11 DEF AfterProcessing, InHand
    <3> QED BY <1>3, <1>4, <3>1, ConcatEmptySeq DEF Flow
  <2>2. \A s \in Expected : s \in Elements(taken') => s <= ckpt
    <3> TAKE s \in Expected
    <3>1. s \in Matching /\ s \in Seqs /\ s \in Nat
      BY PipelineAssumption DEF PipelineAssumption, Expected, Seqs
    <3>2. ~(s \in Elements(taken') /\ s > committed)
      <4>1. ~(RowsOf(taken', s) > 0)
        BY <1>11, <3>1 DEF Inserts, RowsOf
      <4> QED BY <3>1, <4>1 DEF RowsOf
    <3> QED BY <1>1, <3>1, <3>2
  <2>3. NoGap(Flow', ckpt)
    <3> DEFINE left == batch' \o rest
    <3>1. left \in Seq(Seqs) /\ Flow' = left /\ NoGap(taken' \o left, ckpt) /\ ckpt <= ckpt
      BY <1>1, <1>4, <1>5, <1>6, <2>1
    <3> HIDE DEF left
    <3> QED BY <1>1, <1>2, <2>2, <3>1, DropKeepsOrder
  <2>4. FlowInOrder'
    <3>1. NoGap(Flow, ckpt)'
      BY <1>3, <2>3 DEF NoGap
    <3>2. Elements(Flow)' = Elements(batch' \o rest)
      BY <2>1 DEF Elements
    <3>3. \A s \in Elements(Flow)' : Delivered(s)'
      BY <1>6, <1>9, <3>2
    <3> QED BY <3>1, <3>3 DEF FlowInOrder
  <2>5. NothingMissing'
    <3>1. \A t \in Expected : ckpt < t => t \notin Elements(taken')
      BY <1>1, <2>2, PipelineAssumption DEF PipelineAssumption, Expected
    <3> QED BY <1>3, <1>6, <2>1, <3>1 DEF NothingMissing, Elements
  <2>6. AcksBehind'
    BY <1>3, <2>2 DEF InOrder, AcksBehind, Elements
  <2> QED BY <1>7, <1>8, <2>4, <2>5, <2>6 DEF InOrder
<1> QED BY <1>10, <1>11

-----------------------------------------------------------------------------
\* What one commit does: it stores exactly the expected messages between the old
\* checkpoint and the new one, which is ahead of it and not ahead of the stream.
LEMMA CommitExtends ==
  ASSUME Safe, InOrder, CommitBatch
  PROVE  /\ HighWater(taken) \in Seqs
         /\ ckpt' = HighWater(taken)
         /\ ckpt < HighWater(taken)
         /\ HighWater(taken) <= published
         /\ \E s \in Expected : ckpt < s /\ s <= HighWater(taken)
         /\ \A s \in Seqs : RowsOf(taken, s) =
              IF s \in Expected /\ ckpt < s /\ s <= HighWater(taken) THEN 1 ELSE 0
<1> DEFINE h == HighWater(taken)
<1> DEFINE rest == batch \o (prefetched \o wire)
<1>1. /\ TypeOK /\ taken \in Seq(Seqs) /\ taken # <<>> /\ committed = ckpt /\ Inserts(taken)
      /\ ckpt \in Nat /\ published \in Nat /\ MaxSeq \in Nat /\ pc = "commit"
  BY PipelineAssumption
  DEF PipelineAssumption, Safe, TypeOK, WorkerFollowsCheckpoint, CommitBatch
<1>2. h \in Seqs /\ h \in Elements(taken) /\ \A s \in Elements(taken) : s <= h
  BY <1>1, HighWaterIsLargest
<1>3. rest \in Seq(Seqs) /\ Flow = taken \o rest
  BY <1>1, FlowTypes DEF Flow, InHand
<1>4. NoGap(taken \o rest, ckpt) /\ \A s \in Elements(taken) : Delivered(s)
  BY <1>1, <1>3, ElementsOfConcat DEF InOrder, FlowInOrder
<1>5. h <= published
  BY <1>2, <1>4 DEF Delivered
<1> HIDE DEF h, rest
<1>6. PICK s \in Seqs : s \in Elements(taken) /\ s > ckpt /\ s \in Matching
  BY <1>1 DEF Inserts, RowsOf
<1>7. s \in Expected /\ s <= h /\ ckpt < h
  BY <1>1, <1>2, <1>4, <1>6 DEF Expected, Delivered, Seqs
<1>8. ckpt' = h
  <2>1. h \in Nat
    BY <1>2 DEF Seqs
  <2> QED BY <1>1, <1>7, <2>1 DEF CommitBatch, MaxOf, h
<1>9. \A t \in Seqs : RowsOf(taken, t) = IF t \in Expected /\ ckpt < t /\ t <= h THEN 1 ELSE 0
  <2> TAKE t \in Seqs
  <2>1. CASE t \in Expected /\ ckpt < t /\ t <= h
    <3>1. t \in Elements(taken)
      BY <1>1, <1>2, <1>3, <1>4, <2>1, FrontIsComplete
    <3> QED BY <1>1, <2>1, <3>1 DEF RowsOf, Expected
  <2>2. CASE ~(t \in Expected /\ ckpt < t /\ t <= h)
    <3>1. ~(t \in Elements(taken) /\ t > committed /\ t \in Matching)
      <4> SUFFICES ASSUME t \in Elements(taken), t > committed, t \in Matching PROVE FALSE
        OBVIOUS
      <4>1. t \in Expected /\ t <= h /\ ckpt < t
        BY <1>1, <1>2, <1>4 DEF Expected, Delivered, Seqs
      <4> QED BY <2>2, <4>1
    <3>2. RowsOf(taken, t) = 0
      BY <3>1 DEF RowsOf
    <3> QED BY <2>2, <3>2
  <2> QED BY <2>1, <2>2
<1> QED BY <1>1, <1>2, <1>5, <1>6, <1>7, <1>8, <1>9 DEF h

\* A commit takes its transaction out of the flow and moves the checkpoint over it.
LEMMA CommitKeepsOrder == Safe /\ InOrder /\ CommitBatch => InOrder'
<1> SUFFICES ASSUME Safe, InOrder, CommitBatch PROVE InOrder'
  OBVIOUS
<1> DEFINE h == HighWater(taken)
<1> DEFINE rest == batch \o (prefetched \o wire)
<1>1. /\ TypeOK /\ taken \in Seq(Seqs) /\ taken # <<>> /\ ckpt \in Nat /\ pc = "commit"
      /\ table \in [Seqs -> Nat] /\ AtMostOnce /\ CheckpointCoversRows
  BY PipelineAssumption
  DEF PipelineAssumption, Safe, TypeOK, WorkerFollowsCheckpoint, CommitBatch
<1>2. h \in Seqs /\ h \in Nat /\ \A s \in Elements(taken) : s <= h
  BY <1>1, HighWaterIsLargest DEF Seqs
<1>3. /\ ckpt' = h /\ ckpt < h
      /\ \A s \in Seqs : RowsOf(taken, s) =
           IF s \in Expected /\ ckpt < s /\ s <= h THEN 1 ELSE 0
  BY CommitExtends
<1>4. /\ UNCHANGED <<published, consumer, taken, acked, zombie, batch, prefetched, wire>>
      /\ pc' = "ack" /\ table' = [s \in Seqs |-> table[s] + RowsOf(taken, s)]
  BY DEF CommitBatch, source
<1>5. rest \in Seq(Seqs) /\ Flow = taken \o rest /\ Flow' = rest
  <2>1. rest \in Seq(Seqs) /\ Flow = taken \o rest
    BY <1>1, FlowTypes DEF Flow, InHand
  <2>2. InHand' = <<>>
    BY <1>4 DEF InHand
  <2> QED BY <1>4, <2>1, <2>2, ConcatEmptySeq DEF Flow
<1>6. Elements(Flow) = Elements(taken) \union Elements(rest)
  BY <1>1, <1>5, ElementsOfConcat
<1> HIDE DEF h, rest
<1>7. \A t \in Expected : t \in Nat /\ t \in Seqs
  BY PipelineAssumption DEF PipelineAssumption, Expected, Seqs
<1>8. FlowInOrder'
  <2>1. NoGap(rest, h)
    BY <1>1, <1>2, <1>3, <1>5, DropKeepsOrder DEF InOrder, FlowInOrder
  <2>2. NoGap(Flow, ckpt)' /\ Elements(Flow)' = Elements(rest)
    BY <1>3, <1>5, <2>1 DEF NoGap, Elements
  <2>3. \A s \in Elements(rest) : Delivered(s)'
    BY <1>4, <1>6 DEF InOrder, FlowInOrder, Delivered
  <2> QED BY <2>2, <2>3 DEF FlowInOrder
<1>9. \A t \in Expected : h < t => ckpt < t /\ t \notin Elements(taken)
  BY <1>1, <1>2, <1>3, <1>7
<1>10. NothingMissing'
  BY <1>1, <1>3, <1>4, <1>5, <1>6, <1>9 DEF InOrder, NothingMissing, Elements
<1>11. PendingCovers'
  BY <1>3, <1>4, <1>9 DEF InOrder, PendingCovers, Delivered
<1>12. WorkerIsAlone'
  BY <1>1, <1>4 DEF InOrder, WorkerIsAlone
<1>13. AcksBehind'
  <2>1. \A s \in Expected : s <= ckpt => s <= h
    BY <1>1, <1>2, <1>3, <1>7
  <2> QED BY <1>2, <1>3, <1>4, <2>1 DEF InOrder, AcksBehind, Elements
<1>14. PrefixStored'
  <2> SUFFICES ASSUME NEW s \in Expected, s <= h PROVE table'[s] = 1
    BY <1>3 DEF PrefixStored
  <2>1. table'[s] = table[s] + RowsOf(taken, s)
    BY <1>4, <1>7
  <2>2. CASE s <= ckpt
    <3>1. table[s] = 1 /\ ~(ckpt < s)
      BY <1>1, <1>7, <2>2 DEF InOrder, PrefixStored
    <3>2. RowsOf(taken, s) = 0
      BY <1>3, <1>7, <3>1
    <3> QED BY <2>1, <3>1, <3>2
  <2>3. CASE ckpt < s
    <3>1. RowsOf(taken, s) = 1
      BY <1>3, <1>7, <2>3
    <3>2. table[s] = 0
      BY <1>1, <1>7, <2>3 DEF CheckpointCoversRows
    <3> QED BY <2>1, <3>1, <3>2
  <2> QED BY <1>1, <1>7, <2>2, <2>3
<1> QED BY <1>8, <1>10, <1>11, <1>12, <1>13, <1>14 DEF InOrder

\* An acknowledgement that arrives is for a message behind the checkpoint.
LEMMA AckKeepsOrder ==
  ASSUME FifoLink, Safe, InOrder, NEW arrives \in BOOLEAN, AckOne(arrives)
  PROVE  InOrder'
<1> DEFINE m == Head(taken)
<1>1. /\ TypeOK /\ pc = "ack" /\ taken \in Seq(Seqs) /\ taken # <<>> /\ ckpt \in Nat
      /\ consumer \in Consumers /\ published \in Nat /\ arrives
  <2>1. TypeOK /\ MaxSeq \in Nat
    BY PipelineAssumption DEF PipelineAssumption, Safe
  <2>2. /\ ckpt \in Nat /\ published \in Nat /\ consumer \in Consumers
        /\ taken \in Seq(Seqs)
    BY <2>1 DEF TypeOK
  <2>3. pc = "ack" /\ taken # <<>> /\ arrives
    BY DEF FifoLink, Safe, WorkerFollowsCheckpoint, AckOne
  <2> QED BY <2>1, <2>2, <2>3
<1>2. /\ m \in Seqs /\ m \in Elements(taken) /\ Elements(Tail(taken)) \subseteq Elements(taken)
  <2>1. Len(taken) \in Nat \ {0} /\ m = taken[1]
    BY <1>1, EmptySeq
  <2>2. /\ Tail(taken) \in Seq(Seqs) /\ Len(Tail(taken)) = Len(taken) - 1 /\ m \in Seqs
        /\ \A i \in 1..Len(Tail(taken)) : Tail(taken)[i] = taken[i + 1]
    BY <1>1, HeadTailProperties
  <2>3. \A i \in 1..Len(Tail(taken)) : i + 1 \in 1..Len(taken)
    BY <2>1, <2>2
  <2> QED BY <2>1, <2>2, <2>3 DEF Elements
<1>3. /\ UNCHANGED <<published, ckpt, table, zombie, batch, prefetched, wire>>
      /\ taken' = Tail(taken) /\ pc' \in {"loop", "ack"} /\ acked' = acked \union {m}
      /\ consumer' = [consumer EXCEPT !.pending = @ \ {m}]
  BY <1>1 DEF AckOne, source, durable
<1>4. /\ consumer'.exists = consumer.exists /\ consumer'.next = consumer.next
      /\ consumer'.pending = consumer.pending \ {m}
  BY <1>1, <1>3 DEF Consumers
<1> HIDE DEF m
<1>5. Flow' = Flow
  BY <1>1, <1>3 DEF Flow, InHand
<1>6. \A s : Delivered(s)' = Delivered(s)
  BY <1>3, <1>4 DEF Delivered
<1>7. FlowInOrder'
  BY <1>3, <1>5, <1>6 DEF InOrder, FlowInOrder, NoGap, Elements
<1>8. NothingMissing'
  BY <1>1, <1>3, <1>4, <1>5 DEF InOrder, NothingMissing, Elements
<1>9. \A t \in Expected : ckpt < t => t # m
  BY <1>1, <1>2, PipelineAssumption DEF InOrder, AcksBehind, PipelineAssumption, Expected
<1>10. PendingCovers'
  BY <1>1, <1>3, <1>4, <1>6, <1>9 DEF InOrder, PendingCovers
<1>11. WorkerIsAlone'
  BY <1>1, <1>3, <1>4 DEF InOrder, WorkerIsAlone
<1>12. AcksBehind'
  <2>1. Elements(taken)' = Elements(Tail(taken))
    BY <1>3 DEF Elements
  <2> QED BY <1>1, <1>2, <1>3, <2>1 DEF InOrder, AcksBehind
<1>13. PrefixStored'
  BY <1>3 DEF InOrder, PrefixStored
<1> QED BY <1>7, <1>8, <1>10, <1>11, <1>12, <1>13 DEF InOrder

\* The ends of a worker, and the end of a consumer nobody uses.
LEMMA EndKeepsOrder ==
  ASSUME Safe, InOrder, StopWorker \/ WorkerFails \/ Crash \/ ConsumerExpires
  PROVE  InOrder'
<1>1. CASE StopWorker \/ WorkerFails \/ Crash
  <2>1. DropMemory /\ UNCHANGED <<published, consumer, table, ckpt, acked>>
    BY <1>1 DEF StopWorker, WorkerFails, Crash, durable
  <2>2. PendingCovers'
    BY <2>1, SameConsumerCovers
  <2> QED BY <2>1, <2>2, StoppedKeepsOrder DEF DropMemory
<1>2. CASE ConsumerExpires
  <2>1. /\ pc = "down" /\ UNCHANGED <<published, table, ckpt, acked, pc, batch, prefetched, wire>>
        /\ ~consumer'.exists
    BY <1>2 DEF ConsumerExpires, NoConsumer, source, durable
  <2>2. batch = <<>> /\ prefetched = <<>> /\ wire = <<>> /\ PendingCovers'
    BY <2>1 DEF InOrder, WorkerIsAlone, PendingCovers
  <2> QED BY <2>1, <2>2, StoppedKeepsOrder
<1> QED BY <1>1, <1>2

\* The prefetch thread of a stopped job has ended: nothing in flight changes.
LEMMA JoinedKeepsOrder == InOrder /\ ZombieJoined => InOrder'
<1> SUFFICES ASSUME InOrder, ZombieJoined PROVE InOrder'
  OBVIOUS
<1>1. UNCHANGED <<published, consumer, source, taken, pc, durable, acked>> /\ ~zombie'
  BY DEF ZombieJoined
<1>2. Flow' = Flow
  BY <1>1 DEF Flow, InHand, source
<1>3. FlowInOrder'
  BY <1>1, <1>2 DEF InOrder, FlowInOrder, NoGap, Elements, Delivered, durable
<1>4. NothingMissing'
  BY <1>1, <1>2 DEF InOrder, NothingMissing, Elements, durable
<1>5. PendingCovers' /\ AcksBehind' /\ PrefixStored'
  BY <1>1 DEF InOrder, PendingCovers, AcksBehind, PrefixStored, Elements, Delivered, durable
<1>6. WorkerIsAlone'
  BY <1>1 DEF InOrder, WorkerIsAlone, source
<1> QED BY <1>3, <1>4, <1>5, <1>6 DEF InOrder

\* A launch begins with nothing in flight: either nothing was pending on the consumer it
\* binds, or its new consumer starts right behind the checkpoint.
LEMMA LaunchKeepsOrder ==
  ASSUME FifoLink, Safe, InOrder, NEW restore \in BOOLEAN,
         LaunchBinding(restore) \/ LaunchRecreating(restore)
  PROVE  InOrder'
<1>1. /\ StartWorker(restore) /\ pc = "down" /\ pc' = "loop" /\ ~zombie
      /\ UNCHANGED <<published, source, taken, table, ckpt, acked>>
  BY DEF LaunchBinding, LaunchRecreating, StartWorker, FifoLink
<1>2. batch' = <<>> /\ prefetched' = <<>> /\ wire' = <<>>
  BY <1>1 DEF InOrder, WorkerIsAlone, source
<1>3. Flow' = <<>>
  <2>1. InHand' = <<>>
    BY <1>1 DEF InHand
  <2>2. <<>> \o <<>> = <<>>
    BY EmptySeq, ConcatEmptySeq
  <2> QED BY <1>2, <2>1, <2>2 DEF Flow
<1>4. FlowInOrder'
  <2>1. NoGap(Flow, ckpt)' = NoGap(Flow', ckpt') /\ Elements(Flow)' = Elements(Flow')
    BY DEF NoGap, Elements
  <2> QED BY <1>3, <2>1, ElementsOfEmpty DEF FlowInOrder
<1>5. AcksBehind' /\ PrefixStored'
  BY <1>1 DEF InOrder, AcksBehind, PrefixStored
<1>6. /\ PendingCovers' /\ consumer'.exists /\ ~zombie'
      /\ \A t \in Expected : ~(ckpt < t /\ t < consumer'.next)
  <2>1. CASE LaunchBinding(restore)
    <3>1. consumer.exists /\ consumer.pending = {} /\ UNCHANGED <<consumer, zombie>>
      BY <2>1 DEF LaunchBinding, MayBind
    <3> QED BY <1>1, <3>1 DEF InOrder, PendingCovers, Delivered
  <2>2. CASE LaunchRecreating(restore)
    <3>1. /\ consumer'.exists /\ consumer'.next = EffectiveStart /\ consumer'.pending = {}
          /\ ~zombie'
      BY <2>2 DEF LaunchRecreating, ConsumerFrom
    <3>2. ckpt \in Nat /\ StartSeq \in Nat /\ \A t \in Expected : t \in Nat /\ StartSeq <= t
      BY PipelineAssumption DEF PipelineAssumption, Safe, TypeOK, Expected
    <3>3. /\ StartSeq <= EffectiveStart
          /\ \A t \in Expected : ~(ckpt < t /\ t < EffectiveStart)
      BY <3>2 DEF EffectiveStart, MaxOf
    <3> QED BY <1>1, <3>1, <3>3 DEF PendingCovers
  <2> QED BY <2>1, <2>2
<1>7. NothingMissing' /\ WorkerIsAlone'
  BY <1>1, <1>6 DEF NothingMissing, WorkerIsAlone
<1> QED BY <1>4, <1>5, <1>6, <1>7 DEF InOrder

\* Before the first launch nothing was delivered, stored or acknowledged.
LEMMA InitInOrder == Init => InOrder
<1> SUFFICES ASSUME Init PROVE InOrder
  OBVIOUS
<1>1. Flow = <<>>
  <2>1. InHand = <<>> /\ <<>> \o <<>> = <<>>
    BY EmptySeq, ConcatEmptySeq DEF Init, InHand
  <2> QED BY <2>1 DEF Init, Flow
<1>2. FlowInOrder
  BY <1>1, ElementsOfEmpty DEF FlowInOrder
<1>3. NothingMissing /\ PendingCovers /\ WorkerIsAlone /\ AcksBehind
  BY DEF Init, NothingMissing, PendingCovers, WorkerIsAlone, AcksBehind, NoConsumer
<1>4. PrefixStored
  BY PipelineAssumption DEF PipelineAssumption, Init, PrefixStored, Expected
<1> QED BY <1>2, <1>3, <1>4 DEF InOrder

\* On a link that loses nothing and with a clean handover, every step keeps the order.
LEMMA NextInOrder == ASSUME FifoLink, Safe, InOrder, [Next]_vars PROVE InOrder'
<1>1. CASE UNCHANGED vars
  <2>1. Flow' = Flow
    BY <1>1 DEF Flow, InHand, vars, source
  <2> QED BY <1>1, <2>1, SameFlowKeepsOrder DEF Safe, vars, source, durable
<1>2. CASE Publish
  <2>1. Flow' = Flow
    BY <1>2 DEF Flow, InHand, Publish, source
  <2> QED BY <1>2, <2>1, SameFlowKeepsOrder DEF Safe, Publish, source, durable
<1>3. ASSUME NEW k \in 1..TransportBatch PROVE ~LoseInFlight(k)
  BY DEF FifoLink, LoseInFlight
<1>4. CASE Next
  BY <1>2, <1>3, <1>4, DeliverKeepsOrder, RedeliverKeepsOrder, ZombieKeepsOrder,
     JoinedKeepsOrder, HandoverKeepsOrder, ProcessKeepsOrder, CommitKeepsOrder, AckKeepsOrder,
     EndKeepsOrder, LaunchKeepsOrder DEF Next
<1> QED BY <1>1, <1>4

\* On such a link the messages reach the table in the order of the stream.
THEOREM OrderAlways == ASSUME FifoLink PROVE Spec => []InOrder
<1>1. Safe /\ InOrder /\ [Next]_vars => InOrder'
  BY NextInOrder
<1> QED BY <1>1, InitInOrder, SafeAlways, PTL DEF Spec

\* Nothing is acknowledged before it is stored: the commit of AckMessages comes after
\* that of the rows, and a transaction without rows only acks what needs none.
THEOREM AcksFollowRows == ASSUME ~LossyLink, ~EarlyTakeover PROVE Spec => []AckedIsStored
<1>1. InOrder => AckedIsStored
  BY DEF InOrder, AcksBehind, PrefixStored, AckedIsStored
<1>2. Spec => []InOrder
  BY OrderAlways DEF FifoLink
<1> QED BY <1>1, <1>2, PTL

-----------------------------------------------------------------------------
\* The refinement, step by step: a commit extends the stored prefix, the stream grows,
\* and no other step of server, threads or crashes shows.
LEMMA CommitIsExtend ==
  ASSUME Safe, InOrder, CommitBatch
  PROVE  ExactlyOnce!Extend(HighWater(taken))
<1> DEFINE h == HighWater(taken)
<1>1. /\ h \in Seqs /\ ckpt' = h /\ ckpt < h /\ h <= published
      /\ \E s \in Expected : ckpt < s /\ s <= h
      /\ \A s \in Seqs : RowsOf(taken, s) =
           IF s \in Expected /\ ckpt < s /\ s <= h THEN 1 ELSE 0
  BY CommitExtends
<1>2. /\ table' = [s \in Seqs |-> table[s] + RowsOf(taken, s)] /\ published' = published
      /\ table \in [Seqs -> Nat]
  BY DEF CommitBatch, Safe, TypeOK
<1> HIDE DEF h
<1> DEFINE added == {s \in Expected : ckpt < s /\ s <= h}
<1>3. added # {}
  BY <1>1
<1>4. \A s \in Seqs : table[s] + RowsOf(taken, s) = IF s \in added THEN table[s] + 1 ELSE table[s]
  <2> TAKE s \in Seqs
  <2>1. table[s] \in Nat
    BY <1>2
  <2>2. CASE s \in added
    BY <1>1, <2>2
  <2>3. CASE s \notin added
    <3>1. RowsOf(taken, s) = 0
      BY <1>1, <2>3
    <3> QED BY <2>1, <2>3, <3>1
  <2> QED BY <2>2, <2>3
<1>5. table' = [s \in 1..MaxSeq |-> IF s \in added THEN table[s] + 1 ELSE table[s]]
  BY <1>2, <1>4 DEF Seqs
<1> QED BY <1>1, <1>2, <1>3, <1>5 DEF ExactlyOnce!Extend, h

\* Every step of the pipeline is a step of the promise or invisible to it.
LEMMA StepImplements ==
  ASSUME Safe, InOrder, [Next]_vars
  PROVE  [ExactlyOnce!Next]_(ExactlyOnce!vars)
<1>1. CASE CommitBatch
  <2>1. HighWater(taken) \in 1..MaxSeq
    BY <1>1, CommitExtends DEF Seqs
  <2> QED BY <1>1, <2>1, CommitIsExtend DEF ExactlyOnce!Next
<1>2. CASE Publish
  <2>1. ExactlyOnce!Publish
    BY <1>2 DEF Publish, durable, ExactlyOnce!Publish
  <2> QED BY <2>1 DEF ExactlyOnce!Next
<1>3. CASE Next /\ ~CommitBatch /\ ~Publish
  <2>1. UNCHANGED <<published, ckpt, table>>
    BY <1>3 DEF Next, Deliver, Redeliver, LoseInFlight, ZombieReceives, ZombieJoined,
       ConsumerExpires, PrefetchPush, FetchBatch, ProcessBatch, AckOne, StopWorker, WorkerFails,
       Crash, LaunchBinding, LaunchRecreating, StartWorker, durable
  <2> QED BY <2>1 DEF ExactlyOnce!vars
<1>4. CASE UNCHANGED vars
  BY <1>4 DEF vars, durable, ExactlyOnce!vars
<1> QED BY <1>1, <1>2, <1>3, <1>4

\* Exactly once, as the user sees it: over every redelivery, crash, stop and relaunch the
\* table is loaded with a growing prefix of the stream, each message of it once.
THEOREM LoadsThePrefixOnce ==
  ASSUME ~LossyLink, ~EarlyTakeover PROVE Spec => ImplementsExactlyOnce
<1>1. Init => ExactlyOnce!Init
  BY DEF Init, Seqs, ExactlyOnce!Init
<1>2. Safe /\ InOrder /\ [Next]_vars => [ExactlyOnce!Next]_(ExactlyOnce!vars)
  BY StepImplements
<1>3. Spec => []InOrder
  BY OrderAlways DEF FifoLink
<1> QED BY <1>1, <1>2, <1>3, SafeAlways, PTL DEF Spec, ImplementsExactlyOnce, ExactlyOnce!Spec
=============================================================================
