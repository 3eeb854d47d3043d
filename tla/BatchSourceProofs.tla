-------------------------- MODULE BatchSourceProofs --------------------------
(***************************************************************************)
(* What BatchSource promises for every number of messages, batch size and  *)
(* number of connection losses: its variables keep their types, every      *)
(* message is in one place and handed over in order, and no error hides a  *)
(* batch.                                                                  *)
(***************************************************************************)
EXTENDS BatchSource, TLAPS

\* The queue holds at most one batch.
QueueOK == batches = <<>> \/ \E b \in SUBSET (1..delivered) : batches = <<b>>

\* A batch is in the queue only while the prefetch thread has none and did not fail.
ThreadOK ==
  /\ hand # {} => thread \in {"fetching", "holding"}
  /\ batches # <<>> => thread \in {"looking", "asleep", "done"} /\ ~error
  /\ error => thread = "done"

\* The worker waits with nothing left, and goes only when it has set prefetch_stop_.
WorkerOK ==
  /\ worker = "waiting" => messages = {}
  /\ worker \in {"stopped", "joining", "gone"} => stop
  /\ conn # "up" => drops > 0

BatchInv == TypeOK /\ QueueOK /\ ThreadOK /\ WorkerOK /\ HandedOverInOrder

\* What the queue holds, for each shape of the queue.
LEMMA QueuedIs ==
  /\ batches = <<>> => Queued = {}
  /\ \A b : batches = <<b>> => Queued = b
<1>1. ASSUME batches = <<>> PROVE Queued = {}
  BY <1>1 DEF Queued
<1>2. ASSUME NEW b, batches = <<b>> PROVE Queued = b
  <2>1. Len(batches) = 1 /\ batches[1] = b
    BY <1>2
  <2>2. {batches[i] : i \in 1..Len(batches)} = {b}
    BY <2>1
  <2> QED
    BY <2>2 DEF Queued
<1> QED
  BY <1>1, <1>2

\* The same of the next state.
LEMMA QueuedIsNext ==
  /\ batches' = <<>> => Queued' = {}
  /\ \A b : batches' = <<b>> => Queued' = b
<1>1. ASSUME batches' = <<>> PROVE Queued' = {}
  BY <1>1 DEF Queued
<1>2. ASSUME NEW b, batches' = <<b>> PROVE Queued' = b
  <2>1. Len(batches') = 1 /\ batches'[1] = b
    BY <1>2
  <2>2. {batches'[i] : i \in 1..Len(batches')} = {b}
    BY <2>1
  <2> QED
    BY <2>2 DEF Queued
<1> QED
  BY <1>1, <1>2

\* A step that leaves the queue alone leaves what it holds alone.
LEMMA QueuedStays == batches' = batches => Queued' = Queued
BY DEF Queued

LEMMA InitOK == Init => BatchInv
<1> SUFFICES ASSUME Init PROVE BatchInv
  OBVIOUS
<1>1. Queued = {}
  BY QueuedIs DEF Init
<1>2. TypeOK
  <2>1. batches \in Seq(SUBSET (1..delivered))
    BY DEF Init
  <2>2. published \in 0..MaxMessages /\ drops \in 0..MaxDrops
    BY BatchSourceAssumption DEF BatchSourceAssumption, Init
  <2>3. delivered \in 0..published /\ 1..delivered = {}
    BY DEF Init
  <2>4. error \in BOOLEAN /\ stop \in BOOLEAN
    BY DEF Init
  <2>5. /\ hand = {} /\ messages = {} /\ taken = {} /\ lost = {}
        /\ conn = "up" /\ thread = "looking" /\ worker = "working"
    BY DEF Init
  <2> QED
    BY <2>1, <2>2, <2>3, <2>4, <2>5 DEF TypeOK
<1>3. HandedOverInOrder
  BY <1>1 DEF Init, HandedOverInOrder
<1> QED
  BY <1>2, <1>3 DEF Init, BatchInv, QueueOK, ThreadOK, WorkerOK

\* Messages are sent, or lost, with the connection.
LEMMA StreamStepOK ==
  BatchInv /\ (Publishes \/ Delivers \/ LinkDrops \/ LinkSettles) => BatchInv'
<1> SUFFICES ASSUME BatchInv, Publishes \/ Delivers \/ LinkDrops \/ LinkSettles
             PROVE  BatchInv'
  OBVIOUS
<1> USE BatchSourceAssumption DEF BatchSourceAssumption, shared, caller, stream
<1>0. batches' = batches /\ delivered' \in {delivered, delivered + 1} /\ published' >= published
  BY DEF Publishes, Delivers, LinkDrops, LinkSettles, BatchInv, TypeOK
<1>1. QueueOK'
  BY <1>0 DEF BatchInv, TypeOK, QueueOK
<1>2. batches' \in Seq(SUBSET (1..delivered'))
  <2>1. CASE batches' = <<>>
    BY <2>1
  <2>2. CASE \E b \in SUBSET (1..delivered') : batches' = <<b>>
    BY <2>2
  <2> QED
    BY <1>1, <2>1, <2>2 DEF QueueOK
<1>3. TypeOK'
  <2>1. CASE Publishes
    BY <1>0, <1>2, <2>1 DEF Publishes, BatchInv, TypeOK
  <2>2. CASE Delivers
    BY <1>0, <1>2, <2>2 DEF Delivers, BatchInv, TypeOK
  <2>3. CASE LinkDrops
    <3>1. /\ drops' \in 0..MaxDrops
          /\ delivered' \in 0..published' /\ 1..delivered \subseteq 1..delivered'
      BY <1>0, <2>3 DEF LinkDrops, BatchInv, TypeOK
    <3>2. lost' \subseteq 1..delivered'
      <4>1. lost \subseteq 1..delivered'
        BY <3>1 DEF BatchInv, TypeOK
      <4>2. CASE lost' = lost
        BY <4>1, <4>2
      <4>3. CASE delivered' = delivered + 1 /\ lost' = lost \union {delivered'}
        <5>1. delivered' \in 1..delivered'
          BY <4>3 DEF BatchInv, TypeOK
        <5> QED
          BY <4>1, <4>3, <5>1
      <4> QED
        BY <2>3, <4>2, <4>3 DEF LinkDrops
    <3> QED
      BY <1>0, <1>2, <2>3, <3>1, <3>2 DEF LinkDrops, BatchInv, TypeOK
  <2>4. CASE LinkSettles
    BY <1>0, <1>2, <2>4 DEF LinkSettles, BatchInv, TypeOK
  <2> QED
    BY <2>1, <2>2, <2>3, <2>4
<1>4. ThreadOK'
  BY DEF Publishes, Delivers, LinkDrops, LinkSettles, BatchInv, ThreadOK
<1>5. WorkerOK'
  <2>1. drops' >= drops /\ (conn' # "up" => drops' > 0)
    BY DEF Publishes, Delivers, LinkDrops, LinkSettles, BatchInv, WorkerOK, TypeOK
  <2> QED
    BY <2>1 DEF Publishes, Delivers, LinkDrops, LinkSettles, BatchInv, WorkerOK
<1>6. Queued' = Queued /\ Queued \subseteq 1..delivered
  BY <1>0, QueuedStays, QueuedIs DEF BatchInv, QueueOK
<1>7. HandedOverInOrder'
  <2>1. CASE Publishes
    BY <2>1, <1>6 DEF Publishes, BatchInv, HandedOverInOrder
  <2>2. CASE Delivers
    <3>1. Queued = {}
      BY <2>2, QueuedIs DEF Delivers, BatchInv, ThreadOK
    <3>2. 1..delivered' = 1..delivered \union {delivered'}
      BY <2>2 DEF Delivers, BatchInv, TypeOK
    <3> QED
      BY <2>2, <1>6, <3>1, <3>2 DEF Delivers, BatchInv, TypeOK, HandedOverInOrder
  <2>3. CASE LinkDrops
    <3>1. CASE UNCHANGED <<delivered, lost>>
      BY <2>3, <3>1, <1>6 DEF LinkDrops, BatchInv, TypeOK, HandedOverInOrder
    <3>2. CASE delivered' = delivered + 1 /\ lost' = lost \union {delivered'}
      <4>1. 1..delivered' = 1..delivered \union {delivered'}
        BY <3>2 DEF BatchInv, TypeOK
      <4> QED
        BY <2>3, <3>2, <1>6, <4>1 DEF LinkDrops, BatchInv, TypeOK, HandedOverInOrder
    <3> QED
      BY <2>3, <3>1, <3>2 DEF LinkDrops
  <2>4. CASE LinkSettles
    BY <2>4, <1>6 DEF LinkSettles, BatchInv, HandedOverInOrder
  <2> QED
    BY <2>1, <2>2, <2>3, <2>4
<1> QED
  BY <1>1, <1>3, <1>4, <1>5, <1>7 DEF BatchInv

\* The prefetch thread looks, fetches and fails.
LEMMA FetchStepOK ==
  BatchInv /\ (Looks \/ FetchReturns \/ FetchEmpty \/ FetchRetries \/ FetchFails) => BatchInv'
<1> SUFFICES ASSUME BatchInv, Looks \/ FetchReturns \/ FetchEmpty \/ FetchRetries \/ FetchFails
             PROVE  BatchInv'
  OBVIOUS
<1> USE DEF shared, caller, stream
<1>0. UNCHANGED <<batches, delivered, published, messages, taken, worker, stop, conn, drops>>
  BY DEF Looks, FetchReturns, FetchEmpty, FetchRetries, FetchFails
<1>1. QueueOK' /\ WorkerOK'
  BY <1>0 DEF BatchInv, QueueOK, WorkerOK
<1>2. TypeOK'
  BY <1>0 DEF Looks, FetchReturns, FetchEmpty, FetchRetries, FetchFails, BatchInv, TypeOK
<1>3. ThreadOK'
  BY <1>0 DEF Looks, FetchReturns, FetchEmpty, FetchRetries, FetchFails, BatchInv, ThreadOK
<1>4. Queued' = Queued
  BY <1>0, QueuedStays
<1>5. HandedOverInOrder'
  <2>1. CASE UNCHANGED <<hand, lost, error>>
    BY <1>0, <1>4, <2>1 DEF BatchInv, HandedOverInOrder
  <2>2. CASE /\ thread = "fetching" /\ hand' = {} /\ lost' = lost \union hand
             /\ error' \/ (error' = error /\ (hand # {} => drops > 0))
    <3>1. Queued = {}
      BY <2>2, QueuedIs DEF BatchInv, ThreadOK
    <3> QED
      BY <1>0, <1>4, <2>2, <3>1 DEF BatchInv, HandedOverInOrder, WorkerOK, TypeOK
  <2> QED
    BY <2>1, <2>2 DEF Looks, FetchReturns, FetchEmpty, FetchRetries, FetchFails
<1> QED
  BY <1>1, <1>2, <1>3, <1>5 DEF BatchInv

\* The prefetch thread hands its batch over, or destroys it.
LEMMA PushesOK == BatchInv /\ Pushes => BatchInv'
<1> SUFFICES ASSUME BatchInv, Pushes PROVE BatchInv'
  OBVIOUS
<1> USE DEF shared, caller, stream
<1>1. thread = "holding" /\ batches = <<>> /\ ~error
  BY DEF Pushes, BatchInv, ThreadOK
<1>2. Queued = {}
  BY <1>1, QueuedIs
<1>3. CASE /\ stop /\ lost' = lost \union hand /\ thread' = "done" /\ batches' = batches
  <2>1. Queued' = {}
    BY <1>1, <1>3, QueuedIsNext
  <2>2. QueueOK' /\ TypeOK'
    BY <1>1, <1>3 DEF Pushes, BatchInv, TypeOK, QueueOK
  <2>3. ThreadOK' /\ WorkerOK'
    BY <1>1, <1>3 DEF Pushes, BatchInv, ThreadOK, WorkerOK
  <2>4. HandedOverInOrder'
    BY <1>2, <1>3, <2>1 DEF Pushes, BatchInv, HandedOverInOrder
  <2> QED
    BY <2>2, <2>3, <2>4 DEF BatchInv
<1>4. CASE /\ ~stop /\ batches' = Append(batches, hand) /\ thread' = "looking" /\ lost' = lost
  <2>1. batches' = <<hand>>
    BY <1>1, <1>4
  <2>2. Queued' = hand
    BY <2>1, QueuedIsNext
  <2>3. QueueOK' /\ TypeOK'
    BY <1>4, <2>1 DEF Pushes, BatchInv, TypeOK, QueueOK
  <2>4. ThreadOK' /\ WorkerOK'
    BY <1>1, <1>4 DEF Pushes, BatchInv, ThreadOK, WorkerOK
  <2>5. HandedOverInOrder'
    BY <1>2, <1>4, <2>2 DEF Pushes, BatchInv, HandedOverInOrder
  <2> QED
    BY <2>3, <2>4, <2>5 DEF BatchInv
<1> QED
  BY <1>3, <1>4 DEF Pushes

\* The worker's steps that move no message.
LEMMA WorkerMovesOK ==
  BatchInv /\ (Waits \/ Tells \/ TimesOut \/ Rethrows \/ Joins \/ Ends) => BatchInv'
<1> SUFFICES ASSUME BatchInv, Waits \/ Tells \/ TimesOut \/ Rethrows \/ Joins \/ Ends
             PROVE  BatchInv'
  OBVIOUS
<1> USE DEF shared, caller, stream, Leaves, Notified
<1>0. UNCHANGED <<stream, hand, batches, error, messages, taken, lost>>
  BY DEF Waits, Tells, TimesOut, Rethrows, Joins, Ends
<1>1. Queued' = Queued
  BY <1>0, QueuedStays
<1>2. TypeOK' /\ QueueOK'
  BY <1>0 DEF Waits, Tells, TimesOut, Rethrows, Joins, Ends, BatchInv, TypeOK, QueueOK
<1>3. ThreadOK' /\ WorkerOK'
  BY <1>0 DEF Waits, Tells, TimesOut, Rethrows, Joins, Ends, BatchInv, ThreadOK, WorkerOK
<1>4. stop => stop'
  BY DEF Waits, Tells, TimesOut, Rethrows, Joins, Ends
<1>5. HandedOverInOrder'
  BY <1>0, <1>1, <1>4 DEF BatchInv, HandedOverInOrder
<1> QED
  BY <1>2, <1>3, <1>5 DEF BatchInv

\* The worker takes the batch of the queue.
LEMMA TakesOK == BatchInv /\ Takes => BatchInv'
<1> SUFFICES ASSUME BatchInv, Takes PROVE BatchInv'
  OBVIOUS
<1> USE DEF shared, caller, stream
<1>1. PICK b \in SUBSET (1..delivered) : batches = <<b>>
  BY DEF Takes, BatchInv, QueueOK
<1>2. messages' = b /\ batches' = <<>> /\ messages = {} /\ hand = {}
  BY <1>1 DEF Takes, BatchInv, WorkerOK, ThreadOK
<1>3. Queued = b /\ Queued' = {}
  BY <1>1, <1>2, QueuedIs, QueuedIsNext
<1>4. TypeOK' /\ QueueOK'
  BY <1>2 DEF Takes, BatchInv, TypeOK, QueueOK
<1>5. ThreadOK' /\ WorkerOK'
  BY <1>2 DEF Takes, BatchInv, ThreadOK, WorkerOK
<1>6. HandedOverInOrder'
  BY <1>2, <1>3 DEF Takes, BatchInv, HandedOverInOrder
<1> QED
  BY <1>4, <1>5, <1>6 DEF BatchInv

\* The worker takes a message.
LEMMA TakesNextOK == BatchInv /\ TakesNext => BatchInv'
<1> SUFFICES ASSUME BatchInv, TakesNext PROVE BatchInv'
  OBVIOUS
<1> USE DEF shared, caller, stream
<1>1. PICK m \in messages : /\ \A n \in messages : m <= n
                            /\ taken' = taken \union {m}
                            /\ messages' = messages \ {m}
  BY DEF TakesNext
<1>2. Queued' = Queued
  BY QueuedStays DEF TakesNext
<1>3. TypeOK' /\ QueueOK'
  BY <1>1 DEF TakesNext, BatchInv, TypeOK, QueueOK
<1>4. ThreadOK' /\ WorkerOK'
  BY <1>1 DEF TakesNext, BatchInv, ThreadOK, WorkerOK
<1>5. \A n \in messages' : m < n
  BY <1>1 DEF BatchInv, TypeOK
<1>6. HandedOverInOrder'
  BY <1>1, <1>2, <1>5 DEF TakesNext, BatchInv, HandedOverInOrder
<1> QED
  BY <1>3, <1>4, <1>6 DEF BatchInv

\* The destructor destroys what is left.
LEMMA DestroysOK == BatchInv /\ Destroys => BatchInv'
<1> SUFFICES ASSUME BatchInv, Destroys PROVE BatchInv'
  OBVIOUS
<1> USE DEF shared, caller, stream
<1>1. Queued' = {} /\ hand = {} /\ stop /\ Queued \subseteq 1..delivered
  BY QueuedIs, QueuedIsNext DEF Destroys, BatchInv, ThreadOK, WorkerOK, QueueOK
<1>2. TypeOK' /\ QueueOK'
  BY <1>1 DEF Destroys, BatchInv, TypeOK, QueueOK
<1>3. ThreadOK' /\ WorkerOK'
  BY <1>1 DEF Destroys, BatchInv, ThreadOK, WorkerOK
<1>4. HandedOverInOrder'
  BY <1>1 DEF Destroys, BatchInv, HandedOverInOrder
<1> QED
  BY <1>2, <1>3, <1>4 DEF BatchInv

\* A step that changes nothing.
LEMMA StutterOK == BatchInv /\ UNCHANGED vars => BatchInv'
BY QueuedStays
DEF BatchInv, vars, stream, shared, caller, TypeOK, QueueOK, ThreadOK, WorkerOK, HandedOverInOrder

THEOREM BatchInvariant == Spec => []BatchInv
<1>1. BatchInv /\ [Next]_vars => BatchInv'
  BY StreamStepOK, FetchStepOK, PushesOK, WorkerMovesOK, TakesOK, TakesNextOK, DestroysOK,
     StutterOK
  DEF Next, ThreadStep, WorkerStep
<1> QED
  BY <1>1, InitOK, PTL DEF Spec

\* The variables of the batch source keep their types: what it holds are messages that the
\* consumer has sent.
THEOREM BatchTypeCorrect == Spec => []TypeOK
<1>1. BatchInv => TypeOK
  BY DEF BatchInv
<1> QED
  BY <1>1, BatchInvariant, PTL

\* Every message is in one place at a time and handed over in order, for any number of
\* messages and connection losses (nats_source.cpp:162-243).
THEOREM EveryMessageOnce == Spec => []HandedOverInOrder
<1>1. BatchInv => HandedOverInOrder
  BY DEF BatchInv
<1> QED
  BY <1>1, BatchInvariant, PTL

\* At most one batch is ahead of the worker, and an error is never set beside it
\* (nats_source.cpp:173-182, 215, 226-229).
THEOREM ErrorHidesNoBatch == Spec => []OneBatchAhead
<1>1. BatchInv => OneBatchAhead
  BY DEF BatchInv, QueueOK, ThreadOK, OneBatchAhead
<1> QED
  BY <1>1, BatchInvariant, PTL

-----------------------------------------------------------------------------
(* No notification is missed.                                              *)

\* While the prefetch thread sleeps, there is a batch for the worker to take, or the worker
\* has yet to notify it: after the batch it took, or after it set prefetch_stop_.
SleeperWillBeWoken ==
  thread = "asleep" => \/ batches # <<>> /\ ~stop
                       \/ worker \in {"took", "stopped"}

\* What a thread finds when it goes to sleep stays so until a step that notifies it.
LEMMA SleeperStep == BatchInv /\ SleeperWillBeWoken /\ [Next]_vars => SleeperWillBeWoken'
<1> SUFFICES ASSUME BatchInv, SleeperWillBeWoken, [Next]_vars PROVE SleeperWillBeWoken'
  OBVIOUS
<1>1. CASE ThreadStep
  <2>1. CASE Looks
    <3>1. thread' = "asleep" => batches # <<>> /\ ~stop
      BY <2>1 DEF Looks
    <3> QED
      BY <2>1, <3>1 DEF Looks, shared, SleeperWillBeWoken
  <2>2. CASE FetchReturns \/ Pushes
    BY <2>2 DEF FetchReturns, Pushes, SleeperWillBeWoken
  <2> QED
    BY <1>1, <2>1, <2>2 DEF ThreadStep
<1>2. CASE FetchEmpty \/ FetchRetries \/ FetchFails \/ Publishes \/ Delivers \/ LinkDrops
             \/ LinkSettles
  BY <1>2 DEF FetchEmpty, FetchRetries, FetchFails, Publishes, Delivers, LinkDrops, LinkSettles,
     shared, caller, SleeperWillBeWoken
<1>3. CASE Waits \/ TakesNext \/ TimesOut
  BY <1>3 DEF Waits, TakesNext, TimesOut, shared, SleeperWillBeWoken
<1>4. CASE Takes
  BY <1>4 DEF Takes, SleeperWillBeWoken
<1>5. CASE Tells \/ Joins
  BY <1>5 DEF Tells, Joins, Notified, SleeperWillBeWoken
<1>6. CASE Rethrows \/ Ends
  BY <1>6 DEF Rethrows, Ends, Leaves, SleeperWillBeWoken
<1>7. CASE Destroys
  BY <1>7 DEF Destroys, SleeperWillBeWoken
<1>8. CASE UNCHANGED vars
  BY <1>8 DEF vars, shared, caller, SleeperWillBeWoken
<1> QED
  BY <1>1, <1>2, <1>3, <1>4, <1>5, <1>6, <1>7, <1>8 DEF Next, WorkerStep

\* The prefetch thread never sleeps without somebody who will wake it, although the worker
\* and the destructor notify it outside the mutex (nats_source.cpp:72-86, 182-183, 209-215).
THEOREM NoNotificationIsMissed == Spec => []SleeperWillBeWoken
<1>1. Init => SleeperWillBeWoken
  BY DEF Init, SleeperWillBeWoken
<1> QED
  BY <1>1, BatchInvariant, SleeperStep, PTL DEF Spec
==============================================================================
