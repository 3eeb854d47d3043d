----------------------------- MODULE BatchSource -----------------------------
(***************************************************************************)
(* The JetStream batch source of an ingest worker                          *)
(* (src/src/nats_source.cpp): a prefetch thread pulls batches of messages  *)
(* from the consumer and hands them over, one at a time, to the worker,    *)
(* which takes the messages one by one, and destroys the source when it is *)
(* done or fails.                                                          *)
(*                                                                         *)
(* What is done while prefetch_mutex_ is held is one step.  The prefetch   *)
(* thread sleeps in prefetch_cv_.wait until it is notified, and a          *)
(* notify_all after the mutex is released is a step of its own.  The       *)
(* worker waits with a time limit, so that a notification only shortens    *)
(* its wait.  Redelivery of what is lost is the concern of IngestPipeline. *)
(***************************************************************************)
EXTENDS Integers, Sequences, FiniteSets

CONSTANTS
  MaxMessages,  \* bound on the messages of the stream
  BatchSize,    \* prefetch_batch_size_
  MaxDrops      \* bound on how often the connection drops

ASSUME BatchSourceAssumption ==
  /\ MaxMessages \in Nat
  /\ BatchSize \in Nat \ {0}
  /\ MaxDrops \in Nat

VARIABLES
  published,  \* the stream has the messages 1..published
  delivered,  \* the consumer has sent the messages 1..delivered
  conn,       \* the connection: up, down (reconnecting) or closed
  drops,      \* how often it dropped
  thread,     \* the prefetch thread
  hand,       \* the local batch of PrefetchLoop
  batches,    \* prefetch_batches_
  error,      \* prefetch_error_ is set
  stop,       \* prefetch_stop_
  worker,     \* the thread that owns the source
  messages,   \* messages_ from next_index_ on
  taken,      \* history: messages that Next has returned
  lost        \* history: messages that were sent and then lost or destroyed

stream == <<published, delivered, conn, drops>>
shared == <<batches, error, stop>>
caller == <<worker, messages, taken>>
vars   == <<stream, thread, hand, shared, caller, lost>>

Messages == 1..MaxMessages

\* What prefetch_batches_ holds.
Queued == UNION {batches[i] : i \in 1..Len(batches)}

Init ==
  /\ published = 0 /\ delivered = 0 /\ conn = "up" /\ drops = 0
  /\ thread = "looking" /\ hand = {}
  /\ batches = <<>> /\ error = FALSE /\ stop = FALSE
  /\ worker = "working" /\ messages = {} /\ taken = {}
  /\ lost = {}

-----------------------------------------------------------------------------
\* The stream and the connection.

Publishes ==
  /\ published < MaxMessages
  /\ published' = published + 1
  /\ UNCHANGED <<delivered, conn, drops, thread, hand, shared, caller, lost>>

\* A message arrives for the fetch that is waiting.
Delivers ==
  /\ thread = "fetching" /\ conn = "up"
  /\ delivered < published /\ Cardinality(hand) < BatchSize
  /\ delivered' = delivered + 1
  /\ hand' = hand \union {delivered'}
  /\ UNCHANGED <<published, conn, drops, thread, shared, caller, lost>>

\* The link fails, with or without a message on its way.
LinkDrops ==
  /\ conn = "up" /\ drops < MaxDrops
  /\ conn' = "down"
  /\ drops' = drops + 1
  /\ \/ UNCHANGED <<delivered, lost>>
     \/ /\ thread = "fetching" /\ delivered < published
        /\ delivered' = delivered + 1
        /\ lost' = lost \union {delivered'}
  /\ UNCHANGED <<published, thread, hand, shared, caller>>

\* The client reconnects, or gives up and closes the connection.
LinkSettles ==
  /\ conn = "down"
  /\ conn' \in {"up", "closed"}
  /\ UNCHANGED <<published, delivered, drops, thread, hand, shared, caller, lost>>

-----------------------------------------------------------------------------
\* PrefetchLoop.

\* A prefetch thread that fetches the next batch before the last one is taken.
LooksEager ==
  /\ thread = "looking"
  /\ thread' = IF stop THEN "done" ELSE "fetching"
  /\ UNCHANGED <<stream, hand, shared, caller, lost>>

\* The wait for an empty queue or for the stop.
Looks ==
  /\ thread = "looking"
  /\ thread' = CASE stop -> "done"
                 [] ~stop /\ batches = <<>> -> "fetching"
                 [] OTHER -> "asleep"
  /\ UNCHANGED <<stream, hand, shared, caller, lost>>

\* Fetch returns messages: the batch is full, or the request expired.
FetchReturns ==
  /\ thread = "fetching" /\ hand # {}
  /\ thread' = "holding"
  /\ UNCHANGED <<stream, hand, shared, caller, lost>>

\* The request expires with nothing.  Over a live link the server answers it
\* with what the stream has.
FetchEmpty ==
  /\ thread = "fetching" /\ hand = {} /\ conn # "closed"
  /\ conn = "up" => delivered = published
  /\ thread' = "looking"
  /\ UNCHANGED <<stream, hand, shared, caller, lost>>

\* A transient failure while the connection is not closed: the link is down,
\* or failed before, or the server refuses the request (NATS_LIMIT_REACHED).
\* The list is destroyed, and Fetch tries again without a look at
\* prefetch_stop_.
FetchRetries ==
  /\ thread = "fetching" /\ conn # "closed"
  /\ hand # {} => drops > 0
  /\ hand' = {}
  /\ lost' = lost \union hand
  /\ UNCHANGED <<stream, thread, shared, caller>>

\* Any other failure, and every failure when the connection is closed.
FetchFails ==
  /\ thread = "fetching"
  /\ error' = TRUE
  /\ hand' = {}
  /\ lost' = lost \union hand
  /\ thread' = "done"
  /\ UNCHANGED <<stream, batches, stop, caller>>

Pushes ==
  /\ thread = "holding"
  /\ hand' = {}
  /\ \/ /\ stop
        /\ lost' = lost \union hand
        /\ thread' = "done"
        /\ UNCHANGED batches
     \/ /\ ~stop
        /\ batches' = Append(batches, hand)
        /\ thread' = "looking"
        /\ UNCHANGED lost
  /\ UNCHANGED <<stream, error, stop, caller>>

-----------------------------------------------------------------------------
\* The worker: FetchBatch, Next and the destructor.

\* notify_all on prefetch_cv_.
Notified == IF thread = "asleep" THEN "looking" ELSE thread

\* FetchBatch called with messages left, which it destroys.
WaitsEarly ==
  /\ worker = "working"
  /\ worker' = "waiting"
  /\ messages' = {}
  /\ lost' = lost \union messages
  /\ UNCHANGED <<stream, thread, hand, shared, taken>>

\* FetchBatch begins: HasBufferedMessages was false.
Waits ==
  /\ worker = "working" /\ messages = {}
  /\ worker' = "waiting"
  /\ UNCHANGED <<stream, thread, hand, shared, messages, taken, lost>>

\* FetchBatch takes the batch and releases the mutex.
Takes ==
  /\ worker = "waiting" /\ ~error /\ batches # <<>>
  /\ messages' = Head(batches)
  /\ batches' = Tail(batches)
  /\ worker' = "took"
  /\ UNCHANGED <<stream, thread, hand, error, stop, taken, lost>>

\* A FetchBatch that leaves the prefetch thread asleep.
TellsNobody ==
  /\ worker = "took"
  /\ worker' = "working"
  /\ UNCHANGED <<stream, thread, hand, shared, messages, taken, lost>>

\* FetchBatch notifies and returns.
Tells ==
  /\ worker = "took"
  /\ thread' = Notified
  /\ worker' = "working"
  /\ UNCHANGED <<stream, hand, shared, messages, taken, lost>>

\* The wait ends with nothing.
TimesOut ==
  /\ worker = "waiting" /\ ~error /\ batches = <<>>
  /\ worker' = "working"
  /\ UNCHANGED <<stream, thread, hand, shared, messages, taken, lost>>

\* Next: the worker writes and acknowledges the message.
TakesNext ==
  /\ worker = "working" /\ messages # {}
  /\ \E m \in messages :
       /\ \A n \in messages : m <= n
       /\ taken' = taken \union {m}
       /\ messages' = messages \ {m}
  /\ UNCHANGED <<stream, thread, hand, shared, worker, lost>>

\* The destructor begins: it sets prefetch_stop_.
Leaves(from) ==
  /\ worker = from
  /\ stop' = TRUE
  /\ worker' = "stopped"
  /\ UNCHANGED <<stream, thread, hand, batches, error, messages, taken, lost>>

\* The worker is stopped, or fails with an exception of its own.
Ends == Leaves("working")

\* FetchBatch rethrows the error of the prefetch thread.
Rethrows ==
  /\ error
  /\ Leaves("waiting")

\* A destructor that does not wake the prefetch thread.
JoinsSilently ==
  /\ worker = "stopped"
  /\ worker' = "joining"
  /\ UNCHANGED <<stream, thread, hand, shared, messages, taken, lost>>

\* The destructor notifies.
Joins ==
  /\ worker = "stopped"
  /\ thread' = Notified
  /\ worker' = "joining"
  /\ UNCHANGED <<stream, hand, shared, messages, taken, lost>>

\* join returns; what is left is destroyed.
Destroys ==
  /\ worker = "joining" /\ thread = "done"
  /\ lost' = lost \union messages \union Queued
  /\ messages' = {}
  /\ batches' = <<>>
  /\ worker' = "gone"
  /\ UNCHANGED <<stream, thread, hand, error, stop, taken>>

-----------------------------------------------------------------------------
\* The scheduling that is assumed: threads run, the worker handles each
\* message, a client that lost its link reconnects or closes, and over a live
\* link a request is answered or expires in the end: a server that refused
\* every request would keep Fetch in its retries, and the destructor in join.

ThreadStep == Looks \/ FetchReturns \/ Pushes

WorkerStep ==
  Waits \/ Takes \/ Tells \/ TimesOut \/ TakesNext \/ Rethrows \/ Joins \/ Destroys

Next ==
  \/ Publishes \/ Delivers \/ LinkDrops \/ LinkSettles
  \/ ThreadStep \/ FetchEmpty \/ FetchRetries \/ FetchFails
  \/ WorkerStep \/ Ends

Fairness ==
  /\ WF_vars(ThreadStep)
  /\ WF_vars(conn = "up" /\ FetchEmpty)
  /\ WF_vars(conn = "closed" /\ FetchFails)
  /\ WF_vars(Delivers)
  /\ WF_vars(LinkSettles)
  /\ WF_vars(WorkerStep)

Spec == Init /\ [][Next]_vars /\ Fairness

-----------------------------------------------------------------------------
\* Each variable has its type.
TypeOK ==
  /\ published \in 0..MaxMessages /\ delivered \in 0..published
  /\ conn \in {"up", "down", "closed"} /\ drops \in 0..MaxDrops
  /\ thread \in {"looking", "asleep", "fetching", "holding", "done"}
  /\ hand \subseteq 1..delivered
  /\ batches \in Seq(SUBSET (1..delivered))
  /\ error \in BOOLEAN /\ stop \in BOOLEAN
  /\ worker \in {"working", "waiting", "took", "stopped", "joining", "gone"}
  /\ messages \subseteq 1..delivered
  /\ taken \subseteq 1..delivered /\ lost \subseteq 1..delivered

\* A message that was sent is taken, or held in exactly one place, or lost;
\* the worker takes the messages in the order of the stream; and as long as
\* the link has not failed and the source is neither failed nor stopped,
\* nothing is lost (nats_source.cpp:162-243).
HandedOverInOrder ==
  /\ 1..delivered = taken \union messages \union Queued \union hand \union lost
  /\ \A m \in taken : m \notin lost /\ (\A n \in messages \union Queued \union hand : m < n)
  /\ \A m \in messages : m \notin lost /\ (\A n \in Queued \union hand : m < n)
  /\ \A m \in Queued : m \notin lost /\ (\A n \in hand : m < n)
  /\ hand \intersect lost = {}
  /\ drops = 0 /\ ~error /\ ~stop => lost = {}

\* At most one batch is fetched ahead of the worker, and the error that
\* FetchBatch looks at first never hides a batch that was fetched before it
\* (nats_source.cpp:173-182, 215, 226-229).
OneBatchAhead ==
  /\ Len(batches) <= 1
  /\ batches # <<>> => hand = {} /\ ~error

\* A message of the stream reaches the worker, unless it was lost, the
\* connection failed or the source is stopped: no notification is missed
\* between the two threads.
PublishedIsTaken ==
  \A m \in Messages :
    (m <= published) ~> (m \in taken \union lost \/ error \/ stop)

\* The destructor returns: the prefetch thread sees prefetch_stop_, even when
\* it is asleep, in a fetch, or between the two, or retries over a failed link;
\* and an error of the prefetch thread reaches the worker, which is destroyed
\* as well (nats_source.cpp:72-86, 173-175, 211-243).
DestructorReturns == (stop \/ error) ~> (worker = "gone")
==============================================================================
