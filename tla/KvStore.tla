------------------------------- MODULE KvStore -------------------------------
(***************************************************************************)
(* The SQL functions on a KV bucket (src/src/nats_kv.cpp): connections     *)
(* that read, put, create, update and delete, a COPY TO the bucket, and a  *)
(* connection that keeps a mirror of the bucket in a table by repeated     *)
(* nats_kv_scan calls, the first one a full snapshot, later ones with      *)
(* since_revision, the largest revision it has.                            *)
(*                                                                         *)
(* An answer of the server is a step, and may be lost after the server has *)
(* acted.  Values are counters; a connection that updates adds one to what *)
(* it has read.  Time to live is left out.                                 *)
(***************************************************************************)
EXTENDS KvBucket

CONSTANTS
  Writers,       \* SQL connections that write
  Keys,          \* keys of the bucket
  Counters,      \* the keys that are read and updated
  Filter,        \* the keys that key_filter selects
  Removals,      \* ways to remove a key: a tombstone, or a purge
  History,       \* entries the bucket keeps per key
  CopyRows,      \* the rows of the COPY statement: a key, or Null
  Null,
  MaxRevisions,  \* bound on the entries written
  MaxBuckets     \* bound on how often the bucket is created

ASSUME KvStoreAssumption ==
  /\ Counters \subseteq Keys
  /\ Filter \subseteq Keys
  /\ Removals \subseteq {"delete", "purge"}
  /\ History \in Nat \ {0}
  /\ MaxRevisions \in Nat /\ MaxBuckets \in Nat \ {0}
  /\ Null \notin Keys
  /\ CopyRows \in Seq(Keys \union {Null})

VARIABLES
  bucket,      \* the entries of the bucket
  exists,      \* the bucket exists
  created,     \* how often it was created
  dropped,     \* entries written to buckets that were deleted
  read,        \* the entry each writer has read and not used yet
  counted,     \* history: increments reported since a key was last put or deleted
  mirror,      \* the revisions the mirror table has
  cursor,      \* the largest of them
  outdated,    \* history: mirror or scan began with a bucket that is deleted
  scan,        \* where the mirror's scan is
  todo,        \* keys of the listing that are still to be fetched
  rows,        \* revisions in the scan's result
  top,         \* the largest of them
  lastSeq,     \* last_seq
  pos,         \* the revision the pull consumer comes to next
  unseen,      \* history: entries written while a full snapshot was taken, or lost
  copy,        \* where the COPY statement is
  copied       \* the revisions of its rows

server  == <<bucket, exists, created, dropped>>
session == <<read, counted>>
table   == <<mirror, cursor, outdated>>
query   == <<scan, todo, rows, top, lastSeq, pos>>
copying == <<copy, copied>>
vars    == <<server, session, table, query, unseen, copying>>

Revisions == 1..MaxRevisions

Entries == [key : Keys, op : {"put", "delete", "purge"}, value : Nat]

NotRead == [key |-> Null, revision |-> 0, value |-> 0]

LastRevision == Len(bucket)

Put(k, v) == [key |-> k, op |-> "put", value |-> v]

\* The server appends an entry.  A full snapshot that is being taken may miss it.
Appends(e) ==
  /\ exists /\ dropped + LastRevision < MaxRevisions
  /\ bucket' = Append(bucket, e)
  /\ unseen' = IF scan = "keys" THEN unseen \union {Len(bucket')} ELSE unseen
  /\ UNCHANGED <<exists, created, dropped, table, query>>

\* An entry that is not an increment: the count begins again.
Overwrites(k) == counted' = [counted EXCEPT ![k] = 0]

-----------------------------------------------------------------------------
\* The writing connections.

\* NatsKvPutExecute.
KvPut(k) ==
  /\ Appends(Put(k, 0))
  /\ Overwrites(k)
  /\ UNCHANGED <<read, copying>>

\* NatsKvDeleteExecute: a tombstone, or a purge.
KvDelete(k, op) ==
  /\ Appends([key |-> k, op |-> op, value |-> 0])
  /\ Overwrites(k)
  /\ UNCHANGED <<read, copying>>

\* NatsKvGetExecute: no row for a key without a value.
KvGet(w, k) ==
  /\ exists
  /\ read[w] = NotRead
  /\ \/ \E r \in 1..LastRevision :
          /\ IsCurrent(bucket, k, r)
          /\ read' = [read EXCEPT ![w] = [key |-> k, revision |-> r, value |-> bucket[r].value]]
     \/ /\ \A r \in 1..LastRevision : ~IsCurrent(bucket, k, r)
        /\ read' = [read EXCEPT ![w] = [key |-> k, revision |-> 0, value |-> 0]]
  /\ UNCHANGED <<server, counted, table, query, unseen, copying>>

\* An update that is written whatever the key's revision.
MayUpdateAlways(k, expected) == expected > 0

\* The stream has no entry of the key: the last one is always kept.
NeverWritten(k) == \A r \in 1..LastRevision : bucket[r].key # k

\* NatsKvUpdateExecute: the expected revision is the key's newest entry; an expected
\* revision of zero is taken for a key without any entry, be it a tombstone.
MayUpdate(k, expected) ==
  IF expected = 0 THEN NeverWritten(k) ELSE IsNewest(bucket, k, expected)

\* NatsKvCreateExecute: the key has no value.
MayCreate(k) == \A r \in 1..LastRevision : ~IsCurrent(bucket, k, r)

\* A writer that has read adds one with nats_kv_update, or with nats_kv_create when it
\* found no value, and forgets what it read.  The answer may be lost.
KvIncrement(w) ==
  LET k == read[w].key IN
  /\ read[w] # NotRead
  /\ MayUpdate(k, read[w].revision) \/ (read[w].revision = 0 /\ MayCreate(k))
  /\ Appends(Put(k, read[w].value + 1))
  /\ \/ counted' = [counted EXCEPT ![k] = @ + 1]
     \/ UNCHANGED counted
  /\ read' = [read EXCEPT ![w] = NotRead]
  /\ UNCHANGED copying

\* Refused by the server, or not sent: "re-read with nats_kv_get and retry".
KvIncrementFails(w) ==
  /\ read[w] # NotRead
  /\ read' = [read EXCEPT ![w] = NotRead]
  /\ UNCHANGED <<server, counted, table, query, unseen, copying>>

\* NatsKvDeleteBucketExecute: the consumer of a scan is gone with its stream.
KvDeleteBucket ==
  /\ exists
  /\ exists' = FALSE
  /\ bucket' = <<>>
  /\ dropped' = dropped + LastRevision
  /\ counted' = [k \in Keys |-> 0]
  /\ outdated' = (outdated \/ mirror # {} \/ scan # "idle")
  /\ scan' = IF scan = "stream" THEN "gone" ELSE scan
  /\ unseen' = {}
  /\ UNCHANGED <<created, read, mirror, cursor, todo, rows, top, lastSeq, pos, copying>>

\* NatsKvCreateBucketExecute: revisions begin at one again.
KvCreateBucket ==
  /\ ~exists /\ created < MaxBuckets
  /\ exists' = TRUE
  /\ created' = created + 1
  /\ UNCHANGED <<bucket, dropped, session, table, query, unseen, copying>>

-----------------------------------------------------------------------------
\* nats_kv_scan, called by the connection that keeps the mirror.

ForgetsQuery ==
  /\ scan' = "idle" /\ todo' = {} /\ rows' = {} /\ top' = 0
  /\ lastSeq' = 0 /\ pos' = 1

\* NatsKvScanFullSnapshot: the keys that have a value now, or none in time.
ListsKeys ==
  /\ scan = "idle" /\ exists
  /\ cursor = 0
  /\ scan' = "keys"
  /\ \/ todo' = {k \in Filter : \E r \in 1..LastRevision : IsCurrent(bucket, k, r)}
     \/ todo' = {}
  /\ UNCHANGED <<server, session, table, rows, top, lastSeq, pos, unseen, copying>>

\* A row of the result.
Takes(r) ==
  /\ rows' = rows \union {r}
  /\ top' = IF r > top THEN r ELSE top

\* One Get per key; a key without a value by now is left out.
GetsKey(k) ==
  /\ scan = "keys" /\ k \in todo
  /\ todo' = todo \ {k}
  /\ \/ \E r \in 1..LastRevision : IsCurrent(bucket, k, r) /\ Takes(r)
     \/ /\ \A r \in 1..LastRevision : ~IsCurrent(bucket, k, r)
        /\ UNCHANGED <<rows, top>>
  /\ UNCHANGED <<server, session, table, scan, lastSeq, pos, unseen, copying>>

StartSeq(since) == since + 1

\* NatsKvScanIncremental: the stream's last sequence number.
AsksLastSeq ==
  /\ scan = "idle" /\ exists
  /\ cursor > 0
  /\ scan' = "info"
  /\ lastSeq' = LastRevision
  /\ UNCHANGED <<server, session, table, todo, rows, top, pos, unseen, copying>>

\* The consumer, unless nothing has changed.
Subscribes ==
  /\ scan = "info"
  /\ scan' = IF StartSeq(cursor) > lastSeq THEN "end" ELSE "stream"
  /\ pos' = StartSeq(cursor)
  /\ UNCHANGED <<server, session, table, todo, rows, top, lastSeq, unseen, copying>>

Deliverable == {r \in pos..LastRevision : Kept(bucket, History, r) /\ bucket[r].key \in Filter}

IsNext(r) == r \in Deliverable /\ \A q \in Deliverable : r <= q

\* A scan that leaves out what has no value.
IsRowOfValue(r) == bucket[r].op = "put"

\* An entry of every kind is a row.
IsRow(r) == TRUE

\* The loop takes an entry: behind last_seq it ends, at last_seq it takes it and ends.
ReadsEntry ==
  /\ scan = "stream"
  /\ \E r \in Revisions :
       /\ IsNext(r)
       /\ pos' = r + 1
       /\ IF r <= lastSeq /\ IsRow(r) THEN Takes(r) ELSE UNCHANGED <<rows, top>>
       /\ scan' = IF r >= lastSeq THEN "end" ELSE "stream"
  /\ UNCHANGED <<server, session, table, todo, lastSeq, unseen, copying>>

\* Entries on their way when the connection breaks are not delivered again to a consumer
\* without acknowledgements; the loop goes on when it is restored.
LosesEntries ==
  /\ scan = "stream"
  /\ \E p \in pos..LastRevision :
       /\ pos' = p + 1
       /\ unseen' = unseen \union pos..p
  /\ UNCHANGED <<server, session, table, scan, todo, rows, top, lastSeq, copying>>

\* The end of the scan: everything fetched, nothing more to fetch, or a fetch that ran out
\* of time.
EndsScan ==
  /\ \/ scan = "keys" /\ todo = {}
     \/ scan = "stream"
     \/ scan = "end"
  /\ mirror' = mirror \union rows
  /\ cursor' = IF top > cursor THEN top ELSE cursor
  /\ ForgetsQuery
  /\ UNCHANGED <<server, session, outdated, unseen, copying>>

\* An error of any call: the query returns nothing.
FailsScan ==
  /\ scan # "idle"
  /\ ForgetsQuery
  /\ UNCHANGED <<server, session, table, unseen, copying>>

\* The connection empties the mirror, to begin with a full snapshot again.
Resets ==
  /\ scan = "idle" /\ cursor > 0
  /\ mirror' = {} /\ cursor' = 0 /\ outdated' = FALSE
  /\ UNCHANGED <<server, session, query, unseen, copying>>

-----------------------------------------------------------------------------
\* COPY TO (FORMAT nats_kv).

\* NatsKvCopyToInitializeGlobal.
CopyOpens ==
  /\ copy = "idle" /\ exists
  /\ copy' = "sink"
  /\ UNCHANGED <<server, session, table, query, unseen, copied>>

NextRow == CopyRows[Len(copied) + 1]

\* NatsKvCopyToSink: one row is put and its answer awaited; a lost one ends the statement.
CopyPuts ==
  /\ copy = "sink" /\ Len(copied) < Len(CopyRows)
  /\ NextRow # Null
  /\ Appends(Put(NextRow, 0))
  /\ Overwrites(NextRow)
  /\ copied' = Append(copied, Len(bucket'))
  /\ copy' \in {"sink", "failed"}
  /\ UNCHANGED read

\* A row without key or value, or a put that never reached the server.
CopyFails ==
  /\ copy = "sink" /\ Len(copied) < Len(CopyRows)
  /\ copy' = "failed"
  /\ UNCHANGED <<server, session, table, query, unseen, copied>>

\* A statement that ends like a complete one after a part of its rows.
CopyEndsEarly ==
  /\ copy = "sink"
  /\ copy' \in {"done", "failed"}
  /\ UNCHANGED <<server, session, table, query, unseen, copied>>

\* NatsKvCopyToFinalize: every row is put, and the connection flushed or not.
CopyEnds ==
  /\ copy = "sink" /\ Len(copied) = Len(CopyRows)
  /\ copy' \in {"done", "failed"}
  /\ UNCHANGED <<server, session, table, query, unseen, copied>>

-----------------------------------------------------------------------------
Init ==
  /\ bucket = <<>> /\ exists = TRUE /\ created = 1 /\ dropped = 0
  /\ read = [w \in Writers |-> NotRead]
  /\ counted = [k \in Keys |-> 0]
  /\ mirror = {} /\ cursor = 0 /\ outdated = FALSE
  /\ scan = "idle" /\ todo = {} /\ rows = {} /\ top = 0
  /\ lastSeq = 0 /\ pos = 1
  /\ unseen = {}
  /\ copy = "idle" /\ copied = <<>>

Writing ==
  \/ \E k \in Keys : KvPut(k)
  \/ \E k \in Keys, op \in Removals : KvDelete(k, op)
  \/ \E w \in Writers, k \in Counters : KvGet(w, k)
  \/ \E w \in Writers : KvIncrement(w)
  \/ \E w \in Writers : KvIncrementFails(w)
  \/ KvDeleteBucket
  \/ KvCreateBucket

Scanning ==
  \/ ListsKeys
  \/ \E k \in Filter : GetsKey(k)
  \/ AsksLastSeq
  \/ Subscribes
  \/ ReadsEntry
  \/ LosesEntries
  \/ EndsScan
  \/ FailsScan
  \/ Resets

Copying == CopyOpens \/ CopyPuts \/ CopyFails \/ CopyEnds

Next == Writing \/ Scanning \/ Copying

Spec == Init /\ [][Next]_vars

-----------------------------------------------------------------------------
\* The types of the variables.
TypeOK ==
  /\ bucket \in Seq(Entries) /\ dropped \in Nat /\ dropped + Len(bucket) <= MaxRevisions
  /\ exists \in BOOLEAN
  /\ created \in 1..MaxBuckets
  /\ read \in [Writers -> [key : Keys \union {Null}, revision : 0..MaxRevisions, value : Nat]]
  /\ counted \in [Keys -> Nat]
  /\ mirror \subseteq Revisions /\ cursor \in 0..MaxRevisions
  /\ outdated \in BOOLEAN
  /\ scan \in {"idle", "keys", "info", "stream", "gone", "end"}
  /\ todo \subseteq Filter
  /\ rows \subseteq Revisions /\ top \in 0..MaxRevisions
  /\ lastSeq \in 0..MaxRevisions /\ pos \in 1..MaxRevisions + 1
  /\ unseen \subseteq Revisions
  /\ copy \in {"idle", "sink", "done", "failed"}
  /\ copied \in Seq(Revisions) /\ Len(copied) <= Len(CopyRows)

\* A mirror kept by incremental scans misses nothing for ever: the newest entry of a key that
\* its largest revision covers is in it, or shows as deleted in it, although the bucket drops
\* entries, scans stop anywhere, and every scan has a last_seq of its own.  Excepted are
\* entries written while the first scan, a snapshot key by key, was under way, and entries
\* lost with a connection: both may be passed over, and no later scan comes back to them.
MirrorFollows ==
  ~outdated =>
    \A k \in Filter, r \in 1..cursor :
      IsNewest(bucket, k, r) /\ r \notin unseen =>
        \/ r \in mirror
        \/ bucket[r].op # "put" /\ \A q \in mirror : bucket[q].key # k

\* nats_kv_update and nats_kv_create lose no update: the counter of a key is at least the
\* number of increments that were reported as done since it was last put or deleted, as
\* long as the bucket is not deleted, which begins the revisions anew.
NoLostUpdate ==
  created = 1 => \A k \in Keys, r \in 1..LastRevision :
                   IsCurrent(bucket, k, r) => bucket[r].value >= counted[k]

\* A COPY statement puts its rows in their order, among the writes of others: a prefix of
\* them when it fails, and all of them when it reports success.
CopyPutsPrefix ==
  exists /\ created = 1 =>
    /\ \A i, j \in DOMAIN copied : i < j => copied[i] < copied[j]
    /\ \A i \in DOMAIN copied : bucket[copied[i]] = Put(CopyRows[i], 0)
    /\ copy = "done" => Len(copied) = Len(CopyRows)
=============================================================================
