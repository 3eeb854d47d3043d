------------------------------ MODULE KvBucket ------------------------------
(***************************************************************************)
(* A JetStream key-value bucket as nats_kv.cpp and nats_kv_watch.cpp use   *)
(* it: the sequence of all entries ever written, an entry's revision its   *)
(* index, of which the server keeps the newest of every key.               *)
(***************************************************************************)
EXTENDS Naturals, Sequences, FiniteSets

\* A later entry of the same key, up to a revision.
Superseded(bucket, r, upto) == \E q \in (r + 1)..upto : bucket[q].key = bucket[r].key

\* The bucket's stream still has the entry: it is among the last history ones of its key,
\* and no purge came after it.
Kept(bucket, history, r) ==
  LET later == {q \in (r + 1)..Len(bucket) : bucket[q].key = bucket[r].key}
  IN  Cardinality(later) < history /\ \A q \in later : bucket[q].op # "purge"

\* Revision r is the newest entry of key k.
IsNewest(bucket, k, r) ==
  /\ r \in 1..Len(bucket)
  /\ bucket[r].key = k
  /\ ~Superseded(bucket, r, Len(bucket))

\* The key has a value: its newest entry is a put.
IsCurrent(bucket, k, r) == IsNewest(bucket, k, r) /\ bucket[r].op = "put"
=============================================================================
