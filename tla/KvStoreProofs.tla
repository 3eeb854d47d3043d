----------------------------- MODULE KvStoreProofs -----------------------------
(***************************************************************************)
(* What KvStore promises for any number of writers, keys, entries and      *)
(* buckets, any history and any rows of the COPY statement: its variables  *)
(* keep their types, a mirror misses nothing for ever, no update is lost,  *)
(* and a COPY puts a prefix of its rows.                                   *)
(***************************************************************************)
EXTENDS KvStore, Integers, FiniteSetTheorems, TLAPS

-----------------------------------------------------------------------------
\* A writer that has read has read one of the keys.
ReadKeys == \A w \in Writers : read[w] # NotRead => read[w].key \in Keys

BucketOK == ~exists => bucket = <<>>

BaseInv == TypeOK /\ ReadKeys /\ BucketOK

-----------------------------------------------------------------------------
\* The mirror.

\* A scan begins with nothing.
IdleOK == scan = "idle" => rows = {} /\ top = 0

\* Which part of the bucket the mirror and a scan are about, until the bucket is deleted.
ScanOK ==
  ~outdated =>
    /\ scan # "gone"
    /\ cursor <= LastRevision /\ mirror \subseteq 1..cursor /\ (cursor > 0 => mirror # {})
    /\ rows \subseteq 1..top /\ (top # 0 => top \in rows)
    /\ scan = "info" => rows = {}
    /\ scan = "keys" => cursor = 0 /\ top <= LastRevision
    /\ scan \in {"info", "stream", "end"} => lastSeq <= LastRevision
    /\ scan \in {"stream", "end"} => /\ rows \subseteq (cursor + 1)..(pos - 1)
                                     /\ cursor < pos /\ top <= lastSeq
    /\ scan = "stream" => pos <= LastRevision + 1

\* A snapshot has the newest entry of every key that is not listed any more, and nothing
\* of a key without a value; a listing that ran out of time has nothing at all.
ListedOK ==
  ~outdated /\ scan = "keys" =>
    \/ todo = {} /\ rows = {}
    \/ \A k \in Filter, r \in 1..LastRevision :
         IsNewest(bucket, k, r) /\ r \notin unseen =>
           IF bucket[r].op = "put" THEN k \in todo \/ r \in rows
           ELSE \A q \in rows : bucket[q].key # k

\* An incremental scan has what it came past, up to last_seq.
StreamedOK ==
  ~outdated /\ scan \in {"stream", "end"} =>
    \A k \in Filter, r \in (cursor + 1)..(pos - 1) :
      r <= lastSeq /\ IsNewest(bucket, k, r) /\ r \notin unseen => r \in rows

MirrorInv == IdleOK /\ ScanOK /\ ListedOK /\ StreamedOK /\ MirrorFollows

-----------------------------------------------------------------------------
\* The writers.

\* What a writer has read is still the entry of that revision.
ReadOK ==
  created = 1 => \A w \in Writers :
    /\ read[w].revision = 0 => read[w].value = 0
    /\ exists /\ read[w].revision > 0 =>
         /\ read[w].revision \in 1..LastRevision
         /\ bucket[read[w].revision] = Put(read[w].key, read[w].value)

\* A key with reported increments has a value that includes them.
CountedOK ==
  created = 1 => \A k \in Keys :
    \/ counted[k] = 0
    \/ \E r \in 1..LastRevision : IsCurrent(bucket, k, r) /\ bucket[r].value >= counted[k]

\* The rows of the COPY are in the bucket.
CopiedOK ==
  exists /\ created = 1 => \A i \in 1..Len(copied) : copied[i] \in 1..LastRevision

-----------------------------------------------------------------------------
\* An entry more in the bucket.
LEMMA AppendIs ==
  ASSUME NEW b \in Seq(Entries), NEW e \in Entries
  PROVE  /\ Append(b, e) \in Seq(Entries)
         /\ Len(b) \in Nat /\ Len(Append(b, e)) = Len(b) + 1
         /\ \A r \in 1..Len(b) : Append(b, e)[r] = b[r]
         /\ Append(b, e)[Len(b) + 1] = e
OBVIOUS

\* It is the newest of its key, and those of other keys are what they were.
LEMMA NewestIs ==
  ASSUME NEW b \in Seq(Entries), NEW e \in Entries, NEW c, c = Append(b, e)
  PROVE  /\ \A k : \A r \in 1..Len(b) : IsNewest(c, k, r) <=> IsNewest(b, k, r) /\ k # e.key
         /\ \A k : IsNewest(c, k, Len(b) + 1) <=> k = e.key
<1>1. /\ Len(b) \in Nat /\ Len(c) = Len(b) + 1
      /\ \A r \in 1..Len(b) : c[r] = b[r]
      /\ c[Len(b) + 1] = e
  BY AppendIs
<1> DEFINE n == Len(b)
<1>2. n \in Nat /\ Len(c) = n + 1 /\ c[n + 1] = e /\ \A r \in 1..n : c[r] = b[r]
  BY <1>1
<1>3. n = Len(b)
  OBVIOUS
<1> HIDE DEF n
<1>4. ASSUME NEW r \in 1..n
      PROVE  Superseded(c, r, n + 1) <=> Superseded(b, r, n) \/ e.key = b[r].key
  <2>1. \A q \in (r + 1)..(n + 1) : q \in (r + 1)..n \/ q = n + 1
    BY <1>2
  <2>2. \A q \in (r + 1)..n : q \in (r + 1)..(n + 1) /\ q \in 1..n
    BY <1>2
  <2>3. n + 1 \in (r + 1)..(n + 1)
    BY <1>2
  <2> QED
    BY <1>2, <2>1, <2>2, <2>3 DEF Superseded
<1>5. ~Superseded(c, n + 1, n + 1)
  BY <1>2 DEF Superseded
<1>6. \A r \in 1..n : r \in 1..Len(c)
  BY <1>2
<1>7. n + 1 \in 1..Len(c)
  BY <1>2
<1> QED
  BY <1>2, <1>3, <1>4, <1>5, <1>6, <1>7 DEF IsNewest

\* What an entry that is appended is.
LEMMA EntryIs ==
  \A k \in Keys : /\ \A v \in Nat : Put(k, v) \in Entries
                  /\ \A op \in Removals : [key |-> k, op |-> op, value |-> 0] \in Entries
BY KvStoreAssumption DEF KvStoreAssumption, Put, Entries

\* A step that appends keeps the types of all but what the writers and the COPY have.
LEMMA AppendsType ==
  ASSUME TypeOK, NEW e \in Entries, Appends(e)
  PROVE  /\ bucket' = Append(bucket, e) /\ bucket' \in Seq(Entries)
         /\ Len(bucket') = LastRevision + 1 /\ LastRevision \in Nat
         /\ dropped' + Len(bucket') <= MaxRevisions
         /\ Len(bucket') \in Revisions
         /\ unseen' \subseteq Revisions
<1>1. bucket \in Seq(Entries) /\ dropped \in Nat /\ MaxRevisions \in Nat
  BY KvStoreAssumption DEF KvStoreAssumption, TypeOK
<1>2. bucket' = Append(bucket, e) /\ dropped' = dropped /\ dropped + LastRevision < MaxRevisions
  BY DEF Appends
<1>3. bucket' \in Seq(Entries) /\ Len(bucket') = LastRevision + 1 /\ LastRevision \in Nat
  BY <1>1, <1>2, AppendIs DEF LastRevision
<1>4. dropped' + Len(bucket') <= MaxRevisions /\ Len(bucket') \in Revisions
  BY <1>1, <1>2, <1>3 DEF Revisions
<1>5. unseen' \subseteq Revisions
  BY <1>4 DEF Appends, TypeOK
<1> QED
  BY <1>2, <1>3, <1>4, <1>5

LEMMA InitType == Init => BaseInv
<1> SUFFICES ASSUME Init PROVE BaseInv
  OBVIOUS
<1>1. MaxRevisions \in Nat /\ MaxBuckets \in Nat \ {0} /\ CopyRows \in Seq(Keys \union {Null})
  BY KvStoreAssumption DEF KvStoreAssumption
<1>2. /\ bucket \in Seq(Entries) /\ dropped \in Nat /\ dropped + Len(bucket) <= MaxRevisions
      /\ exists \in BOOLEAN /\ created \in 1..MaxBuckets
  <2>1. bucket \in Seq(Entries) /\ Len(bucket) = 0
    BY DEF Init
  <2>2. dropped = 0 /\ exists \in BOOLEAN /\ created = 1
    BY DEF Init
  <2> QED
    BY <1>1, <2>1, <2>2
<1>3. read \in [Writers -> [key : Keys \union {Null}, revision : 0..MaxRevisions, value : Nat]]
  BY <1>1 DEF Init, NotRead
<1>4. counted \in [Keys -> Nat]
  BY DEF Init
<1>5. /\ mirror \subseteq Revisions /\ cursor \in 0..MaxRevisions /\ outdated \in BOOLEAN
      /\ scan \in {"idle", "keys", "info", "stream", "gone", "end"} /\ todo \subseteq Filter
      /\ rows \subseteq Revisions /\ top \in 0..MaxRevisions
      /\ lastSeq \in 0..MaxRevisions /\ pos \in 1..MaxRevisions + 1
      /\ unseen \subseteq Revisions /\ copy \in {"idle", "sink", "done", "failed"}
  <2>1. /\ cursor \in 0..MaxRevisions /\ top \in 0..MaxRevisions
        /\ lastSeq \in 0..MaxRevisions /\ pos \in 1..MaxRevisions + 1
    BY <1>1 DEF Init
  <2>2. /\ mirror \subseteq Revisions /\ todo \subseteq Filter
        /\ rows \subseteq Revisions /\ unseen \subseteq Revisions
    BY DEF Init
  <2>3. outdated \in BOOLEAN
    BY DEF Init
  <2>4. /\ scan \in {"idle", "keys", "info", "stream", "gone", "end"}
        /\ copy \in {"idle", "sink", "done", "failed"}
    BY DEF Init
  <2> QED
    BY <2>1, <2>2, <2>3, <2>4
<1>6. copied \in Seq(Revisions) /\ Len(copied) <= Len(CopyRows)
  BY <1>1 DEF Init
<1>7. ReadKeys /\ BucketOK
  BY DEF Init, ReadKeys, BucketOK
<1> QED
  BY <1>2, <1>3, <1>4, <1>5, <1>6, <1>7 DEF BaseInv, TypeOK

\* The parts of the state that writers leave alone, apart from the bucket.
ScanTypeOK ==
  /\ mirror \subseteq Revisions /\ cursor \in 0..MaxRevisions
  /\ outdated \in BOOLEAN
  /\ scan \in {"idle", "keys", "info", "stream", "gone", "end"}
  /\ todo \subseteq Filter
  /\ rows \subseteq Revisions /\ top \in 0..MaxRevisions
  /\ lastSeq \in 0..MaxRevisions /\ pos \in 1..MaxRevisions + 1
  /\ unseen \subseteq Revisions

BucketTypeOK ==
  /\ bucket \in Seq(Entries) /\ dropped \in Nat /\ dropped + Len(bucket) <= MaxRevisions
  /\ exists \in BOOLEAN
  /\ created \in 1..MaxBuckets

SessionTypeOK ==
  /\ read \in [Writers -> [key : Keys \union {Null}, revision : 0..MaxRevisions, value : Nat]]
  /\ counted \in [Keys -> Nat]

CopyTypeOK ==
  /\ copy \in {"idle", "sink", "done", "failed"}
  /\ copied \in Seq(Revisions) /\ Len(copied) <= Len(CopyRows)

LEMMA TypeParts == TypeOK <=> ScanTypeOK /\ BucketTypeOK /\ SessionTypeOK /\ CopyTypeOK
BY DEF TypeOK, ScanTypeOK, BucketTypeOK, SessionTypeOK, CopyTypeOK

\* What an append does to the parts that do not depend on who appends.
LEMMA AppendsParts ==
  ASSUME TypeOK, NEW e \in Entries, Appends(e)
  PROVE  ScanTypeOK' /\ BucketTypeOK'
<1>1. ScanTypeOK'
  BY AppendsType DEF Appends, table, query, TypeOK, ScanTypeOK, Revisions
<1>2. BucketTypeOK'
  BY AppendsType DEF Appends, TypeOK, BucketTypeOK
<1> QED
  BY <1>1, <1>2

LEMMA WritingType == TypeOK /\ ReadKeys /\ Writing => TypeOK'
<1> SUFFICES ASSUME TypeOK, ReadKeys, Writing PROVE TypeOK'
  OBVIOUS
<1>0. ScanTypeOK /\ BucketTypeOK /\ SessionTypeOK /\ CopyTypeOK
  BY TypeParts
<1> USE DEF server, table, query, copying, session
<1>1. ASSUME NEW k \in Keys, KvPut(k) PROVE TypeOK'
  <2>1. ScanTypeOK' /\ BucketTypeOK'
    BY <1>1, AppendsParts, EntryIs DEF KvPut
  <2>2. SessionTypeOK' /\ CopyTypeOK'
    BY <1>0, <1>1 DEF KvPut, Overwrites, SessionTypeOK, CopyTypeOK
  <2> QED
    BY <2>1, <2>2, TypeParts, PTL
<1>2. ASSUME NEW k \in Keys, NEW op \in Removals, KvDelete(k, op) PROVE TypeOK'
  <2>1. ScanTypeOK' /\ BucketTypeOK'
    BY <1>2, AppendsParts, EntryIs DEF KvDelete
  <2>2. SessionTypeOK' /\ CopyTypeOK'
    BY <1>0, <1>2 DEF KvDelete, Overwrites, SessionTypeOK, CopyTypeOK
  <2> QED
    BY <2>1, <2>2, TypeParts, PTL
<1>3. ASSUME NEW w \in Writers, NEW k \in Counters, KvGet(w, k) PROVE TypeOK'
  <2>1. ScanTypeOK' /\ BucketTypeOK' /\ CopyTypeOK'
    BY <1>0, <1>3 DEF KvGet, ScanTypeOK, BucketTypeOK, CopyTypeOK
  <2>2. k \in Keys /\ MaxRevisions \in Nat
    BY KvStoreAssumption DEF KvStoreAssumption
  <2>3. \A r \in 1..LastRevision : r \in 0..MaxRevisions /\ bucket[r].value \in Nat
    <3>1. bucket \in Seq(Entries) /\ Len(bucket) \in Nat /\ dropped \in Nat
          /\ dropped + Len(bucket) <= MaxRevisions
      BY <1>0 DEF BucketTypeOK
    <3>2. \A r \in 1..LastRevision : bucket[r] \in Entries
      BY <3>1 DEF LastRevision
    <3> QED
      BY <2>2, <3>1, <3>2 DEF LastRevision, Entries
  <2>4. SessionTypeOK'
    BY <1>0, <1>3, <2>2, <2>3 DEF KvGet, SessionTypeOK
  <2> QED
    BY <2>1, <2>4, TypeParts, PTL
<1>4. ASSUME NEW w \in Writers, KvIncrement(w) PROVE TypeOK'
  <2> DEFINE k == read[w].key
  <2>1. k \in Keys /\ read[w].value + 1 \in Nat
    BY <1>0, <1>4 DEF KvIncrement, SessionTypeOK, ReadKeys
  <2>2. Put(k, read[w].value + 1) \in Entries
    BY <2>1, EntryIs
  <2>3. ScanTypeOK' /\ BucketTypeOK'
    BY <1>4, <2>2, AppendsParts DEF KvIncrement
  <2>4. NotRead \in [key : Keys \union {Null}, revision : 0..MaxRevisions, value : Nat]
    BY KvStoreAssumption DEF KvStoreAssumption, NotRead
  <2>5. counted' = counted \/ counted' = [counted EXCEPT ![k] = counted[k] + 1]
    BY <1>4 DEF KvIncrement
  <2>6. SessionTypeOK'
    BY <1>0, <1>4, <2>1, <2>4, <2>5 DEF KvIncrement, SessionTypeOK
  <2>7. CopyTypeOK'
    BY <1>0, <1>4 DEF KvIncrement, CopyTypeOK
  <2> QED
    BY <2>3, <2>6, <2>7, TypeParts, PTL
<1>5. ASSUME NEW w \in Writers, KvIncrementFails(w) PROVE TypeOK'
  <2>1. NotRead \in [key : Keys \union {Null}, revision : 0..MaxRevisions, value : Nat]
    BY KvStoreAssumption DEF KvStoreAssumption, NotRead
  <2>2. SessionTypeOK'
    BY <1>0, <1>5, <2>1 DEF KvIncrementFails, SessionTypeOK
  <2>3. ScanTypeOK' /\ BucketTypeOK' /\ CopyTypeOK'
    BY <1>0, <1>5 DEF KvIncrementFails, ScanTypeOK, BucketTypeOK, CopyTypeOK
  <2> QED
    BY <2>2, <2>3, TypeParts, PTL
<1>6. CASE KvDeleteBucket
  <2>1. BucketTypeOK'
    <3>1. Len(bucket) \in Nat /\ dropped \in Nat /\ dropped + Len(bucket) <= MaxRevisions
          /\ MaxRevisions \in Nat
      BY <1>0, KvStoreAssumption DEF KvStoreAssumption, BucketTypeOK
    <3>2. bucket' = <<>> /\ Len(<<>>) = 0 /\ <<>> \in Seq(Entries)
      BY <1>6 DEF KvDeleteBucket
    <3>3. dropped' = dropped + Len(bucket) /\ exists' = FALSE /\ created' = created
      BY <1>6 DEF KvDeleteBucket, LastRevision
    <3>4. dropped' \in Nat /\ dropped' + Len(bucket') <= MaxRevisions
      BY <3>1, <3>2, <3>3
    <3> QED
      BY <1>0, <3>2, <3>3, <3>4 DEF BucketTypeOK
  <2>2. ScanTypeOK' /\ SessionTypeOK' /\ CopyTypeOK'
    BY <1>0, <1>6 DEF KvDeleteBucket, ScanTypeOK, SessionTypeOK, CopyTypeOK
  <2> QED
    BY <2>1, <2>2, TypeParts, PTL
<1>7. CASE KvCreateBucket
  <2>1. BucketTypeOK'
    BY <1>0, <1>7, KvStoreAssumption DEF KvStoreAssumption, KvCreateBucket, BucketTypeOK
  <2>2. ScanTypeOK' /\ SessionTypeOK' /\ CopyTypeOK'
    BY <1>0, <1>7 DEF KvCreateBucket, ScanTypeOK, SessionTypeOK, CopyTypeOK
  <2> QED
    BY <2>1, <2>2, TypeParts, PTL
<1> QED
  BY <1>1, <1>2, <1>3, <1>4, <1>5, <1>6, <1>7 DEF Writing

LEMMA ScanningType == TypeOK /\ Scanning => TypeOK'
<1> SUFFICES ASSUME TypeOK, Scanning PROVE TypeOK'
  OBVIOUS
<1>0. ScanTypeOK /\ BucketTypeOK /\ SessionTypeOK /\ CopyTypeOK
  BY TypeParts
<1> USE DEF server, table, query, copying, session
<1>1. UNCHANGED <<bucket, exists, created, dropped, read, counted, copy, copied>>
  BY DEF Scanning, ListsKeys, GetsKey, AsksLastSeq, Subscribes, ReadsEntry, LosesEntries,
     EndsScan, FailsScan, Resets
<1>2. BucketTypeOK' /\ SessionTypeOK' /\ CopyTypeOK'
  BY <1>0, <1>1 DEF BucketTypeOK, SessionTypeOK, CopyTypeOK
<1>3. /\ MaxRevisions \in Nat /\ LastRevision \in 0..MaxRevisions
      /\ \A r \in 1..LastRevision : r \in Revisions
  <2>1. Len(bucket) \in Nat /\ dropped \in Nat /\ dropped + Len(bucket) <= MaxRevisions
        /\ MaxRevisions \in Nat
    BY <1>0, KvStoreAssumption DEF KvStoreAssumption, BucketTypeOK
  <2> QED
    BY <2>1 DEF LastRevision, Revisions
<1>4. ASSUME NEW r \in Revisions, Takes(r)
      PROVE  rows' \subseteq Revisions /\ top' \in 0..MaxRevisions
  BY <1>0, <1>3, <1>4 DEF Takes, ScanTypeOK, Revisions
<1>5. ASSUME ListsKeys PROVE ScanTypeOK'
  BY <1>0, <1>5 DEF ListsKeys, ScanTypeOK
<1>6. ASSUME NEW k \in Filter, GetsKey(k) PROVE ScanTypeOK'
  <2>1. rows' \subseteq Revisions /\ top' \in 0..MaxRevisions
    BY <1>0, <1>3, <1>4, <1>6 DEF GetsKey, ScanTypeOK
  <2> QED
    BY <1>0, <1>6, <2>1 DEF GetsKey, ScanTypeOK
<1>7. ASSUME AsksLastSeq PROVE ScanTypeOK'
  BY <1>0, <1>3, <1>7 DEF AsksLastSeq, ScanTypeOK
<1>8. ASSUME Subscribes PROVE ScanTypeOK'
  BY <1>0, <1>3, <1>8 DEF Subscribes, StartSeq, ScanTypeOK
<1>9. ASSUME ReadsEntry PROVE ScanTypeOK'
  <2>1. PICK r \in Revisions :
          /\ pos' = r + 1
          /\ IF r <= lastSeq /\ IsRow(r) THEN Takes(r) ELSE UNCHANGED <<rows, top>>
          /\ scan' = IF r >= lastSeq THEN "end" ELSE "stream"
    BY <1>9 DEF ReadsEntry
  <2>2. rows' \subseteq Revisions /\ top' \in 0..MaxRevisions
    BY <1>0, <1>4, <2>1 DEF ScanTypeOK
  <2>3. pos' \in 1..MaxRevisions + 1
    BY <1>3, <2>1 DEF Revisions
  <2> QED
    BY <1>0, <1>9, <2>1, <2>2, <2>3 DEF ReadsEntry, ScanTypeOK
<1>10. ASSUME LosesEntries PROVE ScanTypeOK'
  <2>1. PICK p \in pos..LastRevision : pos' = p + 1 /\ unseen' = unseen \union pos..p
    BY <1>10 DEF LosesEntries
  <2>2. pos \in Nat \ {0}
    BY <1>0, <1>3 DEF ScanTypeOK
  <2>3. pos' \in 1..MaxRevisions + 1 /\ pos..p \subseteq Revisions
    BY <1>3, <2>1, <2>2 DEF Revisions
  <2> QED
    BY <1>0, <1>10, <2>1, <2>3 DEF LosesEntries, ScanTypeOK
<1>11. ASSUME EndsScan \/ FailsScan \/ Resets PROVE ScanTypeOK'
  <2>1. mirror' \subseteq Revisions /\ cursor' \in 0..MaxRevisions
    <3>1. CASE EndsScan
      BY <1>0, <1>3, <3>1 DEF EndsScan, ScanTypeOK
    <3>2. CASE FailsScan \/ Resets
      BY <1>0, <1>3, <3>2 DEF FailsScan, Resets, ScanTypeOK
    <3> QED
      BY <1>11, <3>1, <3>2
  <2>5. outdated' \in BOOLEAN
    <3>1. outdated' = outdated \/ outdated' = FALSE
      BY <1>11 DEF EndsScan, FailsScan, Resets
    <3> QED
      BY <1>0, <3>1 DEF ScanTypeOK
  <2>2. ForgetsQuery \/ UNCHANGED <<scan, todo, rows, top, lastSeq, pos>>
    BY <1>11 DEF EndsScan, FailsScan, Resets
  <2>3. /\ scan' \in {"idle", "keys", "info", "stream", "gone", "end"}
        /\ todo' \subseteq Filter /\ rows' \subseteq Revisions /\ top' \in 0..MaxRevisions
        /\ lastSeq' \in 0..MaxRevisions /\ pos' \in 1..MaxRevisions + 1
    BY <1>0, <1>3, <2>2 DEF ForgetsQuery, ScanTypeOK
  <2>4. unseen' = unseen
    BY <1>11 DEF EndsScan, FailsScan, Resets
  <2> QED
    BY <1>0, <2>1, <2>3, <2>4, <2>5 DEF ScanTypeOK
<1>12. ScanTypeOK'
  BY <1>5, <1>6, <1>7, <1>8, <1>9, <1>10, <1>11 DEF Scanning
<1> QED
  BY <1>2, <1>12, TypeParts, PTL

LEMMA CopyingType == TypeOK /\ Copying => TypeOK'
<1> SUFFICES ASSUME TypeOK, Copying PROVE TypeOK'
  OBVIOUS
<1>0. ScanTypeOK /\ BucketTypeOK /\ SessionTypeOK /\ CopyTypeOK
  BY TypeParts
<1> USE DEF server, table, query, copying, session
<1>1. CASE CopyOpens \/ CopyFails \/ CopyEnds
  <2>1. ScanTypeOK' /\ BucketTypeOK' /\ SessionTypeOK'
    BY <1>0, <1>1 DEF CopyOpens, CopyFails, CopyEnds, ScanTypeOK, BucketTypeOK, SessionTypeOK
  <2>2. CopyTypeOK'
    BY <1>0, <1>1 DEF CopyOpens, CopyFails, CopyEnds, CopyTypeOK
  <2> QED
    BY <2>1, <2>2, TypeParts, PTL
<1>2. CASE CopyPuts
  <2>1. /\ Len(copied) < Len(CopyRows) /\ NextRow # Null
        /\ Appends(Put(NextRow, 0)) /\ Overwrites(NextRow)
        /\ copied' = Append(copied, Len(bucket')) /\ copy' \in {"sink", "failed"}
        /\ read' = read
    BY <1>2 DEF CopyPuts
  <2>2. /\ Len(copied) \in Nat /\ Len(CopyRows) \in Nat /\ CopyRows \in Seq(Keys \union {Null})
        /\ copied \in Seq(Revisions)
    BY <1>0, KvStoreAssumption DEF KvStoreAssumption, CopyTypeOK
  <2>3. NextRow \in Keys
    BY <2>1, <2>2 DEF NextRow
  <2>4. Put(NextRow, 0) \in Entries
    BY <2>3, EntryIs
  <2>5. ScanTypeOK' /\ BucketTypeOK'
    BY <2>1, <2>4, AppendsParts
  <2>6. SessionTypeOK'
    BY <1>0, <2>1, <2>3 DEF Overwrites, SessionTypeOK
  <2>7. Len(bucket') \in Revisions
    BY <2>1, <2>4, AppendsType
  <2>8. copied' \in Seq(Revisions) /\ Len(copied') = Len(copied) + 1
    BY <2>1, <2>2, <2>7
  <2>9. CopyTypeOK'
    BY <2>1, <2>2, <2>8 DEF CopyTypeOK
  <2> QED
    BY <2>5, <2>6, <2>9, TypeParts, PTL
<1> QED
  BY <1>1, <1>2 DEF Copying

LEMMA BaseKept == BaseInv /\ [Next]_vars => BaseInv'
<1> SUFFICES ASSUME BaseInv, [Next]_vars PROVE BaseInv'
  OBVIOUS
<1> USE DEF server, table, query, copying, session
<1>1. TypeOK'
  <2>1. CASE UNCHANGED vars
    BY <2>1 DEF vars, BaseInv, TypeOK, LastRevision
  <2> QED
    BY <2>1, WritingType, ScanningType, CopyingType DEF Next, BaseInv
<1>2. ReadKeys'
  <2>1. ASSUME NEW w \in Writers, NEW k \in Counters, KvGet(w, k) PROVE ReadKeys'
    <3>1. k \in Keys /\ read \in [Writers -> [key : Keys \union {Null}, revision : 0..MaxRevisions,
                                              value : Nat]]
      BY KvStoreAssumption DEF KvStoreAssumption, BaseInv, TypeOK
    <3>2. PICK x : x.key = k /\ read' = [read EXCEPT ![w] = x]
      BY <2>1 DEF KvGet
    <3>3. \A v \in Writers : read'[v] = IF v = w THEN x ELSE read[v]
      BY <3>1, <3>2
    <3> QED
      BY <3>1, <3>2, <3>3 DEF BaseInv, ReadKeys
  <2>2. ASSUME NEW w \in Writers, KvIncrement(w) \/ KvIncrementFails(w) PROVE ReadKeys'
    BY <2>2 DEF KvIncrement, KvIncrementFails, BaseInv, TypeOK, ReadKeys
  <2>3. CASE read' = read
    BY <2>3 DEF BaseInv, ReadKeys
  <2>4. CASE Scanning \/ Copying \/ UNCHANGED vars
    BY <2>3, <2>4 DEF Scanning, ListsKeys, GetsKey, AsksLastSeq, Subscribes, ReadsEntry,
       LosesEntries, EndsScan, FailsScan, Resets, Copying, CopyOpens, CopyPuts, CopyFails,
       CopyEnds, vars
  <2>5. CASE Writing
    BY <2>1, <2>2, <2>3, <2>5 DEF Writing, KvPut, KvDelete, KvDeleteBucket, KvCreateBucket
  <2> QED
    BY <2>4, <2>5 DEF Next
<1>3. BucketOK'
  <2>1. \A e : Appends(e) => exists /\ exists' = exists
    BY DEF Appends
  <2>2. CASE Scanning \/ UNCHANGED vars
    BY <2>2 DEF Scanning, ListsKeys, GetsKey, AsksLastSeq, Subscribes, ReadsEntry,
       LosesEntries, EndsScan, FailsScan, Resets, vars, BaseInv, BucketOK
  <2>3. CASE Writing
    <3>1. CASE exists /\ exists' = exists
      BY <3>1 DEF BucketOK
    <3>2. CASE UNCHANGED <<bucket, exists>>
      BY <3>2 DEF BaseInv, BucketOK
    <3>3. CASE KvDeleteBucket
      BY <3>3 DEF KvDeleteBucket, BucketOK
    <3>4. CASE KvCreateBucket
      BY <3>4 DEF KvCreateBucket, BucketOK
    <3> QED
      BY <2>1, <2>3, <3>1, <3>2, <3>3, <3>4 DEF Writing, KvPut, KvDelete, KvGet, KvIncrement,
         KvIncrementFails
  <2>4. CASE Copying
    BY <2>1, <2>4 DEF Copying, CopyOpens, CopyPuts, CopyFails, CopyEnds, BaseInv, BucketOK
  <2> QED
    BY <2>2, <2>3, <2>4 DEF Next
<1> QED
  BY <1>1, <1>2, <1>3 DEF BaseInv

\* The variables of the bucket, of its writers, of the mirror's scans and of the COPY
\* keep their types.
THEOREM StoreTypeCorrect == Spec => []TypeOK
<1>1. BaseInv => TypeOK
  BY DEF BaseInv
<1> QED
  BY <1>1, InitType, BaseKept, PTL DEF Spec

-----------------------------------------------------------------------------
\* The steps, told apart by what they do to the bucket.

\* The bucket is deleted, or created again.
Replaces == KvDeleteBucket \/ KvCreateBucket

LEMMA BucketSteps ==
  ASSUME BaseInv, [Next]_vars
  PROVE  \/ \E e \in Entries : Appends(e)
         \/ Replaces
         \/ UNCHANGED server
<1>1. CASE Writing
  <2>1. ASSUME NEW w \in Writers, KvIncrement(w) PROVE \E e \in Entries : Appends(e)
    <3>1. read[w].key \in Keys /\ read[w].value + 1 \in Nat
      BY <2>1 DEF KvIncrement, BaseInv, ReadKeys, TypeOK
    <3> QED
      BY <2>1, <3>1, EntryIs DEF KvIncrement
  <2>2. ASSUME NEW k \in Keys, KvPut(k) PROVE \E e \in Entries : Appends(e)
    BY <2>2, EntryIs DEF KvPut
  <2>3. ASSUME NEW k \in Keys, NEW op \in Removals, KvDelete(k, op)
        PROVE  \E e \in Entries : Appends(e)
    BY <2>3, EntryIs DEF KvDelete
  <2> QED
    BY <1>1, <2>1, <2>2, <2>3 DEF Writing, Replaces, KvGet, KvIncrementFails
<1>2. CASE Scanning
  BY <1>2 DEF Scanning, ListsKeys, GetsKey, AsksLastSeq, Subscribes, ReadsEntry, LosesEntries,
     EndsScan, FailsScan, Resets
<1>3. CASE Copying
  <2>1. CASE CopyPuts
    <3>1. /\ CopyRows \in Seq(Keys \union {Null}) /\ copied \in Seq(Revisions)
          /\ Len(copied) < Len(CopyRows) /\ NextRow # Null
      BY <2>1, KvStoreAssumption DEF KvStoreAssumption, CopyPuts, BaseInv, TypeOK
    <3>2. NextRow \in Keys
      BY <3>1 DEF NextRow
    <3> QED
      BY <2>1, <3>2, EntryIs DEF CopyPuts
  <2> QED
    BY <1>3, <2>1 DEF Copying, CopyOpens, CopyFails, CopyEnds
<1>4. CASE UNCHANGED vars
  BY <1>4 DEF vars
<1> QED
  BY <1>1, <1>2, <1>3, <1>4 DEF Next

\* Entries stay what they are.
LEMMA EntriesStay ==
  ASSUME BaseInv, [Next]_vars, ~Replaces
  PROVE  /\ exists' = exists /\ created' = created
         /\ LastRevision \in Nat /\ LastRevision' \in Nat /\ LastRevision <= LastRevision'
         /\ \A r \in 1..LastRevision : bucket'[r] = bucket[r]
<1>1. bucket \in Seq(Entries) /\ LastRevision \in Nat
  BY DEF BaseInv, TypeOK, LastRevision
<1>2. ASSUME NEW e \in Entries, Appends(e)
      PROVE  /\ exists' = exists /\ created' = created
             /\ LastRevision' = LastRevision + 1
             /\ \A r \in 1..LastRevision : bucket'[r] = bucket[r]
  <2>1. bucket' = Append(bucket, e)
    BY <1>2 DEF Appends
  <2> QED
    BY <1>1, <1>2, <2>1, AppendIs DEF Appends, LastRevision
<1>3. CASE UNCHANGED server
  BY <1>1, <1>3 DEF server, LastRevision
<1> QED
  BY <1>1, <1>2, <1>3, BucketSteps

-----------------------------------------------------------------------------
\* The rows of the COPY.

LEMMA CopyStart == Init => CopiedOK /\ CopyPutsPrefix
BY DEF Init, CopiedOK, CopyPutsPrefix

LEMMA CopyKept == BaseInv /\ CopiedOK /\ CopyPutsPrefix /\ [Next]_vars
                    => (CopiedOK /\ CopyPutsPrefix)'
<1> SUFFICES ASSUME BaseInv, CopiedOK, CopyPutsPrefix, [Next]_vars, exists', created' = 1
             PROVE  /\ \A i \in 1..Len(copied') : copied'[i] \in 1..LastRevision'
                    /\ \A i, j \in DOMAIN copied' : i < j => copied'[i] < copied'[j]
                    /\ \A i \in DOMAIN copied' : bucket'[copied'[i]] = Put(CopyRows[i], 0)
                    /\ copy' = "done" => Len(copied') = Len(CopyRows)
  BY DEF CopiedOK, CopyPutsPrefix
<1>1. ~Replaces
  <2>1. created \in Nat \ {0}
    BY KvStoreAssumption DEF KvStoreAssumption, BaseInv, TypeOK
  <2> QED
    BY <2>1 DEF Replaces, KvDeleteBucket, KvCreateBucket
<1>2. /\ exists /\ created = 1
      /\ LastRevision \in Nat /\ LastRevision' \in Nat /\ LastRevision <= LastRevision'
      /\ \A r \in 1..LastRevision : bucket'[r] = bucket[r]
  BY <1>1, EntriesStay
<1>3. copied \in Seq(Revisions) /\ Len(copied) \in Nat /\ DOMAIN copied = 1..Len(copied)
  BY DEF BaseInv, TypeOK
<1>4. /\ \A i \in 1..Len(copied) : copied[i] \in 1..LastRevision
      /\ \A i, j \in 1..Len(copied) : i < j => copied[i] < copied[j]
      /\ \A i \in 1..Len(copied) : bucket[copied[i]] = Put(CopyRows[i], 0)
      /\ copy = "done" => Len(copied) = Len(CopyRows)
  BY <1>2, <1>3 DEF CopiedOK, CopyPutsPrefix
<1>5. \A i \in 1..Len(copied) :
        copied[i] \in 1..LastRevision' /\ bucket'[copied[i]] = Put(CopyRows[i], 0)
  BY <1>2, <1>4
<1>6. CASE CopyPuts
  <2>1. /\ CopyRows \in Seq(Keys \union {Null})
        /\ Len(copied) < Len(CopyRows) /\ NextRow # Null /\ copy' # "done"
        /\ Appends(Put(NextRow, 0)) /\ copied' = Append(copied, Len(bucket'))
    BY <1>6, KvStoreAssumption DEF KvStoreAssumption, CopyPuts
  <2>2. NextRow \in Keys /\ NextRow = CopyRows[Len(copied) + 1]
    BY <1>3, <2>1 DEF NextRow
  <2>3. Put(NextRow, 0) \in Entries
    BY <2>2, EntryIs
  <2>4. /\ bucket \in Seq(Entries) /\ bucket' = Append(bucket, Put(NextRow, 0))
        /\ LastRevision' = LastRevision + 1 /\ Len(bucket') = LastRevision'
        /\ LastRevision' \in Revisions
    BY <2>1, <2>3, AppendsType DEF LastRevision, BaseInv, TypeOK
  <2>5. bucket'[LastRevision'] = Put(NextRow, 0)
    BY <2>3, <2>4, AppendIs DEF LastRevision
  <2> DEFINE n == Len(copied)
  <2>6. /\ n \in Nat /\ Len(copied') = n + 1 /\ DOMAIN copied' = 1..(n + 1)
        /\ \A i \in 1..n : copied'[i] = copied[i]
        /\ copied'[n + 1] = LastRevision'
    BY <1>3, <2>1, <2>4
  <2>7. \A i \in 1..(n + 1) : i \in 1..n \/ i = n + 1
    BY <2>6
  <2>8. n = Len(copied)
    OBVIOUS
  <2> HIDE DEF n
  <2>9. /\ \A i \in 1..(n + 1) : copied'[i] \in 1..LastRevision'
        /\ \A i \in 1..(n + 1) : bucket'[copied'[i]] = Put(CopyRows[i], 0)
    BY <1>2, <1>5, <2>2, <2>4, <2>5, <2>6, <2>7, <2>8
  <2>10. \A i, j \in 1..(n + 1) : i < j => copied'[i] < copied'[j]
    <3> SUFFICES ASSUME NEW i \in 1..(n + 1), NEW j \in 1..(n + 1), i < j
                 PROVE  copied'[i] < copied'[j]
      OBVIOUS
    <3>1. i \in 1..n
      BY <2>6
    <3>2. CASE j \in 1..n
      BY <1>4, <2>6, <2>8, <3>1, <3>2
    <3>3. CASE j = n + 1
      <4>1. copied'[i] \in 1..LastRevision /\ copied'[j] = LastRevision + 1
        BY <1>4, <2>4, <2>6, <2>8, <3>1, <3>3
      <4> QED
        BY <1>2, <4>1
    <3> QED
      BY <2>7, <3>2, <3>3
  <2> QED
    BY <2>1, <2>6, <2>9, <2>10
<1>7. CASE copied' = copied /\ (copy' = "done" => copy = "done" \/ Len(copied) = Len(CopyRows))
  BY <1>3, <1>4, <1>5, <1>7
<1>8. CASE Writing \/ Scanning \/ UNCHANGED vars
  <2>1. UNCHANGED copying
    BY <1>8 DEF Writing, KvPut, KvDelete, KvGet, KvIncrement, KvIncrementFails, KvDeleteBucket,
       KvCreateBucket, Scanning, ListsKeys, GetsKey, AsksLastSeq, Subscribes, ReadsEntry,
       LosesEntries, EndsScan, FailsScan, Resets, copying, vars
  <2> QED
    BY <1>7, <2>1 DEF copying
<1>9. CASE CopyOpens \/ CopyFails \/ CopyEnds
  BY <1>7, <1>9 DEF CopyOpens, CopyFails, CopyEnds
<1> QED
  BY <1>6, <1>8, <1>9 DEF Next, Copying

\* A COPY statement puts a prefix of its rows, in their order, and all of them when it
\* reports success.
THEOREM CopyPutsRows == Spec => []CopyPutsPrefix
BY InitType, BaseKept, CopyStart, CopyKept, PTL DEF Spec

-----------------------------------------------------------------------------
\* The counters.

LEMMA NewestIsOne ==
  ASSUME NEW b \in Seq(Entries), NEW k, NEW r, NEW s, IsNewest(b, k, r), IsNewest(b, k, s)
  PROVE  r = s
<1>1. Len(b) \in Nat /\ r \in 1..Len(b) /\ s \in 1..Len(b) /\ b[r].key = k /\ b[s].key = k
  BY DEF IsNewest
<1>2. ~(r < s) /\ ~(s < r)
  BY <1>1 DEF IsNewest, Superseded
<1> QED
  BY <1>1, <1>2

LEMMA CounterStart == Init => ReadOK /\ CountedOK
BY DEF Init, ReadOK, CountedOK, NotRead

\* An entry that was put last has the value of its key.
LEMMA CurrentStays ==
  ASSUME BaseInv, NEW e \in Entries, Appends(e), NEW k, NEW v,
         \/ k # e.key /\ \E r \in 1..LastRevision : IsCurrent(bucket, k, r) /\ bucket[r].value >= v
         \/ k = e.key /\ e.op = "put" /\ e.value >= v
  PROVE  \E r \in 1..LastRevision' : IsCurrent(bucket', k, r) /\ bucket'[r].value >= v
<1>1. /\ bucket \in Seq(Entries) /\ bucket' = Append(bucket, e)
      /\ Len(bucket') = LastRevision + 1 /\ LastRevision \in Nat
  BY AppendsType DEF BaseInv, TypeOK
<1>2. /\ LastRevision' = LastRevision + 1 /\ LastRevision = Len(bucket)
      /\ bucket'[LastRevision + 1] = e
      /\ \A r \in 1..LastRevision : bucket'[r] = bucket[r] /\ r \in 1..LastRevision'
      /\ LastRevision + 1 \in 1..LastRevision'
  BY <1>1, AppendIs DEF LastRevision
<1>3. /\ \A r \in 1..LastRevision : IsNewest(bucket', k, r) <=> IsNewest(bucket, k, r) /\ k # e.key
      /\ IsNewest(bucket', k, LastRevision + 1) <=> k = e.key
  BY <1>1, <1>2, NewestIs
<1>4. CASE k = e.key /\ e.op = "put" /\ e.value >= v
  BY <1>2, <1>3, <1>4 DEF IsCurrent
<1>5. CASE k # e.key /\ \E r \in 1..LastRevision : IsCurrent(bucket, k, r) /\ bucket[r].value >= v
  BY <1>2, <1>3, <1>5 DEF IsCurrent
<1> QED
  BY <1>4, <1>5

LEMMA CounterKept == BaseInv /\ ReadOK /\ CountedOK /\ [Next]_vars => (ReadOK /\ CountedOK)'
<1> SUFFICES ASSUME BaseInv, ReadOK, CountedOK, [Next]_vars PROVE (ReadOK /\ CountedOK)'
  OBVIOUS
<1>0. /\ read \in [Writers -> [key : Keys \union {Null}, revision : 0..MaxRevisions, value : Nat]]
      /\ counted \in [Keys -> Nat] /\ bucket \in Seq(Entries) /\ LastRevision \in Nat
      /\ created \in Nat \ {0} /\ MaxRevisions \in Nat
  BY KvStoreAssumption DEF KvStoreAssumption, BaseInv, TypeOK, LastRevision
<1>1. CASE KvDeleteBucket
  BY <1>1 DEF KvDeleteBucket, session, ReadOK, CountedOK
<1>2. CASE KvCreateBucket
  BY <1>0, <1>2 DEF KvCreateBucket, ReadOK, CountedOK
<1>3. ASSUME ~Replaces, created = 1
      PROVE  ReadOK'
  <2>1. /\ exists' = exists /\ created' = created
        /\ LastRevision' \in Nat /\ LastRevision <= LastRevision'
        /\ \A r \in 1..LastRevision : bucket'[r] = bucket[r]
    BY <1>3, EntriesStay
  <2>2. ASSUME NEW w \in Writers, read'[w] = read[w] \/ read'[w] = NotRead
        PROVE  /\ read'[w].revision = 0 => read'[w].value = 0
               /\ exists' /\ read'[w].revision > 0 =>
                    /\ read'[w].revision \in 1..LastRevision'
                    /\ bucket'[read'[w].revision] = Put(read'[w].key, read'[w].value)
    <3>1. CASE read'[w] = read[w]
      BY <1>0, <1>3, <2>1, <3>1 DEF ReadOK
    <3>2. CASE read'[w] = NotRead
      BY <3>2 DEF NotRead
    <3> QED
      BY <2>2, <3>1, <3>2
  <2>3. CASE read' = read
    BY <2>2, <2>3 DEF ReadOK
  <2>4. ASSUME NEW w \in Writers, read' = [read EXCEPT ![w] = NotRead]
        PROVE  ReadOK'
    <3>1. \A u \in Writers : read'[u] = read[u] \/ read'[u] = NotRead
      BY <1>0, <2>4
    <3> QED
      BY <2>2, <3>1 DEF ReadOK
  <2>5. ASSUME NEW w \in Writers, NEW k \in Counters, KvGet(w, k)
        PROVE  ReadOK'
    <3>1. /\ \A u \in Writers : u # w => read'[u] = read[u]
          /\ UNCHANGED <<bucket, exists>>
          /\ \/ read'[w].revision = 0 /\ read'[w].value = 0
             \/ \E r \in 1..LastRevision :
                  IsCurrent(bucket, k, r) /\ read'[w] = [key |-> k, revision |-> r,
                                                         value |-> bucket[r].value]
      BY <1>0, <2>5 DEF KvGet, server
    <3>2. \A r \in 1..LastRevision :
            IsCurrent(bucket, k, r) => bucket[r] = Put(k, bucket[r].value)
      <4>1. \A r \in 1..LastRevision : bucket[r] \in Entries
        BY <1>0 DEF LastRevision
      <4> QED
        BY <4>1 DEF IsCurrent, IsNewest, Entries, Put
    <3>3. /\ read'[w].revision = 0 => read'[w].value = 0
          /\ read'[w].revision > 0 =>
               /\ read'[w].revision \in 1..LastRevision'
               /\ bucket'[read'[w].revision] = Put(read'[w].key, read'[w].value)
      <4>1. CASE read'[w].revision = 0 /\ read'[w].value = 0
        BY <4>1
      <4>2. CASE \E r \in 1..LastRevision :
                   IsCurrent(bucket, k, r) /\ read'[w] = [key |-> k, revision |-> r,
                                                          value |-> bucket[r].value]
        <5>1. PICK r \in 1..LastRevision :
                IsCurrent(bucket, k, r) /\ read'[w] = [key |-> k, revision |-> r,
                                                       value |-> bucket[r].value]
          BY <4>2
        <5>2. /\ read'[w].revision = r /\ read'[w].value = bucket[r].value /\ read'[w].key = k
              /\ bucket[r] = Put(k, bucket[r].value) /\ bucket'[r] = bucket[r]
          BY <2>1, <3>2, <5>1
        <5>3. r \in 1..LastRevision' /\ r > 0
          BY <1>0, <2>1
        <5> QED
          BY <5>2, <5>3
      <4> QED
        BY <3>1, <4>1, <4>2
    <3> QED
      BY <2>2, <3>1, <3>3 DEF ReadOK
  <2>6. CASE Scanning \/ Copying \/ UNCHANGED vars
    BY <2>3, <2>6 DEF Scanning, ListsKeys, GetsKey, AsksLastSeq, Subscribes, ReadsEntry,
       LosesEntries, EndsScan, FailsScan, Resets, Copying, CopyOpens, CopyPuts, CopyFails,
       CopyEnds, session, vars
  <2> QED
    BY <1>3, <2>3, <2>4, <2>5, <2>6 DEF Next, Writing, Replaces, KvPut, KvDelete, KvIncrement,
       KvIncrementFails
<1>4. ASSUME created = 1, NEW e \in Entries, Appends(e),
             \A k \in Keys : k # e.key => counted'[k] = counted[k],
             \/ counted'[e.key] = 0
             \/ e.op = "put" /\ e.value >= counted'[e.key]
      PROVE  CountedOK'
  <2>1. e.key \in Keys
    BY DEF Entries
  <2>2. ASSUME NEW k \in Keys, counted'[k] # 0
        PROVE  \E r \in 1..LastRevision' :
                 IsCurrent(bucket', k, r) /\ bucket'[r].value >= counted'[k]
    <3>1. CASE k = e.key
      BY <1>4, <2>2, <3>1, CurrentStays
    <3>2. CASE k # e.key
      <4>1. \E r \in 1..LastRevision : IsCurrent(bucket, k, r) /\ bucket[r].value >= counted'[k]
        BY <1>4, <2>2, <3>2 DEF CountedOK
      <4> QED
        BY <1>4, <3>2, <4>1, CurrentStays
    <3> QED
      BY <3>1, <3>2
  <2> QED
    BY <2>2 DEF CountedOK
<1>5. ASSUME created = 1, UNCHANGED <<bucket, counted>> PROVE CountedOK'
  BY <1>5 DEF CountedOK, LastRevision
<1>6. ASSUME created = 1, NEW k \in Keys, NEW e \in Entries, e.key = k, Appends(e), Overwrites(k)
      PROVE  CountedOK'
  BY <1>0, <1>4, <1>6 DEF Overwrites
<1>7. ASSUME created = 1, NEW w \in Writers, KvIncrement(w)
      PROVE  CountedOK'
  <2> DEFINE k == read[w].key
             v == read[w].value
             e == Put(k, v + 1)
  <2>1. k \in Keys /\ v \in Nat
    BY <1>0, <1>7 DEF KvIncrement, BaseInv, ReadKeys
  <2>2. e \in Entries /\ e.key = k /\ e.op = "put" /\ e.value = v + 1
    BY <2>1, EntryIs DEF Put
  <2>3. counted[k] \in Nat /\ v >= counted[k]
    <3>1. CASE counted[k] = 0
      BY <2>1, <3>1
    <3>2. CASE counted[k] # 0
      <4>1. PICK r \in 1..LastRevision : IsCurrent(bucket, k, r) /\ bucket[r].value >= counted[k]
        BY <1>7, <2>1, <3>2 DEF CountedOK
      <4>2. read[w].revision # 0 /\ IsNewest(bucket, k, read[w].revision)
        <5>1. ~MayCreate(k)
          BY <4>1 DEF MayCreate
        <5>2. ~NeverWritten(k)
          BY <4>1 DEF NeverWritten, IsCurrent, IsNewest
        <5> QED
          BY <1>7, <5>1, <5>2 DEF KvIncrement, MayUpdate
      <4>3. read[w].revision = r
        BY <1>0, <4>1, <4>2, NewestIsOne DEF IsCurrent
      <4>4. bucket[r] = Put(k, v)
        BY <1>7, <4>2, <4>3 DEF ReadOK, KvIncrement, Appends
      <4> QED
        BY <1>0, <2>1, <4>1, <4>4 DEF Put
    <3> QED
      BY <3>1, <3>2
  <2>4. Appends(e)
    BY <1>7 DEF KvIncrement
  <2>5. counted' = counted \/ counted' = [counted EXCEPT ![k] = counted[k] + 1]
    BY <1>7 DEF KvIncrement
  <2> HIDE DEF k, v, e
  <2>6. /\ \A j \in Keys : j # k => counted'[j] = counted[j]
        /\ v + 1 >= counted'[k]
    BY <1>0, <2>1, <2>3, <2>5
  <2> QED
    BY <1>4, <1>7, <2>2, <2>4, <2>6
<1>8. ASSUME created = 1, ~Replaces PROVE CountedOK'
  <2>1. CASE Writing
    <3>1. ASSUME NEW k \in Keys, KvPut(k) PROVE CountedOK'
      <4>1. Put(k, 0) \in Entries /\ Put(k, 0).key = k
        BY EntryIs DEF Put
      <4> QED
        BY <1>6, <1>8, <3>1, <4>1 DEF KvPut
    <3>2. ASSUME NEW k \in Keys, NEW op \in Removals, KvDelete(k, op) PROVE CountedOK'
      <4>1. [key |-> k, op |-> op, value |-> 0] \in Entries
        BY EntryIs
      <4> QED
        BY <1>6, <1>8, <3>2, <4>1 DEF KvDelete
    <3>3. ASSUME NEW w \in Writers, KvIncrementFails(w) \/ \E k \in Counters : KvGet(w, k)
          PROVE  CountedOK'
      BY <1>5, <1>8, <3>3 DEF KvIncrementFails, KvGet, server
    <3> QED
      BY <1>7, <1>8, <2>1, <3>1, <3>2, <3>3 DEF Writing, Replaces
  <2>2. CASE Scanning \/ UNCHANGED vars
    BY <1>5, <1>8, <2>2 DEF Scanning, ListsKeys, GetsKey, AsksLastSeq, Subscribes, ReadsEntry,
       LosesEntries, EndsScan, FailsScan, Resets, server, session, vars
  <2>3. CASE CopyPuts
    <3>1. /\ CopyRows \in Seq(Keys \union {Null}) /\ copied \in Seq(Revisions)
          /\ Len(copied) < Len(CopyRows) /\ NextRow # Null
          /\ Appends(Put(NextRow, 0)) /\ Overwrites(NextRow)
      BY <2>3, KvStoreAssumption DEF KvStoreAssumption, CopyPuts, BaseInv, TypeOK
    <3>2. NextRow \in Keys
      BY <3>1 DEF NextRow
    <3>3. Put(NextRow, 0) \in Entries /\ Put(NextRow, 0).key = NextRow
      BY <3>2, EntryIs DEF Put
    <3> QED
      BY <1>6, <1>8, <3>1, <3>2, <3>3
  <2>4. CASE CopyOpens \/ CopyFails \/ CopyEnds
    BY <1>5, <1>8, <2>4 DEF CopyOpens, CopyFails, CopyEnds, server, session
  <2> QED
    BY <2>1, <2>2, <2>3, <2>4 DEF Next, Copying
<1>9. CASE ~Replaces /\ created # 1
  <2>1. created' = created
    BY <1>9, EntriesStay
  <2> QED
    BY <1>9, <2>1 DEF ReadOK, CountedOK
<1> QED
  BY <1>1, <1>2, <1>3, <1>8, <1>9 DEF Replaces

\* Updates and creates lose no update.
THEOREM UpdatesAreKept == Spec => []NoLostUpdate
<1>1. BaseInv /\ CountedOK => NoLostUpdate
  <2> SUFFICES ASSUME BaseInv, CountedOK, created = 1, NEW k \in Keys, NEW r \in 1..LastRevision,
                      IsCurrent(bucket, k, r)
               PROVE  bucket[r].value >= counted[k]
    BY DEF NoLostUpdate
  <2>1. bucket \in Seq(Entries) /\ bucket[r] \in Entries
    BY DEF BaseInv, TypeOK, LastRevision
  <2>2. CASE counted[k] = 0
    BY <2>1, <2>2 DEF Entries
  <2>3. CASE counted[k] # 0
    <3>1. PICK s \in 1..LastRevision : IsCurrent(bucket, k, s) /\ bucket[s].value >= counted[k]
      BY <2>3 DEF CountedOK
    <3>2. r = s
      BY <2>1, <3>1, NewestIsOne DEF IsCurrent
    <3> QED
      BY <3>1, <3>2
  <2> QED
    BY <2>2, <2>3
<1> QED
  BY <1>1, InitType, BaseKept, CounterStart, CounterKept, PTL DEF Spec

-----------------------------------------------------------------------------
\* The mirror.

\* The server keeps the newest entry of a key.
LEMMA NewestIsKept ==
  ASSUME NEW k, NEW r, IsNewest(bucket, k, r)
  PROVE  Kept(bucket, History, r)
<1> DEFINE later == {q \in (r + 1)..Len(bucket) : bucket[q].key = bucket[r].key}
<1>1. later = {}
  BY DEF IsNewest, Superseded
<1>2. Cardinality({}) = 0
  BY FS_EmptySet
<1>3. Cardinality(later) < History
  <2> HIDE DEF later
  <2>1. 0 < History
    BY KvStoreAssumption DEF KvStoreAssumption
  <2>2. Cardinality(later) = 0
    BY <1>1, <1>2
  <2> QED
    BY <2>1, <2>2
<1>4. \A q \in later : bucket[q].op # "purge"
  BY <1>1
<1> QED
  BY <1>3, <1>4, Zenon DEF Kept

LEMMA MirrorStart == Init => MirrorInv
<1> SUFFICES ASSUME Init PROVE MirrorInv
  OBVIOUS
<1>1. /\ LastRevision = 0 /\ mirror = {} /\ cursor = 0 /\ scan = "idle" /\ rows = {} /\ top = 0
  BY DEF Init, LastRevision
<1>2. 1..0 = {}
  OBVIOUS
<1> QED
  BY <1>1, <1>2 DEF MirrorInv, IdleOK, ScanOK, ListedOK, StreamedOK, MirrorFollows

\* An entry more in the bucket.
LEMMA MirrorAppends ==
  ASSUME BaseInv, MirrorInv, NEW e \in Entries, Appends(e)
  PROVE  MirrorInv'
<1> DEFINE n == LastRevision
<1>1. /\ bucket \in Seq(Entries) /\ bucket' = Append(bucket, e)
      /\ Len(bucket') = n + 1 /\ n \in Nat /\ n = Len(bucket)
  BY AppendsType DEF BaseInv, TypeOK, LastRevision
<1>2. /\ LastRevision' = n + 1
      /\ \A r \in 1..n : bucket'[r] = bucket[r]
      /\ \A k : \A r \in 1..n : IsNewest(bucket', k, r) => IsNewest(bucket, k, r)
  <2>1. LastRevision' = n + 1
    BY <1>1 DEF LastRevision
  <2>2. \A r \in 1..Len(bucket) : Append(bucket, e)[r] = bucket[r]
    BY <1>1, AppendIs
  <2>3. \A k : \A r \in 1..Len(bucket) : IsNewest(bucket', k, r) => IsNewest(bucket, k, r)
    BY <1>1, NewestIs
  <2> QED
    BY <1>1, <2>1, <2>2, <2>3
<1>3. /\ UNCHANGED <<mirror, cursor, outdated, scan, todo, rows, top, lastSeq, pos>>
      /\ unseen' = IF scan = "keys" THEN unseen \union {n + 1} ELSE unseen
  BY <1>1 DEF Appends, table, query
<1>4. /\ cursor \in Nat /\ top \in Nat /\ lastSeq \in Nat /\ pos \in Nat
  BY KvStoreAssumption DEF KvStoreAssumption, BaseInv, TypeOK
<1> HIDE DEF n
<1>5. n = LastRevision
  BY DEF n
<1>6. IdleOK' /\ ScanOK'
  BY <1>1, <1>2, <1>3, <1>4, <1>5 DEF MirrorInv, IdleOK, ScanOK
<1>7. ListedOK'
  <2> SUFFICES ASSUME ~outdated, scan = "keys", ~(todo = {} /\ rows = {}),
                      NEW k \in Filter, NEW r \in 1..(n + 1), IsNewest(bucket', k, r),
                      r \notin unseen'
               PROVE  IF bucket'[r].op = "put" THEN k \in todo \/ r \in rows
                      ELSE \A q \in rows : bucket'[q].key # k
    BY <1>2, <1>3 DEF ListedOK
  <2>1. r \in 1..n /\ r \notin unseen
    BY <1>1, <1>3
  <2>2. IF bucket[r].op = "put" THEN k \in todo \/ r \in rows
        ELSE \A q \in rows : bucket[q].key # k
    BY <1>2, <1>5, <2>1 DEF MirrorInv, ListedOK
  <2>3. \A q \in rows : bucket'[q] = bucket[q]
    BY <1>1, <1>2, <1>4, <1>5 DEF MirrorInv, ScanOK
  <2> QED
    BY <1>2, <2>1, <2>2, <2>3
<1>8. StreamedOK'
  <2> SUFFICES ASSUME ~outdated, scan \in {"stream", "end"},
                      NEW k \in Filter, NEW r \in (cursor + 1)..(pos - 1),
                      r <= lastSeq, IsNewest(bucket', k, r), r \notin unseen
               PROVE  r \in rows
    BY <1>3 DEF StreamedOK
  <2>1. r \in 1..n
    BY <1>1, <1>4, <1>5 DEF MirrorInv, ScanOK
  <2> QED
    BY <1>2, <2>1 DEF MirrorInv, StreamedOK
<1>9. MirrorFollows'
  <2> SUFFICES ASSUME ~outdated, NEW k \in Filter, NEW r \in 1..cursor,
                      IsNewest(bucket', k, r), r \notin unseen
               PROVE  \/ r \in mirror
                      \/ bucket'[r].op # "put" /\ \A q \in mirror : bucket'[q].key # k
    BY <1>3 DEF MirrorFollows
  <2>1. r \in 1..n /\ \A q \in mirror : q \in 1..n
    BY <1>1, <1>4, <1>5 DEF MirrorInv, ScanOK
  <2>2. \/ r \in mirror
        \/ bucket[r].op # "put" /\ \A q \in mirror : bucket[q].key # k
    BY <1>2, <2>1 DEF MirrorInv, MirrorFollows
  <2> QED
    BY <1>2, <2>1, <2>2
<1> QED
  BY <1>6, <1>7, <1>8, <1>9 DEF MirrorInv

\* The bucket is deleted, or created again.
LEMMA MirrorReplaces ==
  ASSUME BaseInv, MirrorInv, Replaces
  PROVE  MirrorInv'
<1>1. CASE KvCreateBucket
  <2>1. UNCHANGED <<bucket, mirror, cursor, outdated, scan, todo, rows, top, lastSeq, pos, unseen>>
    BY <1>1 DEF KvCreateBucket, table, query
  <2> QED
    BY <2>1 DEF MirrorInv, IdleOK, ScanOK, ListedOK, StreamedOK, MirrorFollows, LastRevision
<1>2. CASE KvDeleteBucket
  <2>1. /\ UNCHANGED <<mirror, cursor, rows, top>>
        /\ scan' = IF scan = "stream" THEN "gone" ELSE scan
        /\ outdated' = (outdated \/ mirror # {} \/ scan # "idle")
        /\ bucket' = <<>>
    BY <1>2 DEF KvDeleteBucket
  <2>2. IdleOK'
    BY <2>1 DEF MirrorInv, IdleOK
  <2>3. CASE outdated'
    BY <2>2, <2>3 DEF MirrorInv, ScanOK, ListedOK, StreamedOK, MirrorFollows
  <2>4. CASE ~outdated'
    <3>1. ~outdated /\ mirror = {} /\ scan = "idle" /\ scan' = "idle" /\ rows = {} /\ top = 0
      BY <2>1, <2>4 DEF MirrorInv, IdleOK
    <3>2. cursor = 0
      BY <3>1, KvStoreAssumption DEF KvStoreAssumption, MirrorInv, ScanOK, BaseInv, TypeOK
    <3>3. LastRevision' = 0 /\ 1..0 = {}
      BY <2>1 DEF LastRevision
    <3>4. ScanOK'
      BY <2>1, <3>1, <3>2, <3>3 DEF ScanOK
    <3>5. ListedOK' /\ StreamedOK' /\ MirrorFollows'
      BY <2>1, <3>1, <3>2, <3>3 DEF ListedOK, StreamedOK, MirrorFollows
    <3> QED
      BY <2>2, <3>4, <3>5 DEF MirrorInv
  <2> QED
    BY <2>3, <2>4
<1> QED
  BY <1>1, <1>2 DEF Replaces

\* What the steps of a scan use.
LEMMA ScanFacts ==
  ASSUME BaseInv
  PROVE  /\ bucket \in Seq(Entries) /\ LastRevision \in Nat /\ LastRevision = Len(bucket)
         /\ cursor \in Nat /\ top \in Nat /\ lastSeq \in Nat /\ pos \in Nat
         /\ \A r \in rows \union mirror : r \in Nat
BY KvStoreAssumption DEF KvStoreAssumption, BaseInv, TypeOK, LastRevision, Revisions

\* A row that is taken.
LEMMA TakesIs ==
  ASSUME BaseInv, NEW r \in Nat \ {0}, Takes(r), rows \subseteq 1..top, top # 0 => top \in rows
  PROVE  /\ rows' = rows \union {r} /\ rows' \subseteq 1..top' /\ top' \in rows' /\ top' \in Nat
         /\ top' \in {r, top}
<1>1. top \in Nat
  BY ScanFacts
<1> QED
  BY <1>1 DEF Takes

\* A fetched key.
LEMMA MirrorGets ==
  ASSUME BaseInv, MirrorInv, NEW key \in Filter, GetsKey(key)
  PROVE  MirrorInv'
<1>0. UNCHANGED <<bucket, mirror, cursor, outdated, scan, lastSeq, pos, unseen>>
  BY DEF GetsKey, server, table
<1>1. LastRevision' = LastRevision /\ LastRevision \in Nat /\ bucket \in Seq(Entries)
  BY <1>0, ScanFacts DEF LastRevision
<1>2. scan = "keys" /\ key \in todo /\ todo' = todo \ {key}
  BY DEF GetsKey
<1>3. IdleOK' /\ StreamedOK' /\ MirrorFollows'
  BY <1>0, <1>1, <1>2 DEF MirrorInv, IdleOK, StreamedOK, MirrorFollows
<1>4. ASSUME ~outdated PROVE ScanOK' /\ ListedOK'
  <2>1. /\ scan # "gone" /\ cursor <= LastRevision /\ mirror \subseteq 1..cursor
        /\ cursor > 0 => mirror # {}
        /\ rows \subseteq 1..top /\ (top # 0 => top \in rows)
        /\ cursor = 0 /\ top <= LastRevision
    BY <1>2, <1>4 DEF MirrorInv, ScanOK
  <2>2. \A k \in Filter, r \in 1..LastRevision :
          IsNewest(bucket, k, r) /\ r \notin unseen =>
            IF bucket[r].op = "put" THEN k \in todo \/ r \in rows
            ELSE \A q \in rows : bucket[q].key # k
    BY <1>2, <1>4 DEF MirrorInv, ListedOK
  <2>3. CASE \A r \in 1..LastRevision : ~IsCurrent(bucket, key, r)
    <3>1. UNCHANGED <<rows, top>>
      BY <2>3 DEF GetsKey
    <3>2. ScanOK'
      BY <1>0, <1>1, <1>2, <2>1, <3>1 DEF ScanOK
    <3>3. ListedOK'
      BY <1>0, <1>1, <1>2, <2>2, <2>3, <3>1 DEF ListedOK, IsCurrent
    <3> QED
      BY <3>2, <3>3
  <2>4. ASSUME NEW r \in 1..LastRevision, IsCurrent(bucket, key, r), Takes(r)
        PROVE  ScanOK' /\ ListedOK'
    <3>1. /\ rows' = rows \union {r} /\ rows' \subseteq 1..top' /\ top' \in rows'
          /\ top' <= LastRevision
      BY <1>1, <2>1, <2>4, TakesIs
    <3>2. ScanOK'
      BY <1>0, <1>1, <1>2, <2>1, <3>1 DEF ScanOK
    <3>3. ASSUME NEW k \in Filter, NEW s \in 1..LastRevision, IsNewest(bucket, k, s),
                 s \notin unseen
          PROVE  IF bucket[s].op = "put" THEN k \in todo' \/ s \in rows'
                 ELSE \A q \in rows' : bucket[q].key # k
      <4>1. IsNewest(bucket, key, r) /\ bucket[r].op = "put" /\ bucket[r].key = key
        BY <2>4 DEF IsCurrent, IsNewest
      <4>2. k = key => s = r
        BY <1>1, <3>3, <4>1, NewestIsOne
      <4> QED
        BY <1>2, <2>2, <3>1, <3>3, <4>1, <4>2
    <3>4. ListedOK'
      BY <1>0, <1>1, <3>3 DEF ListedOK
    <3> QED
      BY <3>2, <3>4
  <2> QED
    BY <2>3, <2>4 DEF GetsKey
<1>5. CASE outdated
  BY <1>0, <1>3, <1>5 DEF MirrorInv, ScanOK, ListedOK
<1> QED
  BY <1>3, <1>4, <1>5 DEF MirrorInv

\* A delivered entry.
LEMMA MirrorReads ==
  ASSUME BaseInv, MirrorInv, ReadsEntry
  PROVE  MirrorInv'
<1>0. UNCHANGED <<bucket, mirror, cursor, outdated, todo, lastSeq, unseen>>
  BY DEF ReadsEntry, server, table
<1>1. /\ LastRevision' = LastRevision /\ LastRevision \in Nat /\ bucket \in Seq(Entries)
      /\ LastRevision = Len(bucket)
      /\ cursor \in Nat /\ top \in Nat /\ lastSeq \in Nat /\ pos \in Nat
  BY <1>0, ScanFacts DEF LastRevision
<1>2. PICK r \in Revisions :
        /\ IsNext(r) /\ scan = "stream" /\ pos' = r + 1
        /\ IF r <= lastSeq THEN Takes(r) ELSE UNCHANGED <<rows, top>>
        /\ scan' = IF r >= lastSeq THEN "end" ELSE "stream"
  BY DEF ReadsEntry, IsRow
<1>3. r \in pos..LastRevision /\ \A q \in Deliverable : r <= q
  BY <1>2 DEF IsNext, Deliverable
<1>4. IdleOK' /\ MirrorFollows' /\ scan' \in {"stream", "end"}
  BY <1>0, <1>2 DEF MirrorInv, IdleOK, MirrorFollows
<1>5. ASSUME ~outdated PROVE ScanOK' /\ StreamedOK'
  <2>1. /\ cursor <= LastRevision /\ mirror \subseteq 1..cursor
        /\ cursor > 0 => mirror # {}
        /\ rows \subseteq 1..top /\ (top # 0 => top \in rows)
        /\ lastSeq <= LastRevision
        /\ rows \subseteq (cursor + 1)..(pos - 1)
        /\ cursor < pos /\ top <= lastSeq
    BY <1>2, <1>5 DEF MirrorInv, ScanOK
  <2>2. r \in Nat \ {0} /\ cursor < r /\ pos <= r /\ r <= LastRevision
    BY <1>1, <1>3, <2>1
  <2>3. /\ rows' \subseteq 1..top' /\ (top' # 0 => top' \in rows')
        /\ rows' \subseteq (cursor + 1)..(pos' - 1) /\ top' <= lastSeq
        /\ rows \subseteq rows'
        /\ r <= lastSeq => r \in rows'
    <3>1. CASE r <= lastSeq
      <4>1. /\ rows' = rows \union {r} /\ rows' \subseteq 1..top' /\ top' \in rows'
            /\ top' \in {r, top}
        BY <1>2, <2>1, <2>2, <3>1, TakesIs
      <4>2. \A q \in rows : q \in (cursor + 1)..(pos' - 1)
        BY <1>1, <1>2, <2>1, <2>2
      <4>3. r \in (cursor + 1)..(pos' - 1)
        BY <1>1, <1>2, <2>2
      <4> QED
        BY <2>1, <3>1, <4>1, <4>2, <4>3
    <3>2. CASE ~(r <= lastSeq)
      <4>1. rows' = rows /\ top' = top
        BY <1>2, <3>2
      <4>2. \A q \in rows : q \in (cursor + 1)..(pos' - 1)
        BY <1>1, <1>2, <2>1, <2>2
      <4> QED
        BY <2>1, <3>2, <4>1, <4>2
    <3> QED
      BY <3>1, <3>2
  <2>4. ScanOK'
    <3>1. scan' \in {"stream", "end"} /\ pos' <= LastRevision' + 1 /\ cursor' < pos'
      BY <1>0, <1>1, <1>2, <1>4, <2>2
    <3> QED
      BY <1>0, <1>1, <2>1, <2>3, <3>1 DEF ScanOK
  <2>5. ASSUME NEW k \in Filter, NEW s \in (cursor + 1)..(pos' - 1), s <= lastSeq,
               IsNewest(bucket, k, s), s \notin unseen
        PROVE  s \in rows'
    <3>1. CASE s \in (cursor + 1)..(pos - 1)
      BY <1>2, <1>5, <2>3, <2>5, <3>1 DEF MirrorInv, StreamedOK
    <3>2. CASE ~(s \in (cursor + 1)..(pos - 1))
      <4>1. s \in pos..LastRevision /\ s <= r
        BY <1>1, <1>2, <2>2, <2>5, <3>2
      <4>2. Kept(bucket, History, s) /\ bucket[s].key \in Filter
        BY <2>5, NewestIsKept DEF IsNewest
      <4>3. r <= s
        BY <1>3, <4>1, <4>2 DEF Deliverable
      <4>4. s = r
        BY <1>1, <2>2, <4>1, <4>3
      <4> QED
        BY <2>3, <2>5, <4>4
    <3> QED
      BY <3>1, <3>2
  <2>6. StreamedOK'
    BY <1>0, <2>5 DEF StreamedOK
  <2> QED
    BY <2>4, <2>6
<1>6. ListedOK'
  BY <1>4 DEF ListedOK
<1>7. CASE outdated
  BY <1>0, <1>4, <1>6, <1>7 DEF MirrorInv, ScanOK, StreamedOK
<1> QED
  BY <1>4, <1>5, <1>6, <1>7 DEF MirrorInv

\* The end of a scan: the mirror takes its rows.
LEMMA MirrorEnds ==
  ASSUME BaseInv, MirrorInv, EndsScan
  PROVE  MirrorInv'
<1>0. UNCHANGED <<bucket, outdated, unseen>>
  BY DEF EndsScan, server
<1>1. /\ LastRevision' = LastRevision /\ LastRevision \in Nat /\ bucket \in Seq(Entries)
      /\ LastRevision = Len(bucket)
      /\ cursor \in Nat /\ top \in Nat /\ lastSeq \in Nat /\ pos \in Nat
  BY <1>0, ScanFacts DEF LastRevision
<1>2. /\ scan' = "idle" /\ rows' = {} /\ top' = 0 /\ todo' = {}
      /\ mirror' = mirror \union rows
      /\ cursor' = IF top > cursor THEN top ELSE cursor
  BY DEF EndsScan, ForgetsQuery
<1>3. IdleOK' /\ ListedOK' /\ StreamedOK'
  BY <1>2 DEF IdleOK, ListedOK, StreamedOK
<1>4. ASSUME ~outdated PROVE ScanOK' /\ MirrorFollows'
  <2>1. /\ cursor <= LastRevision /\ mirror \subseteq 1..cursor
        /\ cursor > 0 => mirror # {}
        /\ rows \subseteq 1..top /\ (top # 0 => top \in rows)
    BY <1>4 DEF MirrorInv, ScanOK
  <2>2. top <= LastRevision
    BY <1>1, <1>4 DEF EndsScan, MirrorInv, ScanOK
  <2>3. ScanOK'
    <3>1. cursor' \in Nat /\ cursor' <= LastRevision /\ cursor <= cursor' /\ top <= cursor'
      BY <1>1, <1>2, <2>1, <2>2
    <3>2. mirror' \subseteq 1..cursor'
      BY <1>1, <1>2, <2>1, <3>1
    <3>3. cursor' > 0 => mirror' # {}
      BY <1>1, <1>2, <2>1
    <3> QED
      BY <1>1, <1>2, <3>1, <3>2, <3>3 DEF ScanOK
  <2>4. ASSUME NEW k \in Filter, NEW r \in 1..cursor', IsNewest(bucket, k, r), r \notin unseen
        PROVE  \/ r \in mirror'
               \/ bucket[r].op # "put" /\ \A q \in mirror' : bucket[q].key # k
    <3>1. CASE scan = "keys" /\ todo = {}
      <4>1. cursor = 0 /\ mirror = {}
        BY <1>1, <1>4, <2>1, <3>1 DEF MirrorInv, ScanOK
      <4>2. r \in 1..LastRevision /\ rows # {} /\ mirror' = rows
        BY <1>1, <1>2, <2>1, <2>2, <2>4, <4>1
      <4>3. IF bucket[r].op = "put" THEN k \in todo \/ r \in rows
            ELSE \A q \in rows : bucket[q].key # k
        BY <1>4, <2>4, <3>1, <4>2 DEF MirrorInv, ListedOK
      <4> QED
        BY <3>1, <4>2, <4>3
    <3>2. CASE scan \in {"stream", "end"}
      <4>1. rows \subseteq (cursor + 1)..(pos - 1) /\ top <= lastSeq
        BY <1>4, <3>2 DEF MirrorInv, ScanOK
      <4>2. CASE r <= cursor
        <5>1. \/ r \in mirror
              \/ bucket[r].op # "put" /\ \A q \in mirror : bucket[q].key # k
          BY <1>1, <1>4, <2>4, <4>2 DEF MirrorInv, MirrorFollows
        <5>2. \A q \in rows : q \in (r + 1)..Len(bucket)
          BY <1>1, <2>1, <2>2, <4>1, <4>2
        <5>3. \A q \in rows : bucket[q].key # k
          BY <2>4, <5>2 DEF IsNewest, Superseded
        <5> QED
          BY <1>2, <5>1, <5>3
      <4>3. CASE ~(r <= cursor)
        <5>1. r \in 1..top /\ top \in rows
          BY <1>1, <1>2, <2>1, <2>4, <4>3
        <5>2. r \in (cursor + 1)..(pos - 1) /\ r <= lastSeq
          BY <1>1, <4>1, <4>3, <5>1
        <5> QED
          BY <1>2, <1>4, <2>4, <3>2, <5>2 DEF MirrorInv, StreamedOK
      <4> QED
        BY <4>2, <4>3
    <3> QED
      BY <3>1, <3>2 DEF EndsScan
  <2>5. MirrorFollows'
    BY <1>0, <2>4 DEF MirrorFollows
  <2> QED
    BY <2>3, <2>5
<1>5. CASE outdated
  BY <1>0, <1>3, <1>5 DEF MirrorInv, ScanOK, MirrorFollows
<1> QED
  BY <1>3, <1>4, <1>5 DEF MirrorInv

LEMMA MirrorKept == BaseInv /\ MirrorInv /\ [Next]_vars => MirrorInv'
<1> SUFFICES ASSUME BaseInv, MirrorInv, [Next]_vars PROVE MirrorInv'
  OBVIOUS
<1>0. /\ LastRevision \in Nat /\ LastRevision = Len(bucket)
      /\ cursor \in Nat /\ top \in Nat /\ lastSeq \in Nat /\ pos \in Nat
  BY ScanFacts
<1>1. CASE UNCHANGED <<bucket, table, query, unseen>>
  <2>1. UNCHANGED <<bucket, mirror, cursor, outdated, scan, todo, rows, top, lastSeq, pos, unseen>>
    BY <1>1 DEF table, query
  <2> QED
    BY <2>1 DEF MirrorInv, IdleOK, ScanOK, ListedOK, StreamedOK, MirrorFollows, LastRevision
<1>2. CASE ~Scanning
  <2>1. CASE \E e \in Entries : Appends(e)
    BY <2>1, MirrorAppends
  <2>2. CASE Replaces
    BY <2>2, MirrorReplaces
  <2>3. CASE UNCHANGED server
    <3>1. \A e : Appends(e) => Len(bucket') = Len(bucket) + 1
      <4>1. bucket \in Seq(Entries)
        BY ScanFacts
      <4> QED
        BY <4>1 DEF Appends
    <3>2. \A e : ~Appends(e)
      <4>1. Len(bucket') = Len(bucket)
        BY <2>3 DEF server
      <4> QED
        BY <1>0, <3>1, <4>1
    <3>3. CASE Writing \/ Copying \/ UNCHANGED vars
      BY <1>1, <2>2, <3>2, <3>3 DEF Writing, Replaces, KvPut, KvDelete, KvGet, KvIncrement,
         KvIncrementFails, Copying, CopyOpens, CopyPuts, CopyFails, CopyEnds, server, vars
    <3> QED
      BY <1>2, <3>3 DEF Next
  <2> QED
    BY <2>1, <2>2, <2>3, BucketSteps
<1>3. CASE ListsKeys
  <2>1. /\ UNCHANGED <<bucket, mirror, cursor, outdated, rows, top, lastSeq, pos, unseen>>
        /\ scan = "idle" /\ scan' = "keys" /\ cursor = 0
    BY <1>3 DEF ListsKeys, server, table
  <2>2. rows = {} /\ top = 0 /\ LastRevision' = LastRevision
    BY <2>1 DEF MirrorInv, IdleOK, LastRevision
  <2>3. ListedOK'
    BY <1>3, <2>1, <2>2 DEF ListsKeys, ListedOK, IsCurrent
  <2> QED
    BY <1>0, <2>1, <2>2, <2>3 DEF MirrorInv, IdleOK, ScanOK, StreamedOK, MirrorFollows
<1>4. CASE AsksLastSeq
  <2>1. /\ UNCHANGED <<bucket, mirror, cursor, outdated, rows, top, todo, pos, unseen>>
        /\ scan = "idle" /\ scan' = "info" /\ lastSeq' = LastRevision
    BY <1>4 DEF AsksLastSeq, server, table
  <2>2. rows = {} /\ top = 0 /\ LastRevision' = LastRevision
    BY <2>1 DEF MirrorInv, IdleOK, LastRevision
  <2> QED
    BY <1>0, <2>1, <2>2 DEF MirrorInv, IdleOK, ScanOK, ListedOK, StreamedOK, MirrorFollows
<1>5. CASE Subscribes
  <2>1. /\ UNCHANGED <<bucket, mirror, cursor, outdated, rows, top, todo, lastSeq, unseen>>
        /\ scan = "info" /\ pos' = cursor + 1
        /\ scan' = IF cursor + 1 > lastSeq THEN "end" ELSE "stream"
    BY <1>5 DEF Subscribes, StartSeq, server, table
  <2>2. LastRevision' = LastRevision /\ scan' \in {"stream", "end"}
    BY <2>1 DEF LastRevision
  <2>3. IdleOK' /\ ListedOK' /\ MirrorFollows'
    BY <2>1, <2>2 DEF MirrorInv, IdleOK, ListedOK, MirrorFollows
  <2>4. ASSUME ~outdated PROVE ScanOK' /\ StreamedOK'
    <3>1. rows = {} /\ top = 0 /\ lastSeq <= LastRevision
      BY <1>0, <2>1, <2>4 DEF MirrorInv, ScanOK
    <3>2. (cursor + 1)..(pos' - 1) = {}
      BY <1>0, <2>1
    <3>3. StreamedOK'
      BY <2>1, <3>2 DEF StreamedOK
    <3>4. ScanOK'
      BY <1>0, <2>1, <2>2, <2>4, <3>1 DEF MirrorInv, ScanOK
    <3> QED
      BY <3>3, <3>4
  <2>5. CASE outdated
    BY <2>1, <2>3, <2>5 DEF MirrorInv, ScanOK, StreamedOK
  <2> QED
    BY <2>3, <2>4, <2>5 DEF MirrorInv
<1>6. CASE LosesEntries
  <2>1. /\ UNCHANGED <<bucket, mirror, cursor, outdated, scan, rows, top, todo, lastSeq>>
        /\ scan = "stream"
    BY <1>6 DEF LosesEntries, server, table
  <2>2. PICK p \in pos..LastRevision : pos' = p + 1 /\ unseen' = unseen \union pos..p
    BY <1>6 DEF LosesEntries
  <2>3. LastRevision' = LastRevision /\ IdleOK' /\ ListedOK'
    BY <2>1 DEF LastRevision, IdleOK, ListedOK
  <2>4. MirrorFollows'
    BY <2>1, <2>2 DEF MirrorInv, MirrorFollows
  <2>5. ASSUME ~outdated PROVE ScanOK' /\ StreamedOK'
    <3>1. pos <= p /\ p <= LastRevision /\ p \in Nat /\ pos <= pos'
      BY <1>0, <2>2
    <3>2. ScanOK'
      BY <1>0, <2>1, <2>2, <2>3, <2>5, <3>1 DEF MirrorInv, ScanOK
    <3>3. \A s \in (cursor + 1)..(pos' - 1) : s \in (cursor + 1)..(pos - 1) \/ s \in pos..p
      BY <1>0, <2>2, <3>1
    <3>4. StreamedOK'
      BY <2>1, <2>2, <2>5, <3>3 DEF MirrorInv, StreamedOK
    <3> QED
      BY <3>2, <3>4
  <2>6. CASE outdated
    BY <2>1, <2>3, <2>4, <2>6 DEF MirrorInv, ScanOK, StreamedOK
  <2> QED
    BY <2>3, <2>4, <2>5, <2>6 DEF MirrorInv
<1>7. CASE FailsScan
  <2>1. /\ UNCHANGED <<bucket, mirror, cursor, outdated, unseen>>
        /\ scan' = "idle" /\ rows' = {} /\ top' = 0
    BY <1>7 DEF FailsScan, ForgetsQuery, server, table
  <2>2. LastRevision' = LastRevision
    BY <2>1 DEF LastRevision
  <2> QED
    BY <1>0, <2>1, <2>2 DEF MirrorInv, IdleOK, ScanOK, ListedOK, StreamedOK, MirrorFollows
<1>8. CASE Resets
  <2>1. /\ UNCHANGED <<bucket, rows, top, scan>> /\ scan = "idle"
        /\ mirror' = {} /\ cursor' = 0
    BY <1>8 DEF Resets, server, query
  <2>2. rows = {} /\ top = 0 /\ LastRevision' = LastRevision
    BY <2>1 DEF MirrorInv, IdleOK, LastRevision
  <2> QED
    BY <1>0, <2>1, <2>2 DEF IdleOK, MirrorInv, ScanOK, ListedOK, StreamedOK, MirrorFollows
<1> QED
  BY <1>2, <1>3, <1>4, <1>5, <1>6, <1>7, <1>8, MirrorGets, MirrorReads, MirrorEnds DEF Scanning

\* A mirror kept by incremental scans misses nothing for ever.
THEOREM MirrorMissesNothing == Spec => []MirrorFollows
<1>1. MirrorInv => MirrorFollows
  BY DEF MirrorInv
<1> QED
  BY <1>1, InitType, BaseKept, MirrorStart, MirrorKept, PTL DEF Spec
================================================================================
