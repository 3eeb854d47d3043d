------------------------------ MODULE StreamScan ------------------------------
(***************************************************************************)
(* One nats_scan over a JetStream stream that is written to, expires and   *)
(* is purged meanwhile: NatsScanBind, NatsScanInitGlobal with its binary   *)
(* search by Direct Get, and NatsScanExecute (src/src/nats_scan.cpp),      *)
(* which takes its messages from Next of the batch source.  Every answer   *)
(* of the server is an action of its own.                                  *)
(*                                                                         *)
(* The server and the NATS client are external.  Message times never       *)
(* decrease with the sequence number.  Columns and payloads are left out,  *)
(* so the vector a row lands in does not matter either.                    *)
(***************************************************************************)
EXTENDS SubjectPattern, FiniteSets

CONSTANTS
  MaxSeq,          \* bound on the sequence numbers of the stream
  MaxTime,         \* bound on message times
  UINT64_MAX,      \* any number no message has: "no limit", "not found"
  StreamSubjects,  \* the subject patterns of the stream's configuration
  Subjects,        \* the subjects that are published to
  NoFilter,        \* nats_subject or subject_contains is not given
  Requests,        \* parameter combinations of nats_scan
  BatchSize,
  LossyLink        \* whether a connection may break while messages are under way

SeqLimit == 0..MaxSeq + 1 \union {UINT64_MAX}

\* The parameters; for subject_contains, the subjects in which the text occurs.
Parameters ==
  [start_seq : SeqLimit, end_seq : SeqLimit,
   start_time : 0..MaxTime + 1, end_time : 0..MaxTime + 1,
   subject_contains : SUBSET Subjects \union {NoFilter},
   nats_subject : Seq(Token) \union {NoFilter}]

ASSUME ScanAssumption ==
  /\ MaxSeq \in Nat /\ MaxTime \in Nat
  /\ UINT64_MAX \in Nat /\ UINT64_MAX > MaxSeq + 1
  /\ StreamSubjects \subseteq Seq(Token) /\ Subjects \subseteq Seq(Token)
  /\ Requests \subseteq Parameters
  /\ BatchSize \in Nat \ {0}
  /\ LossyLink \in BOOLEAN

VARIABLES
  log,       \* every message ever stored: its time and subject
  present,   \* sequence numbers of the messages that are still stored
  stage,     \* how far the query has come
  req,       \* its parameters
  info,      \* stream_info, as it was when it was read
  cur, end,  \* current_seq and end_seq
  target,    \* target_message_count
  left, right, found,   \* ResolveTimestampToSequence
  pos,       \* the server's consumer: where it reads on
  batch,     \* messages of the batch source that Next has not returned
  rows,      \* sequence numbers of the rows of the result, in their order
  missed,    \* history: searches in which a probe met a deleted message
  cut        \* history: the client gave up on, or lost, a message

stream == <<log, present>>
search == <<left, right, found, missed>>
reading == <<pos, batch, rows, cut>>
vars == <<log, present, stage, req, info, cur, end, target, left, right, found, pos,
          batch, rows, missed, cut>>

LeastOf(S) == CHOOSE q \in S : \A r \in S : q <= r

TimeOf(q) == log[q].time
SubjectOf(q) == log[q].subject

-----------------------------------------------------------------------------
\* The stream.

\* FirstSeq and LastSeq: the last number is never taken back, and an emptied stream
\* starts behind it.
StateOf(last, stored) ==
  [first |-> IF stored # {} THEN LeastOf(stored) ELSE IF last = 0 THEN 0 ELSE last + 1,
   last  |-> last,
   msgs  |-> stored]

StreamState == StateOf(Len(log), present)

\* The Deleted list of the stream state.
Deleted(s) == (s.first..s.last) \ s.msgs

\* What happens after the query has ended does not concern it.
Open == stage \notin {"done", "failed"}

Publish ==
  /\ Open /\ Len(log) < MaxSeq
  /\ \E t \in 1..MaxTime, s \in Subjects :
       /\ log # <<>> => t >= TimeOf(Len(log))
       /\ log' = Append(log, [time |-> t, subject |-> s])
  /\ present' = present \union {Len(log) + 1}
  /\ UNCHANGED <<stage, req, info, cur, end, target, search, reading>>

\* A limit, a purge or a deletion.
Expire ==
  /\ Open
  /\ \E q \in present : present' = present \ {q}
  /\ UNCHANGED <<log, stage, req, info, cur, end, target, search, reading>>

-----------------------------------------------------------------------------
\* Ranges of sequence numbers.

\* Counts deletions without regard to the range.
CountAllDeleted(s, from, to) == Cardinality(Deleted(s))

CountDeletedInRange(s, from, to) == Cardinality({q \in Deleted(s) : from <= q /\ q <= to})

Larger(x, y) == IF x >= y THEN x ELSE y
Smaller(x, y) == IF x <= y THEN x ELSE y

\* Looks only for messages in the stream.
OverlapsIfAny(s, from, to) == s.msgs # {}

Overlaps(s, from, to) == s.msgs # {} /\ to >= s.first /\ from <= s.last

CountAvailableInSequenceRange(s, from, to) ==
  LET first == Larger(from, s.first)
      last  == Smaller(to, s.last)
      gone  == CountDeletedInRange(s, first, last)
  IN IF ~Overlaps(s, from, to) THEN 0
     ELSE IF last - first + 1 >= gone THEN last - first + 1 - gone ELSE 0

\* The row of nats_stream_range_stats.
RangeStats(s, from, to) ==
  LET first == Larger(from, s.first)
      last  == Smaller(to, s.last)
      deleted == IF Overlaps(s, from, to) THEN CountDeletedInRange(s, first, last) ELSE 0
      overlap == IF Overlaps(s, from, to) THEN last - first + 1 ELSE 0
  IN [requested_messages |-> to - from + 1,
      overlap_messages   |-> overlap,
      available_messages |-> overlap - deleted,
      has_gaps           |-> from < s.first \/ to > s.last \/ deleted > 0]

-----------------------------------------------------------------------------
\* What the query asks for.

HasSeqRange(r) == r.start_seq > 0 \/ r.end_seq # UINT64_MAX
HasTimeRange(r) == r.start_time > 0 \/ r.end_time > 0

\* The text filter, on the client.
PassesText(q) == req.subject_contains = NoFilter \/ SubjectOf(q) \in req.subject_contains

\* The server's filter.
PassesFilter(q) == req.nats_subject = NoFilter \/ Matches(SubjectOf(q), req.nats_subject)

\* NatsScanBind checks the parameters.
Bind ==
  /\ stage = "bind"
  /\ stage' = IF HasSeqRange(req) /\ HasTimeRange(req) THEN "failed" ELSE "info"
  /\ UNCHANGED <<stream, req, info, cur, end, target, search, reading>>

\* The second search keeps the result of the first.
BeginSearchUnreset(s) ==
  /\ left' = s.first
  /\ right' = s.last
  /\ UNCHANGED found

\* The search for a time over the whole stream.
BeginSearch(s) ==
  /\ left' = s.first
  /\ right' = s.last
  /\ found' = UINT64_MAX

\* NatsScanInitGlobal up to the time range.
GetStreamInfo ==
  /\ stage = "info"
  /\ info' = StreamState
  /\ cur' = IF req.start_seq > 0 THEN req.start_seq ELSE 1
  /\ end' = IF req.end_seq = UINT64_MAX THEN info'.last ELSE req.end_seq
  /\ BeginSearch(info')
  /\ stage' = CASE req.start_time > 0 -> "from_time"
                [] req.start_time = 0 /\ req.end_time > 0 -> "to_time"
                [] ~HasTimeRange(req) -> "plan"
  /\ UNCHANGED <<stream, req, target, missed, reading>>

-----------------------------------------------------------------------------
\* ResolveTimestampToSequence, one Direct Get after the other.

Searching == stage \in {"from_time", "to_time"}

SoughtTime == IF stage = "from_time" THEN req.start_time ELSE req.end_time

Mid == left + (right - left) \div 2

\* The message in the middle is gone: the lower half is given up.  For the number 0 of a
\* stream that was never used the server may answer so, or refuse it, which is Fails.
ProbeMisses ==
  /\ Searching /\ left <= right
  /\ Mid \notin present
  /\ left' = Mid + 1
  /\ missed' = missed \union {stage}
  /\ UNCHANGED <<stream, stage, req, info, cur, end, target, right, found, reading>>

Hits(q) == TimeOf(q) >= SoughtTime

ProbeFinds ==
  /\ Searching /\ left <= right
  /\ Mid \in present
  /\ IF Hits(Mid)
     THEN found' = Mid /\ right' = Mid - 1 /\ UNCHANGED left
     ELSE left' = Mid + 1 /\ UNCHANGED <<found, right>>
  /\ UNCHANGED <<stream, stage, req, info, cur, end, target, missed, reading>>

\* Nothing is as late as start_time: the result is empty.
NothingSince ==
  /\ stage = "from_time" /\ left > right /\ found = UINT64_MAX
  /\ stage' = "done"
  /\ UNCHANGED <<stream, req, info, cur, end, target, search, reading>>

StartsAtFound ==
  /\ stage = "from_time" /\ left > right /\ found # UINT64_MAX
  /\ cur' = found
  /\ BeginSearch(info)
  /\ stage' = IF req.end_time > 0 THEN "to_time" ELSE "plan"
  /\ UNCHANGED <<stream, req, info, end, target, missed, reading>>

\* Reads the message behind that one, too.
LastToReadNext == IF found = UINT64_MAX THEN end ELSE found + 1

\* The last message of the result is the first that is as late as end_time.
LastToRead == IF found = UINT64_MAX THEN end ELSE found

EndsAtFound ==
  /\ stage = "to_time" /\ left > right
  /\ end' = LastToRead
  /\ stage' = "plan"
  /\ UNCHANGED <<stream, req, info, cur, target, search, reading>>

-----------------------------------------------------------------------------
\* The rest of NatsScanInitGlobal: how many messages to expect, and the consumer.

\* The server leaves out the subject counts when there is nothing to count.
SubjectCount ==
  LET n == Cardinality({q \in info.msgs : PassesFilter(q)})
  IN IF n = 0 THEN {0, UINT64_MAX} ELSE {n}

FullStream == cur <= info.first /\ end >= info.last

\* The number of messages after which the result is complete.
TargetMessageCount ==
  IF req.subject_contains # NoFilter THEN {UINT64_MAX}
  ELSE IF req.nats_subject = NoFilter THEN {CountAvailableInSequenceRange(info, cur, end)}
  ELSE IF FullStream THEN SubjectCount
  ELSE {UINT64_MAX}

FilterRefused ==
  req.nats_subject # NoFilter /\ ~CanUseServerFilter(req.nats_subject, StreamSubjects)

RangeIsEmpty ==
  /\ stage = "plan"
  /\ cur > end
  /\ stage' = "done"
  /\ UNCHANGED <<stream, req, info, cur, end, target, search, reading>>

RefuseFilter ==
  /\ stage = "plan" /\ cur <= end
  /\ FilterRefused
  /\ stage' = "failed"
  /\ UNCHANGED <<stream, req, info, cur, end, target, search, reading>>

Subscribe ==
  /\ stage = "plan" /\ cur <= end
  /\ ~FilterRefused
  /\ target' \in TargetMessageCount
  /\ pos' = cur
  /\ stage' = IF target' = 0 THEN "done" ELSE "scan"
  /\ UNCHANGED <<stream, req, info, cur, end, search, batch, rows, cut>>

-----------------------------------------------------------------------------
\* NatsScanExecute.

\* What the consumer can still deliver.
Deliverable == {q \in present : q >= pos /\ PassesFilter(q)}

\* Next asks for another batch, which may come in parts.
Fetch ==
  /\ stage = "scan" /\ batch = {}
  /\ \E q \in Deliverable :
       LET part == {r \in Deliverable : r <= q}
       IN /\ Cardinality(part) <= Smaller(BatchSize, end - cur + 1)
          /\ batch' = part
          /\ pos' = q + 1
  /\ UNCHANGED <<stream, stage, req, info, cur, end, target, search, rows, cut>>

\* The connection broke under a batch: Fetch destroys it and asks again.
FetchLoses ==
  /\ LossyLink
  /\ stage = "scan" /\ batch = {}
  /\ \E q \in Deliverable : pos' = q + 1
  /\ cut' = TRUE
  /\ UNCHANGED <<stream, stage, req, info, cur, end, target, search, batch, rows>>

\* The fetch finds nothing or runs out of time, which Next does not tell apart.
FetchEnds ==
  /\ stage = "scan" /\ batch = {}
  /\ stage' = "done"
  /\ cut' = (cut \/ \E q \in Deliverable : q <= end)
  /\ UNCHANGED <<stream, req, info, cur, end, target, search, pos, batch, rows>>

IsBehindEnd(q) == q > end

\* Whether the loop ends after message q and n rows.
IsLast(q, n) == q >= end \/ n >= target

TakeMessage ==
  /\ stage = "scan" /\ batch # {}
  /\ LET q == LeastOf(batch)
     IN /\ batch' = batch \ {q}
        /\ cur' = q + 1
        /\ IF IsBehindEnd(q) \/ ~PassesText(q)
           THEN /\ UNCHANGED rows
                /\ stage' = IF q >= end THEN "done" ELSE "scan"
           ELSE /\ rows' = Append(rows, q)
                /\ stage' = IF IsLast(q, Len(rows')) THEN "done" ELSE "scan"
  /\ UNCHANGED <<stream, req, info, end, target, search, pos, cut>>

\* Any call of the server may fail, and the query be interrupted.
Fails ==
  /\ stage \in {"info", "from_time", "to_time", "plan", "scan"}
  /\ stage' = "failed"
  /\ UNCHANGED <<stream, req, info, cur, end, target, search, reading>>

-----------------------------------------------------------------------------
Init ==
  /\ log = <<>> /\ present = {}
  /\ stage = "bind"
  /\ req \in Requests
  /\ info = StateOf(0, {})
  /\ cur = 1 /\ end = 0 /\ target = UINT64_MAX
  /\ left = 0 /\ right = 0 /\ found = UINT64_MAX /\ missed = {}
  /\ pos = 0 /\ batch = {} /\ rows = <<>> /\ cut = FALSE

Query ==
  \/ Bind \/ GetStreamInfo
  \/ ProbeMisses \/ ProbeFinds \/ NothingSince \/ StartsAtFound \/ EndsAtFound
  \/ RangeIsEmpty \/ RefuseFilter \/ Subscribe
  \/ Fetch \/ FetchLoses \/ FetchEnds \/ TakeMessage
  \/ Fails

Next == Publish \/ Expire \/ Query

Spec == Init /\ [][Next]_vars

-----------------------------------------------------------------------------
Stages == {"bind", "info", "from_time", "to_time", "plan", "scan", "done", "failed"}

\* Types, with the bounds of the searches: an unsigned bound of the code never goes
\* below zero, and what a search has found so far lies just behind the range that it
\* still looks at.
TypeOK ==
  /\ log \in Seq([time : 1..MaxTime, subject : Subjects]) /\ Len(log) <= MaxSeq
  /\ present \subseteq 1..Len(log)
  /\ \A q, r \in 1..Len(log) : q <= r => TimeOf(q) <= TimeOf(r)
  /\ stage \in Stages
  /\ req \in Requests
  /\ info.last \in 0..Len(log) /\ info.first \in 0..info.last + 1
  /\ info.msgs \subseteq info.first..info.last /\ info.msgs \subseteq 1..info.last
  /\ cur \in Nat /\ end \in Nat /\ target \in Nat
  /\ left \in 0..Len(log) + 1 /\ right \in 0..Len(log)
  /\ found \in 1..Len(log) \union {UINT64_MAX}
  /\ missed \subseteq {"from_time", "to_time"}
  /\ pos \in Nat /\ batch \subseteq 1..Len(log) /\ cut \in BOOLEAN
  /\ rows \in Seq(1..Len(log))
  /\ Searching =>
       /\ left >= info.first
       /\ right = IF found = UINT64_MAX THEN info.last ELSE found - 1

\* Message q is selected: its sequence number, its subject, and not before start_time.
Selected(q) ==
  /\ q >= req.start_seq /\ q <= req.end_seq
  /\ req.start_time > 0 => TimeOf(q) >= req.start_time
  /\ PassesText(q) /\ PassesFilter(q)

\* GUIDE.md:522, "Ending timestamp (inclusive)".
NotAfterEnd(q) == req.end_time > 0 => TimeOf(q) <= req.end_time

\* NatsScanExecute emits what was selected, each message once and in stream order, and
\* with an end_time only the last row may be as late as that or later, whatever was
\* published, deleted or lost between bind, search and fetches.  Excepted from the last is
\* an end_time whose search met a deleted message.  The last row may indeed be later than
\* end_time: RowsEndInTime.
RowsAreRequested ==
  /\ \A i, j \in 1..Len(rows) : i < j => rows[i] < rows[j]
  /\ \A i \in 1..Len(rows) : Selected(rows[i])
  /\ req.end_time > 0 /\ "to_time" \notin missed =>
       \A i \in 1..Len(rows) : i < Len(rows) => TimeOf(rows[i]) < req.end_time

\* GUIDE.md:522: no row is later than end_time.  It does not hold: the scan ends with the
\* first message that is not before end_time, whenever that was stored.
RowsEndInTime == \A i \in 1..Len(rows) : NotAfterEnd(rows[i])

\* The counts of NatsScanInitGlobal stop a scan early but never too early: when it
\* ends by itself, every message of the stream information that is still stored, selected
\* and before end_time is a row.  Excepted are messages exactly at end_time, of which the
\* scan returns one at most although GUIDE.md:522 includes them; a scan that gave up on a
\* fetch or lost a batch; and a start_time whose search met a deleted message, for which
\* see StartsAtFirst.
CompleteWhenDone ==
  stage = "done" /\ ~cut /\ "from_time" \notin missed =>
    \A q \in info.msgs \intersect present :
      Selected(q) /\ (req.end_time > 0 => TimeOf(q) < req.end_time) =>
        \E i \in 1..Len(rows) : rows[i] = q

\* The row of nats_stream_range_stats and the count that ends a scan agree with the
\* messages that are stored, for every range over every stream: at the stream's ends,
\* behind them, after a purge and before the first message.
RangeStatsAgree ==
  \A from \in 1..MaxSeq + 1 : \A to \in from..MaxSeq + 1 :
    LET stored == Cardinality(present \intersect from..to)
        row    == RangeStats(StreamState, from, to)
    IN /\ row.available_messages = stored
       /\ CountAvailableInSequenceRange(StreamState, from, to) = stored
       /\ row.has_gaps <=> stored < row.requested_messages

\* GUIDE.md:434: the search finds "the first message at or after the target timestamp", so
\* no message that is late enough lies before the scanned range.  It does not hold where
\* messages were deleted: README, section 4, and ExactStart in StreamScanProofs for what does.
StartsAtFirst ==
  stage = "plan" /\ req.start_time > 0 =>
    \A q \in info.msgs \intersect present : TimeOf(q) >= req.start_time => q >= cur
=============================================================================
