--------------------------- MODULE StreamScanProofs ---------------------------
(***************************************************************************)
(* Proofs about StreamScan, for every stream, request and batch size: the  *)
(* rows are the ones asked for, a search that meets no deleted message     *)
(* finds the first message that is late enough, the statistics of a range  *)
(* add up, and a scan that ends by itself has left nothing out.            *)
(***************************************************************************)
EXTENDS StreamScan, FiniteSetTheorems, SequenceTheorems, WellFoundedInduction, TLAPS

-----------------------------------------------------------------------------
(* Subjects.                                                               *)

\* The check of nats_subject accepts a subject without wildcards only if the stream's
\* pattern selects it: no message of another stream's subject is ever expected.
THEOREM SubjectUnderPatternMatches ==
  ASSUME NEW s \in Seq(Token), NEW p \in Seq(Token), s # <<>>, p # <<>>,
         ~HasWildcard(s), IsUnder(s, p)
  PROVE  Matches(s, p)
<1>1. Len(s) \in Nat /\ Len(p) \in Nat /\ Len(s) >= 1 /\ Len(p) >= 1
  OBVIOUS
<1>2. CASE p = <<">">>
  BY <1>1, <1>2 DEF Matches
<1>3. CASE p = s
  <2>1. s[Len(s)] # ">"
    BY <1>1 DEF HasWildcard
  <2> QED
    BY <1>1, <1>3, <2>1 DEF Matches
<1>4. ASSUME Len(p) > 1, Extends(s, Stem(p))
      PROVE  /\ Len(s) >= Len(p)
             /\ \A i \in 1..Len(p) - 1 : p[i] = s[i]
  <2>1. Stem(p) \in Seq(Token) /\ Len(Stem(p)) = Len(p) - 1
        /\ \A i \in 1..Len(p) - 1 : Stem(p)[i] = p[i]
    BY <1>1, <1>4 DEF Stem
  <2> QED
    BY <1>1, <1>4, <2>1 DEF Extends
<1>5. CASE EndsIn(p, ">") /\ Extends(s, Stem(p))
  BY <1>1, <1>4, <1>5 DEF EndsIn, Matches
<1>6. CASE EndsIn(p, "*") /\ Extends(s, Stem(p)) /\ Len(s) = Len(p)
  <2>1. p[Len(p)] = "*" /\ p[Len(p)] # ">" /\ \A i \in 1..Len(p) - 1 : p[i] = s[i]
    BY <1>1, <1>4, <1>6 DEF EndsIn
  <2>2. \A i \in 1..Len(p) : i = Len(p) \/ i \in 1..Len(p) - 1
    BY <1>1
  <2> QED
    BY <1>1, <1>6, <2>1, <2>2 DEF Matches
<1> QED
  BY <1>2, <1>3, <1>5, <1>6 DEF IsUnder

\* The same of a filter with wildcards: it selects only subjects of the pattern that let it
\* pass, unless it ends in ">" under a pattern that ends in "*", as a.> under a.* does.
THEOREM FilterStaysUnderPattern ==
  ASSUME NEW s \in Seq(Token), NEW p \in Seq(Token), s # <<>>, p # <<>>,
         \A i \in 1..Len(s) - 1 : s[i] # ">",
         IsUnder(s, p), ~(s[Len(s)] = ">" /\ p[Len(p)] = "*"),
         NEW t \in Seq(Token), Matches(t, s)
  PROVE  Matches(t, p)
<1>1. Len(s) \in Nat /\ Len(p) \in Nat /\ Len(s) >= 1 /\ Len(p) >= 1 /\ Len(t) \in Nat
  OBVIOUS
<1>2. Len(t) >= Len(s) /\ \A i \in 1..Len(s) - 1 : s[i] \in {"*", t[i]}
  BY <1>1 DEF Matches
<1>3. CASE p = <<">">>
  BY <1>1, <1>2, <1>3 DEF Matches
<1>4. CASE p = s
  BY <1>4
<1>5. ASSUME Len(p) > 1, Extends(s, Stem(p))
      PROVE  /\ Len(s) >= Len(p)
             /\ \A i \in 1..Len(p) - 1 : p[i] = s[i]
  <2>1. Stem(p) \in Seq(Token) /\ Len(Stem(p)) = Len(p) - 1
        /\ \A i \in 1..Len(p) - 1 : Stem(p)[i] = p[i]
    BY <1>1, <1>5 DEF Stem
  <2> QED
    BY <1>1, <1>5, <2>1 DEF Extends
<1>6. CASE EndsIn(p, ">") /\ Extends(s, Stem(p))
  <2>1. Len(s) >= Len(p) /\ \A i \in 1..Len(p) - 1 : p[i] = s[i]
    BY <1>5, <1>6 DEF EndsIn
  <2> QED
    BY <1>1, <1>2, <1>6, <2>1 DEF EndsIn, Matches
<1>7. CASE EndsIn(p, "*") /\ Extends(s, Stem(p)) /\ Len(s) = Len(p)
  <2>1. p[Len(p)] = "*" /\ p[Len(p)] # ">" /\ \A i \in 1..Len(p) - 1 : p[i] = s[i]
    BY <1>5, <1>7 DEF EndsIn
  <2>2. s[Len(s)] # ">" /\ Len(t) = Len(p)
    BY <1>7, <2>1 DEF Matches
  <2>3. \A i \in 1..Len(p) : i = Len(p) \/ i \in 1..Len(p) - 1
    BY <1>1
  <2> QED
    BY <1>1, <1>2, <1>7, <2>1, <2>2, <2>3 DEF Matches
<1> QED
  BY <1>3, <1>4, <1>6, <1>7 DEF IsUnder

-----------------------------------------------------------------------------
(* The invariant.                                                          *)

\* What a stage says of the request: sequence numbers and times are not mixed.
RequestKept ==
  stage \notin {"bind", "failed"} => ~(HasSeqRange(req) /\ HasTimeRange(req))

\* A search is under way only for a time that is asked for, and what it has found is
\* late enough.
FoundIsLate ==
  /\ stage = "from_time" => req.start_time > 0
  /\ stage = "to_time" => req.end_time > 0
  /\ Searching /\ found # UINT64_MAX => TimeOf(found) >= SoughtTime

\* The range that will be read lies in the range asked for.
RangeKept ==
  /\ stage \in {"from_time", "to_time", "plan", "scan"} =>
       /\ cur >= req.start_seq /\ end <= req.end_seq
       /\ end \in Nat
  /\ stage \in {"to_time", "plan", "scan"} /\ req.start_time > 0 =>
       \E w \in 1..Len(log) : w <= cur /\ TimeOf(w) >= req.start_time

\* The consumer reads on behind everything it has delivered.
ConsumerAhead ==
  /\ stage = "scan" =>
       /\ pos >= req.start_seq
       /\ req.start_time > 0 =>
            \E w \in 1..Len(log) : w <= pos /\ TimeOf(w) >= req.start_time
  /\ \A q \in batch : q < pos
  /\ \A i \in 1..Len(rows) : rows[i] < pos /\ \A q \in batch : rows[i] < q

\* What is in the batch was asked for, but perhaps lies behind the end of the range.
BatchRequested ==
  \A q \in batch :
    /\ q >= req.start_seq
    /\ req.start_time > 0 => TimeOf(q) >= req.start_time
    /\ PassesFilter(q)

\* Every row was selected, and the rows are in stream order.
RowsSelected ==
  /\ \A i, j \in 1..Len(rows) : i < j => rows[i] < rows[j]
  /\ \A i \in 1..Len(rows) : Selected(rows[i])

\* Nothing is known of the batch and the rows before the scan begins.
NothingRead ==
  stage \in {"bind", "info", "from_time", "to_time", "plan"} => batch = {} /\ rows = <<>>

ScanInv ==
  /\ TypeOK
  /\ RequestKept
  /\ FoundIsLate
  /\ RangeKept
  /\ ConsumerAhead
  /\ BatchRequested
  /\ RowsSelected
  /\ NothingRead

-----------------------------------------------------------------------------
(* Facts about the operators.                                              *)

\* A non-empty set of sequence numbers has a least element, and LeastOf is it.
LEMMA LeastIsFirst ==
  ASSUME NEW S \in SUBSET Nat, S # {}
  PROVE  LeastOf(S) \in S /\ \A r \in S : LeastOf(S) <= r
<1>1. PICK m \in S : \A y \in S : ~ (<<y, m>> \in OpToRel(<, Nat))
  <2> DEFINE R == OpToRel(<, Nat)
  <2>1. IsWellFoundedOn(R, Nat)
    BY NatLessThanWellFounded
  <2>2. \E x \in S : \A y \in S : ~ (<<y, x>> \in R)
    <3> HIDE DEF R
    <3> QED BY <2>1, WFMin
  <2> QED BY <2>2
<1>2. \A y \in S : m <= y
  <2>1. \A a, b \in Nat : a < b => <<a, b>> \in OpToRel(<, Nat)
    BY DEF OpToRel
  <2>2. \A y \in S : ~ (y < m)
    BY <1>1, <2>1
  <2> QED
    BY <2>2
<1> QED
  BY <1>2 DEF LeastOf

\* The middle of a non-empty search range lies in it.
LEMMA MidWithin ==
  ASSUME left \in Nat, right \in Nat, left <= right
  PROVE  Mid \in Nat /\ left <= Mid /\ Mid <= right
BY DEF Mid

\* The stream information is of its type.
LEMMA StateTyped ==
  ASSUME Len(log) \in Nat, present \subseteq 1..Len(log)
  PROVE  /\ StreamState.last = Len(log)
         /\ StreamState.msgs = present
         /\ StreamState.first \in 0..Len(log) + 1
         /\ present \subseteq StreamState.first..Len(log)
<1>1. CASE present = {}
  BY <1>1 DEF StreamState, StateOf
<1>2. CASE present # {}
  <2>1. LeastOf(present) \in present /\ \A r \in present : LeastOf(present) <= r
    BY <1>2, LeastIsFirst
  <2>2. StreamState.first = LeastOf(present) /\ StreamState.last = Len(log)
        /\ StreamState.msgs = present
    BY <1>2 DEF StreamState, StateOf
  <2> DEFINE least == LeastOf(present)
  <2>3. \A r \in present : r \in Nat /\ 1 <= r /\ r <= Len(log)
    OBVIOUS
  <2>4. least \in present /\ \A r \in present : least <= r
    BY <2>1
  <2>5. StreamState.first = least
    BY <2>2
  <2> HIDE DEF least
  <2>6. least \in 0..Len(log) + 1
    BY <2>3, <2>4
  <2>7. \A r \in present : r \in least..Len(log)
    BY <2>3, <2>4, <2>6
  <2> QED
    BY <2>2, <2>5, <2>6, <2>7
<1> QED
  BY <1>1, <1>2

\* Every count that may end a scan is a number.
LEMMA CountsAreNumbers ==
  ASSUME TypeOK, stage = "plan", cur <= end, NEW n \in TargetMessageCount
  PROVE  n \in Nat
<1>1. info.first \in Nat /\ info.last \in Nat
  BY DEF TypeOK
<1>2. IsFiniteSet(info.first..info.last)
  <2> DEFINE f == info.first
             l == info.last
  <2>1. f \in Int /\ l \in Int
    BY <1>1
  <2> HIDE DEF f, l
  <2>2. IsFiniteSet(f..l)
    BY <2>1, FS_Interval
  <2> QED
    BY <2>2 DEF f, l
<1>3. IsFiniteSet(Deleted(info)) /\ IsFiniteSet(info.msgs)
  <2>1. Deleted(info) \in SUBSET (info.first..info.last)
        /\ info.msgs \in SUBSET (info.first..info.last)
    BY DEF Deleted, TypeOK
  <2> QED
    BY <1>2, <2>1, FS_Subset
<1>4. CountAvailableInSequenceRange(info, cur, end) \in Nat
  <2> DEFINE first == Larger(cur, info.first)
             last == Smaller(end, info.last)
             gone == {q \in Deleted(info) : first <= q /\ q <= last}
  <2>1. Cardinality(gone) \in Nat
    <3>1. gone \in SUBSET Deleted(info)
      OBVIOUS
    <3> QED
      BY <1>3, <3>1, FS_Subset, FS_CardinalityType
  <2>2. first \in Nat /\ last \in Nat
    BY <1>1 DEF Larger, Smaller, TypeOK
  <2> HIDE DEF gone, first, last
  <2>3. last - first + 1 >= Cardinality(gone) => last - first + 1 - Cardinality(gone) \in Nat
    BY <2>1, <2>2
  <2> QED
    BY <2>3 DEF CountAvailableInSequenceRange, CountDeletedInRange, gone, first, last
<1>5. SubjectCount \subseteq Nat
  <2> DEFINE matching == {q \in info.msgs : PassesFilter(q)}
  <2>1. Cardinality(matching) \in Nat
    <3>1. matching \in SUBSET info.msgs
      OBVIOUS
    <3> QED
      BY <1>3, <3>1, FS_Subset, FS_CardinalityType
  <2> QED
    BY <2>1, ScanAssumption DEF SubjectCount, ScanAssumption
<1> QED
  BY <1>4, <1>5, ScanAssumption DEF TargetMessageCount, ScanAssumption

-----------------------------------------------------------------------------
(* The invariant holds initially and is kept by the stream.                *)

\* What the types say of single messages and rows.
LEMMA Elements ==
  ASSUME TypeOK
  PROVE  /\ Len(log) \in Nat /\ Len(rows) \in Nat
         /\ \A q \in 1..Len(log) : TimeOf(q) \in Nat
         /\ \A i \in 1..Len(rows) : rows[i] \in 1..Len(log)
         /\ \A q \in present \union batch : q \in 1..Len(log)
<1> DEFINE M == [time : 1..MaxTime, subject : Subjects]
<1>1. log \in Seq(M) /\ rows \in Seq(1..Len(log))
  BY DEF TypeOK
<1>2. \A m \in M : m.time \in Nat
  BY ScanAssumption DEF ScanAssumption
<1>3. present \subseteq 1..Len(log) /\ batch \subseteq 1..Len(log)
  BY DEF TypeOK
<1> HIDE DEF M
<1>4. Len(log) \in Nat /\ \A q \in 1..Len(log) : log[q] \in M
  BY <1>1, ElementOfSeq, LenProperties
<1>5. Len(rows) \in Nat /\ \A i \in 1..Len(rows) : rows[i] \in 1..Len(log)
  BY <1>1, ElementOfSeq, LenProperties
<1> QED
  BY <1>2, <1>3, <1>4, <1>5 DEF TimeOf

LEMMA ScanInit == Init => ScanInv
<1> SUFFICES ASSUME Init PROVE ScanInv
  OBVIOUS
<1> USE ScanAssumption DEF ScanAssumption, Init
<1>1. <<>> \in Seq([time : 1..MaxTime, subject : Subjects]) /\ Len(<<>>) = 0 /\ <<>> \in Seq(1..0)
  BY EmptySeq
<1>2. info = [first |-> 0, last |-> 0, msgs |-> {}]
  BY DEF StateOf
<1>3. TypeOK
  <2>1. Len(log) = 0 /\ log \in Seq([time : 1..MaxTime, subject : Subjects])
        /\ rows \in Seq(1..Len(log))
    BY <1>1
  <2>2. \A q \in 1..Len(log) : FALSE
    BY <2>1
  <2>3. info.first = 0 /\ info.last = 0 /\ info.msgs = {}
    BY <1>2
  <2>4. ~Searching /\ stage \in Stages
    BY DEF Searching, Stages
  <2>5. /\ present \subseteq 1..Len(log) /\ batch \subseteq 1..Len(log)
        /\ missed \subseteq {"from_time", "to_time"}
        /\ info.msgs \subseteq info.first..info.last /\ info.msgs \subseteq 1..info.last
    BY <2>3
  <2>6. left \in 0..Len(log) + 1 /\ right \in 0..Len(log) /\ pos \in Nat
        /\ info.last \in 0..Len(log) /\ info.first \in 0..info.last + 1 /\ Len(log) <= MaxSeq
        /\ cur \in Nat /\ end \in Nat /\ target \in Nat /\ found \in {UINT64_MAX}
    BY <2>1, <2>3
  <2>7. cut \in BOOLEAN
    OBVIOUS
  <2> QED
    BY <2>1, <2>2, <2>3, <2>4, <2>5, <2>6, <2>7 DEF TypeOK
<1>4. RequestKept /\ FoundIsLate /\ RangeKept /\ NothingRead
  BY DEF RequestKept, FoundIsLate, RangeKept, NothingRead, Searching
<1>5. ConsumerAhead /\ BatchRequested /\ RowsSelected
  BY <1>1 DEF ConsumerAhead, BatchRequested, RowsSelected
<1> QED
  BY <1>3, <1>4, <1>5 DEF ScanInv

\* A published message changes nothing of the others.
LEMMA MessagesStay ==
  ASSUME TypeOK, Publish
  PROVE  /\ log' \in Seq([time : 1..MaxTime, subject : Subjects])
         /\ Len(log') = Len(log) + 1 /\ Len(log) \in Nat
         /\ \A q \in 1..Len(log) : log'[q] = log[q]
         /\ log # <<>> => log'[Len(log')].time >= log[Len(log)].time
<1> DEFINE M == [time : 1..MaxTime, subject : Subjects]
<1>1. log \in Seq(M) /\ Len(log) \in Nat
  BY LenProperties DEF TypeOK
<1>2. PICK t \in 1..MaxTime, s \in Subjects :
        /\ log # <<>> => t >= TimeOf(Len(log))
        /\ log' = Append(log, [time |-> t, subject |-> s])
  BY DEF Publish
<1> DEFINE m == [time |-> t, subject |-> s]
<1>3. m \in M /\ m.time = t
  OBVIOUS
<1> HIDE DEF M, m
<1>4. log' = Append(log, m)
  BY <1>2 DEF m
<1>5. /\ log' \in Seq(M) /\ Len(log') = Len(log) + 1
      /\ \A q \in 1..Len(log) : log'[q] = log[q]
      /\ log'[Len(log) + 1] = m
  BY <1>1, <1>3, <1>4, AppendProperties
<1> QED
  BY <1>1, <1>2, <1>3, <1>5 DEF TimeOf, M

LEMMA PublishKeeps == ScanInv /\ Publish => ScanInv'
<1> SUFFICES ASSUME ScanInv, Publish PROVE ScanInv'
  OBVIOUS
<1>1. TypeOK
  BY DEF ScanInv
<1>2. /\ log' \in Seq([time : 1..MaxTime, subject : Subjects])
      /\ Len(log') = Len(log) + 1 /\ Len(log) \in Nat
      /\ \A q \in 1..Len(log) : log'[q] = log[q]
      /\ log # <<>> => log'[Len(log')].time >= log[Len(log)].time
  BY <1>1, MessagesStay
<1>3. /\ present' = present \union {Len(log) + 1} /\ Len(log) < MaxSeq
      /\ UNCHANGED <<stage, req, info, cur, end, target, left, right, found, missed,
                     pos, batch, rows, cut>>
  BY DEF Publish, search, reading
<1>4. \A q \in 1..Len(log) : /\ q \in 1..Len(log')
                             /\ TimeOf(q)' = TimeOf(q) /\ SubjectOf(q)' = SubjectOf(q)
  BY <1>2 DEF TimeOf, SubjectOf
<1>5. TypeOK'
  <2>1. \A q \in 1..Len(log) : TimeOf(q) \in Nat
    BY <1>1, Elements
  <2>2. \A q, r \in 1..Len(log') : q <= r => TimeOf(q)' <= TimeOf(r)'
    <3> SUFFICES ASSUME NEW q \in 1..Len(log'), NEW r \in 1..Len(log'), q <= r
                 PROVE  TimeOf(q)' <= TimeOf(r)'
      OBVIOUS
    <3>0. \A k \in 1..Len(log') : TimeOf(k)' \in Nat
      <4> DEFINE M == [time : 1..MaxTime, subject : Subjects]
      <4>1. \A m \in M : m.time \in Nat
        OBVIOUS
      <4>2. log' \in Seq(M)
        BY <1>2
      <4> HIDE DEF M
      <4>3. \A k \in 1..Len(log') : log'[k] \in M
        BY <4>2, ElementOfSeq
      <4> QED
        BY <4>1, <4>3 DEF TimeOf
    <3>1. CASE r \in 1..Len(log)
      <4>1. q \in 1..Len(log)
        BY <1>2, <3>1
      <4> QED
        BY <1>1, <1>4, <3>1, <4>1 DEF TypeOK
    <3>2. CASE q = Len(log')
      <4>1. q = r
        BY <1>2, <3>2
      <4> QED
        BY <4>1, <3>0
    <3>3. CASE r = Len(log') /\ q \in 1..Len(log)
      <4>1. log # <<>> /\ Len(log) \in 1..Len(log)
        BY <1>2, <3>3
      <4>2. TimeOf(q) <= TimeOf(Len(log))
        BY <1>1, <3>3, <4>1 DEF TypeOK
      <4>3. TimeOf(Len(log)) <= TimeOf(r)'
        BY <1>2, <3>3, <4>1 DEF TimeOf
      <4> QED
        BY <1>4, <2>1, <3>0, <3>3, <4>1, <4>2, <4>3
    <3> QED
      BY <1>2, <3>1, <3>2, <3>3
  <2>3. rows' \in Seq(1..Len(log'))
    <3>1. 1..Len(log) \subseteq 1..Len(log')
      BY <1>2
    <3> QED
      BY <1>1, <1>3, <3>1, SeqMonotonic DEF TypeOK
  <2>4. present' \subseteq 1..Len(log') /\ batch' \subseteq 1..Len(log') /\ Len(log') <= MaxSeq
    <3>1. present \subseteq 1..Len(log) /\ batch \subseteq 1..Len(log)
      BY <1>1 DEF TypeOK
    <3>2. 1..Len(log) \subseteq 1..Len(log') /\ Len(log) + 1 \in 1..Len(log')
      BY <1>2
    <3>3. Len(log') <= MaxSeq
      BY <1>2, <1>3, ScanAssumption DEF ScanAssumption
    <3> QED
      BY <1>3, <3>1, <3>2, <3>3
  <2>5. (Searching => /\ left >= info.first
                      /\ right = IF found = UINT64_MAX THEN info.last ELSE found - 1)'
    BY <1>1, <1>3 DEF TypeOK, Searching
  <2>6. /\ info'.last \in 0..Len(log') /\ info'.first \in 0..info'.last + 1
        /\ info'.msgs \subseteq info'.first..info'.last /\ info'.msgs \subseteq 1..info'.last
        /\ left' \in 0..Len(log') + 1 /\ right' \in 0..Len(log')
        /\ found' \in 1..Len(log') \union {UINT64_MAX}
    <3>1. /\ info.last \in 0..Len(log) /\ info.first \in 0..info.last + 1
          /\ info.msgs \subseteq info.first..info.last /\ info.msgs \subseteq 1..info.last
          /\ left \in 0..Len(log) + 1 /\ right \in 0..Len(log)
          /\ found \in 1..Len(log) \union {UINT64_MAX}
      BY <1>1 DEF TypeOK
    <3>2. /\ 0..Len(log) \subseteq 0..Len(log') /\ 1..Len(log) \subseteq 1..Len(log')
          /\ 0..Len(log) + 1 \subseteq 0..Len(log') + 1
      BY <1>2
    <3> QED
      BY <1>3, <3>1, <3>2
  <2> QED
    BY <1>1, <1>2, <1>3, <2>2, <2>3, <2>4, <2>5, <2>6 DEF TypeOK
<1>6. RequestKept' /\ NothingRead'
  BY <1>3 DEF ScanInv, RequestKept, NothingRead, HasSeqRange, HasTimeRange
<1>7. FoundIsLate'
  BY <1>1, <1>3, <1>4 DEF ScanInv, FoundIsLate, TypeOK, Searching, SoughtTime
<1>8. RangeKept'
  BY <1>3, <1>4 DEF ScanInv, RangeKept
<1>9. ConsumerAhead'
  BY <1>3, <1>4 DEF ScanInv, ConsumerAhead
<1>10. BatchRequested'
  BY <1>1, <1>3, <1>4 DEF ScanInv, BatchRequested, TypeOK, PassesFilter
<1>11. RowsSelected'
  <2>1. \A i \in 1..Len(rows) : rows[i] \in 1..Len(log)
    BY <1>1, Elements
  <2> QED
    BY <1>3, <1>4, <2>1
       DEF ScanInv, RowsSelected, Selected, PassesFilter, PassesText
<1> QED
  BY <1>5, <1>6, <1>7, <1>8, <1>9, <1>10, <1>11 DEF ScanInv

LEMMA ExpireKeeps == ScanInv /\ Expire => ScanInv'
<1> SUFFICES ASSUME ScanInv, Expire PROVE ScanInv'
  OBVIOUS
<1>1. /\ present' \subseteq present
      /\ UNCHANGED <<log, stage, req, info, cur, end, target, left, right, found, missed,
                     pos, batch, rows, cut>>
  BY DEF Expire, search, reading
<1>2. TypeOK'
  BY <1>1 DEF ScanInv, TypeOK, TimeOf, Searching
<1> QED
  BY <1>1, <1>2 DEF ScanInv, RequestKept, FoundIsLate, RangeKept, NothingRead, ConsumerAhead,
    BatchRequested, RowsSelected, Selected, PassesText, PassesFilter, TimeOf, SubjectOf,
    Searching, SoughtTime, HasSeqRange, HasTimeRange

-----------------------------------------------------------------------------
(* The invariant is kept by the query.                                     *)

\* A query that ends, and the check of the parameters, change the stage alone.
StageOnly ==
  /\ stage' \in {"info", "done", "failed"}
  /\ stage' = "info" => stage = "bind" /\ ~(HasSeqRange(req) /\ HasTimeRange(req))
  /\ stage' = "done" => stage \notin {"bind", "failed"}
  /\ UNCHANGED <<log, present, req, info, cur, end, target, left, right, found, missed,
                 pos, batch, rows>>
  /\ cut' \in BOOLEAN

LEMMA StageOnlySteps ==
  ASSUME TypeOK, \/ Bind \/ NothingSince \/ RangeIsEmpty \/ RefuseFilter \/ FetchEnds \/ Fails
  PROVE  StageOnly
<1> USE DEF StageOnly, stream, search, reading
<1>1. cut \in BOOLEAN
  BY DEF TypeOK
<1>2. CASE Bind
  BY <1>1, <1>2 DEF Bind
<1>3. CASE NothingSince
  BY <1>1, <1>3 DEF NothingSince
<1>4. CASE RangeIsEmpty
  BY <1>1, <1>4 DEF RangeIsEmpty
<1>5. CASE RefuseFilter
  BY <1>1, <1>5 DEF RefuseFilter
<1>6. CASE FetchEnds
  <2>1. cut' \in BOOLEAN
    BY <1>6, <1>1 DEF FetchEnds
  <2> QED
    BY <1>6, <2>1 DEF FetchEnds
<1>7. CASE Fails
  BY <1>1, <1>7 DEF Fails
<1> QED
  BY <1>2, <1>3, <1>4, <1>5, <1>6, <1>7

LEMMA StageOnlyKeeps == ScanInv /\ StageOnly => ScanInv'
<1> SUFFICES ASSUME ScanInv, StageOnly PROVE ScanInv'
  OBVIOUS
<1> USE DEF StageOnly, Searching
<1>1. TypeOK'
  BY DEF ScanInv, TypeOK, TimeOf, Stages
<1>2. RequestKept'
  BY DEF ScanInv, RequestKept, HasSeqRange, HasTimeRange
<1>3. FoundIsLate' /\ RangeKept' /\ NothingRead'
  BY DEF ScanInv, FoundIsLate, RangeKept, NothingRead
<1>4. ConsumerAhead'
  BY DEF ScanInv, ConsumerAhead
<1>5. BatchRequested' /\ RowsSelected'
  BY DEF ScanInv, BatchRequested, RowsSelected, Selected, PassesText, PassesFilter,
    TimeOf, SubjectOf
<1> QED
  BY <1>1, <1>2, <1>3, <1>4, <1>5 DEF ScanInv

\* The searches and the plan read no message of the consumer.
LEMMA ReadingKept ==
  ASSUME ScanInv, UNCHANGED <<log, req, pos, batch, rows>>, stage' # "scan"
  PROVE  ConsumerAhead' /\ BatchRequested' /\ RowsSelected'
<1>1. ConsumerAhead'
  BY DEF ScanInv, ConsumerAhead
<1> QED
  BY <1>1 DEF ScanInv, BatchRequested, RowsSelected, Selected, PassesText, PassesFilter,
    TimeOf, SubjectOf

LEMMA InfoKeeps == ScanInv /\ GetStreamInfo => ScanInv'
<1> SUFFICES ASSUME ScanInv, GetStreamInfo PROVE ScanInv'
  OBVIOUS
<1> USE ScanAssumption DEF ScanAssumption
<1>1. TypeOK /\ stage = "info" /\ NothingRead /\ RequestKept
  BY DEF ScanInv, GetStreamInfo
<1>2. /\ UNCHANGED <<log, present, req, target, missed, pos, batch, rows, cut>>
      /\ info' = StreamState
      /\ cur' = IF req.start_seq > 0 THEN req.start_seq ELSE 1
      /\ end' = IF req.end_seq = UINT64_MAX THEN info'.last ELSE req.end_seq
      /\ left' = info'.first /\ right' = info'.last /\ found' = UINT64_MAX
  BY DEF GetStreamInfo, stream, reading, BeginSearch
<1>3. Len(log) \in Nat /\ present \subseteq 1..Len(log) /\ Len(log) <= MaxSeq
  BY <1>1, Elements DEF TypeOK
<1>4. /\ info'.last = Len(log) /\ info'.msgs = present
      /\ info'.first \in 0..Len(log) + 1 /\ present \subseteq info'.first..Len(log)
  BY <1>2, <1>3, StateTyped
<1>5. /\ req.start_seq \in Nat /\ req.end_seq \in Nat
      /\ req.start_time \in Nat /\ req.end_time \in Nat
  <2>1. /\ req \in Parameters
        /\ MaxSeq \in Nat /\ MaxTime \in Nat /\ UINT64_MAX \in Nat
    BY <1>1, ScanAssumption DEF TypeOK, ScanAssumption
  <2> QED
    BY <2>1 DEF Parameters, SeqLimit
<1>6. /\ stage' \in {"from_time", "to_time", "plan"}
      /\ stage' = "from_time" => req.start_time > 0
      /\ stage' \in {"to_time", "plan"} => req.start_time = 0
      /\ stage' = "to_time" => req.end_time > 0
  BY <1>1, <1>5 DEF GetStreamInfo, HasTimeRange
<1>7. TypeOK'
  <2>1. cur' \in Nat /\ end' \in Nat
    BY <1>2, <1>3, <1>4, <1>5
  <2>2. /\ info'.last \in 0..Len(log) /\ info'.first \in 0..info'.last + 1
        /\ info'.msgs \subseteq info'.first..info'.last /\ info'.msgs \subseteq 1..info'.last
        /\ left' \in 0..Len(log) + 1 /\ right' \in 0..Len(log) /\ left' >= info'.first
    BY <1>2, <1>3, <1>4
  <2>3. stage' \in Stages
    BY <1>6 DEF Stages
  <2> QED
    BY <1>1, <1>2, <2>1, <2>2, <2>3 DEF TypeOK, TimeOf
<1>8. RequestKept' /\ NothingRead'
  BY <1>1, <1>2 DEF RequestKept, NothingRead, HasSeqRange, HasTimeRange
<1>9. FoundIsLate'
  BY <1>2, <1>6 DEF FoundIsLate
<1>10. RangeKept'
  <2>1. cur' >= req.start_seq
    BY <1>2, <1>5
  <2>2. end' <= req.end_seq /\ end' \in Nat
    BY <1>2, <1>3, <1>4, <1>5
  <2> QED
    BY <1>2, <1>6, <2>1, <2>2, <1>5 DEF RangeKept
<1>11. ConsumerAhead' /\ BatchRequested' /\ RowsSelected'
  BY <1>2, <1>6, ReadingKept
<1> QED
  BY <1>7, <1>8, <1>9, <1>10, <1>11 DEF ScanInv

LEMMA ProbeKeeps == ScanInv /\ (ProbeMisses \/ ProbeFinds) => ScanInv'
<1> SUFFICES ASSUME ScanInv, ProbeMisses \/ ProbeFinds PROVE ScanInv'
  OBVIOUS
<1> USE ScanAssumption DEF ScanAssumption
<1>1. TypeOK /\ Searching /\ left <= right
  BY DEF ScanInv, ProbeMisses, ProbeFinds
<1>2. UNCHANGED <<log, present, stage, req, info, cur, end, target, pos, batch, rows, cut>>
  BY DEF ProbeMisses, ProbeFinds, stream, reading
<1>3. /\ Len(log) \in Nat /\ left \in Nat /\ right \in 0..Len(log)
      /\ \A q \in 1..Len(log) : TimeOf(q) \in Nat
      /\ present \subseteq 1..Len(log)
  <2>1. Len(log) \in Nat /\ \A q \in 1..Len(log) : TimeOf(q) \in Nat
    BY <1>1, Elements
  <2>2. left \in 0..Len(log) + 1 /\ right \in 0..Len(log) /\ present \subseteq 1..Len(log)
    BY <1>1 DEF TypeOK
  <2> QED
    BY <2>1, <2>2
<1>4. Mid \in Nat /\ left <= Mid /\ Mid <= right
  BY <1>1, <1>3, MidWithin
<1>5. \/ left' = Mid + 1 /\ right' = right /\ found' = found
      \/ /\ left' = left /\ right' = Mid - 1 /\ found' = Mid
         /\ Mid \in present /\ TimeOf(Mid) >= SoughtTime
  BY DEF ProbeMisses, ProbeFinds, Hits
<1>6. missed' \subseteq {"from_time", "to_time"}
  BY <1>1 DEF ProbeMisses, ProbeFinds, TypeOK, Searching
<1> HIDE DEF ScanAssumption
<1>7. TypeOK'
  <2>1. /\ left' \in 0..Len(log) + 1 /\ right' \in 0..Len(log)
        /\ found' \in 1..Len(log) \union {UINT64_MAX}
    <3>1. left \in 0..Len(log) + 1 /\ found \in 1..Len(log) \union {UINT64_MAX}
      BY <1>1 DEF TypeOK
    <3>2. Mid \in present => Mid \in 1..Len(log)
      BY <1>3
    <3> QED
      BY <1>3, <1>4, <1>5, <3>1, <3>2
  <2>2. left' >= info.first /\ right' = IF found' = UINT64_MAX THEN info.last ELSE found' - 1
    <3>1. info.first \in Nat /\ left >= info.first
          /\ right = IF found = UINT64_MAX THEN info.last ELSE found - 1
      BY <1>1 DEF TypeOK
    <3>2. Mid \in present => Mid # UINT64_MAX
      BY <1>1, <1>3, ScanAssumption DEF TypeOK, ScanAssumption
    <3> QED
      BY <1>3, <1>4, <1>5, <3>1, <3>2
  <2> QED
    BY <1>1, <1>2, <1>6, <2>1, <2>2 DEF TypeOK, TimeOf, Searching
<1>8. FoundIsLate'
  <2>1. TimeOf(found)' = log[found'].time /\ SoughtTime' = SoughtTime
    BY <1>2 DEF TimeOf, SoughtTime
  <2>2. found' # UINT64_MAX => log[found'].time >= SoughtTime
    BY <1>1, <1>5 DEF ScanInv, FoundIsLate, TimeOf
  <2> QED
    BY <1>2, <2>1, <2>2 DEF ScanInv, FoundIsLate, Searching
<1>9. RequestKept' /\ RangeKept' /\ NothingRead'
  BY <1>2 DEF ScanInv, RequestKept, RangeKept, NothingRead, HasSeqRange, HasTimeRange, TimeOf
<1>10. ConsumerAhead' /\ BatchRequested' /\ RowsSelected'
  BY <1>1, <1>2, ReadingKept DEF Searching
<1> QED
  BY <1>7, <1>8, <1>9, <1>10 DEF ScanInv

LEMMA SearchEndKeeps == ScanInv /\ (StartsAtFound \/ EndsAtFound) => ScanInv'
<1> SUFFICES ASSUME ScanInv, StartsAtFound \/ EndsAtFound PROVE ScanInv'
  OBVIOUS
<1>1. TypeOK /\ Searching /\ left > right
  BY DEF ScanInv, StartsAtFound, EndsAtFound, Searching
<1>2. UNCHANGED <<log, present, req, info, target, missed, pos, batch, rows, cut>>
  BY DEF StartsAtFound, EndsAtFound, stream, search, reading
<1>3. /\ req.start_seq \in Nat /\ req.end_seq \in Nat
      /\ req.start_time \in Nat /\ req.end_time \in Nat
      /\ UINT64_MAX \in Nat /\ UINT64_MAX > MaxSeq + 1 /\ MaxSeq \in Nat
  <2>1. UINT64_MAX \in Nat /\ UINT64_MAX > MaxSeq + 1 /\ MaxSeq \in Nat /\ MaxTime \in Nat
    BY ScanAssumption DEF ScanAssumption
  <2>2. req \in Parameters
    BY <1>1, ScanAssumption DEF TypeOK, ScanAssumption
  <2> QED
    BY <2>1, <2>2 DEF Parameters, SeqLimit
<1>4. /\ req.start_time > 0 \/ req.end_time > 0
      /\ req.start_seq = 0 /\ req.end_seq = UINT64_MAX
  BY <1>1, <1>3 DEF ScanInv, FoundIsLate, RequestKept, Searching, HasSeqRange, HasTimeRange
<1>5. /\ Len(log) \in Nat /\ Len(log) <= MaxSeq
      /\ info.last \in 0..Len(log) /\ info.first \in 0..info.last + 1
      /\ found \in 1..Len(log) \union {UINT64_MAX} /\ cur \in Nat /\ end \in Nat
      /\ left \in 0..Len(log) + 1 /\ right \in 0..Len(log)
  BY <1>1, Elements DEF TypeOK
<1>6. CASE StartsAtFound
  <2>1. /\ found # UINT64_MAX /\ cur' = found /\ end' = end
        /\ left' = info.first /\ right' = info.last /\ found' = UINT64_MAX
        /\ stage = "from_time"
    BY <1>6 DEF StartsAtFound, BeginSearch
  <2>2. stage' \in {"to_time", "plan"} /\ (stage' = "to_time" => req.end_time > 0)
    BY <1>6 DEF StartsAtFound
  <2>3. TypeOK'
    <3>1. cur' \in Nat /\ end' \in Nat /\ stage' \in Stages
      BY <1>5, <2>1, <2>2 DEF Stages
    <3>2. /\ left' \in 0..Len(log) + 1 /\ right' \in 0..Len(log) /\ left' >= info.first
          /\ found' \in 1..Len(log) \union {UINT64_MAX} /\ right' = info.last
      BY <1>5, <2>1
    <3> QED
      BY <1>1, <1>2, <2>1, <3>1, <3>2 DEF TypeOK, TimeOf
  <2>4. RequestKept' /\ NothingRead' /\ FoundIsLate'
    BY <1>2, <2>1, <2>2
       DEF ScanInv, RequestKept, NothingRead, FoundIsLate, HasSeqRange, HasTimeRange
  <2>5. RangeKept'
    <3>1. found \in 1..Len(log) /\ TimeOf(found) >= req.start_time
      BY <1>1, <1>5, <2>1 DEF ScanInv, FoundIsLate, SoughtTime
    <3>2. \E w \in 1..Len(log') : w <= cur' /\ log'[w].time >= req'.start_time
      <4>1. found <= found
        BY <1>5, <3>1
      <4> QED
        BY <1>2, <2>1, <3>1, <4>1 DEF TimeOf
    <3>3. cur' >= req'.start_seq /\ end' <= req'.end_seq /\ end' \in Nat
      BY <1>2, <1>4, <1>5, <2>1, <3>1 DEF ScanInv, RangeKept
    <3> QED
      BY <3>2, <3>3 DEF RangeKept, TimeOf
  <2>6. ConsumerAhead' /\ BatchRequested' /\ RowsSelected'
    BY <1>2, <2>2, ReadingKept
  <2> QED
    BY <2>3, <2>4, <2>5, <2>6 DEF ScanInv
<1>7. CASE EndsAtFound
  <2>1. /\ stage = "to_time" /\ stage' = "plan" /\ cur' = cur
        /\ end' = IF found = UINT64_MAX THEN end ELSE found
        /\ UNCHANGED <<left, right, found>>
    BY <1>7 DEF EndsAtFound, LastToRead, search
  <2>2. end' \in Nat /\ end' <= req.end_seq
    BY <1>3, <1>4, <1>5, <2>1 DEF ScanInv, RangeKept
  <2>3. TypeOK'
    BY <1>1, <1>2, <2>1, <2>2 DEF TypeOK, TimeOf, Searching, Stages
  <2>4. RequestKept' /\ NothingRead' /\ FoundIsLate'
    BY <1>2, <2>1
       DEF ScanInv, RequestKept, NothingRead, FoundIsLate, HasSeqRange, HasTimeRange, Searching
  <2>5. RangeKept'
    BY <1>2, <2>1, <2>2 DEF ScanInv, RangeKept, TimeOf
  <2>6. ConsumerAhead' /\ BatchRequested' /\ RowsSelected'
    BY <1>2, <2>1, ReadingKept
  <2> QED
    BY <2>3, <2>4, <2>5, <2>6 DEF ScanInv
<1> QED
  BY <1>6, <1>7

LEMMA SubscribeKeeps == ScanInv /\ Subscribe => ScanInv'
<1> SUFFICES ASSUME ScanInv, Subscribe PROVE ScanInv'
  OBVIOUS
<1>1. TypeOK /\ stage = "plan" /\ batch = {} /\ rows = <<>> /\ cur \in Nat /\ cur <= end
  BY DEF ScanInv, NothingRead, Subscribe, TypeOK
<1>2. /\ UNCHANGED <<log, present, req, info, cur, end, left, right, found, missed,
                     batch, rows, cut>>
      /\ pos' = cur /\ stage' \in {"done", "scan"} /\ target' \in TargetMessageCount
  BY DEF Subscribe, stream, search
<1>3. target' \in Nat
  BY <1>1, <1>2, CountsAreNumbers
<1>4. TypeOK'
  BY <1>1, <1>2, <1>3 DEF TypeOK, TimeOf, Searching, Stages
<1>5. RequestKept' /\ FoundIsLate' /\ NothingRead'
  BY <1>1, <1>2 DEF ScanInv, RequestKept, FoundIsLate, NothingRead, HasSeqRange, HasTimeRange,
    Searching
<1>6. RangeKept'
  BY <1>1, <1>2 DEF ScanInv, RangeKept, TimeOf
<1>7. ConsumerAhead'
  <2>1. Len(rows') = 0 /\ \A i \in 1..Len(rows') : FALSE
    BY <1>1, <1>2
  <2> QED
    BY <1>1, <1>2, <2>1 DEF ScanInv, RangeKept, ConsumerAhead, TimeOf
<1>8. BatchRequested' /\ RowsSelected'
  BY <1>1, <1>2 DEF BatchRequested, RowsSelected
<1> QED
  BY <1>4, <1>5, <1>6, <1>7, <1>8 DEF ScanInv

\* Whatever the consumer delivers next was asked for, whether it arrives or is lost.
LEMMA DeliveryKeeps == ScanInv /\ (Fetch \/ FetchLoses) => ScanInv'
<1> SUFFICES ASSUME ScanInv, Fetch \/ FetchLoses PROVE ScanInv'
  OBVIOUS
<1>1. TypeOK /\ stage = "scan" /\ batch = {}
  BY DEF ScanInv, Fetch, FetchLoses
<1>2. UNCHANGED <<log, present, stage, req, info, cur, end, target, left, right, found, missed,
                  rows>>
  BY DEF Fetch, FetchLoses, stream, search
<1>3. PICK q \in Deliverable :
        pos' = q + 1 /\ batch' \subseteq {r \in Deliverable : r <= q}
  <2>1. CASE Fetch
    BY <2>1 DEF Fetch
  <2>2. CASE FetchLoses
    BY <1>1, <2>2 DEF FetchLoses
  <2> QED
    BY <2>1, <2>2
<1>4. cut' \in BOOLEAN
  BY <1>1 DEF TypeOK, Fetch, FetchLoses
<1>5. /\ Len(log) \in Nat /\ pos \in Nat /\ req.start_seq \in Nat
      /\ \A r \in Deliverable : r \in 1..Len(log) /\ r >= pos /\ PassesFilter(r)
      /\ \A r \in 1..Len(log) : TimeOf(r) \in Nat
      /\ \A i \in 1..Len(rows) : rows[i] \in 1..Len(log)
  <2>1. req \in Parameters /\ UINT64_MAX \in Nat /\ MaxSeq \in Nat
    BY <1>1, ScanAssumption DEF TypeOK, ScanAssumption
  <2>2. req.start_seq \in Nat
    BY <2>1 DEF Parameters, SeqLimit
  <2>3. pos \in Nat
    BY <1>1 DEF TypeOK
  <2>4. \A r \in Deliverable : r \in present /\ r >= pos /\ PassesFilter(r)
    BY DEF Deliverable
  <2> QED
    BY <1>1, <2>2, <2>3, <2>4, Elements
<1>6. q \in 1..Len(log) /\ q >= pos
  BY <1>5
<1>7. TypeOK'
  <2>1. batch' \subseteq 1..Len(log) /\ pos' \in Nat
    BY <1>3, <1>5, <1>6
  <2> QED
    BY <1>1, <1>2, <1>4, <2>1 DEF TypeOK, TimeOf, Searching
<1>8. RequestKept' /\ FoundIsLate' /\ RangeKept' /\ NothingRead'
  BY <1>1, <1>2 DEF ScanInv, RequestKept, FoundIsLate, RangeKept, NothingRead, HasSeqRange,
    HasTimeRange, Searching, TimeOf
<1>9. \A r \in batch' : r \in 1..Len(log) /\ r >= pos /\ r <= q
  BY <1>3, <1>5
<1>10. ConsumerAhead'
  <2>1. pos >= req.start_seq /\ pos <= pos'
    BY <1>1, <1>3, <1>5, <1>6 DEF ScanInv, ConsumerAhead
  <2>2. pos' >= req'.start_seq
    BY <1>2, <1>3, <1>5, <1>6, <2>1
  <2>3. ASSUME req'.start_time > 0
        PROVE  \E w \in 1..Len(log') : w <= pos' /\ log'[w].time >= req'.start_time
    <3>1. PICK w \in 1..Len(log) : w <= pos /\ TimeOf(w) >= req.start_time
      BY <1>1, <1>2, <2>3 DEF ScanInv, ConsumerAhead
    <3>2. w <= pos'
      BY <1>3, <1>5, <1>6, <3>1
    <3> QED
      BY <1>2, <3>1, <3>2 DEF TimeOf
  <2>4. \A r \in batch' : r < pos'
    BY <1>3, <1>5, <1>6, <1>9
  <2>5. \A i \in 1..Len(rows) : rows[i] < pos
    BY DEF ScanInv, ConsumerAhead
  <2>6. \A i \in 1..Len(rows') : rows'[i] < pos' /\ \A r \in batch' : rows'[i] < r
    BY <1>2, <1>3, <1>5, <1>6, <1>9, <2>5
  <2> QED
    BY <2>2, <2>3, <2>4, <2>6 DEF ConsumerAhead, TimeOf
<1>11. BatchRequested'
  <2> SUFFICES ASSUME NEW r \in batch'
               PROVE  /\ r >= req'.start_seq
                      /\ req'.start_time > 0 => TimeOf(r)' >= req'.start_time
                      /\ PassesFilter(r)'
    BY DEF BatchRequested
  <2>1. r >= req.start_seq
    BY <1>1, <1>5, <1>9 DEF ScanInv, ConsumerAhead
  <2>2. ASSUME req.start_time > 0
        PROVE  TimeOf(r) >= req.start_time
    <3>1. PICK w \in 1..Len(log) : w <= pos /\ TimeOf(w) >= req.start_time
      BY <1>1, <2>2 DEF ScanInv, ConsumerAhead
    <3>2. r \in 1..Len(log) /\ w <= r
      BY <1>5, <1>9, <3>1
    <3>3. TimeOf(w) <= TimeOf(r)
      BY <1>1, <3>2 DEF TypeOK
    <3>4. req.start_time \in Nat
      <4>1. req \in Parameters /\ MaxTime \in Nat
        BY <1>1, ScanAssumption DEF TypeOK, ScanAssumption
      <4> QED
        BY <4>1 DEF Parameters
    <3> QED
      BY <1>5, <3>1, <3>2, <3>3, <3>4
  <2>3. PassesFilter(r)
    BY <1>3, <1>5
  <2> QED
    BY <1>2, <2>1, <2>2, <2>3 DEF TimeOf, PassesFilter, SubjectOf
<1>12. RowsSelected'
  BY <1>2 DEF ScanInv, RowsSelected, Selected, PassesText, PassesFilter, TimeOf, SubjectOf
<1> QED
  BY <1>7, <1>8, <1>10, <1>11, <1>12 DEF ScanInv

LEMMA TakeKeeps == ScanInv /\ TakeMessage => ScanInv'
<1> SUFFICES ASSUME ScanInv, TakeMessage PROVE ScanInv'
  OBVIOUS
<1> DEFINE q == LeastOf(batch)
<1>1. TypeOK /\ stage = "scan" /\ batch # {} /\ ConsumerAhead /\ BatchRequested
      /\ RowsSelected /\ RangeKept
  BY DEF ScanInv, TakeMessage
<1>2. /\ UNCHANGED <<log, present, req, info, end, target, left, right, found, missed, pos, cut>>
      /\ batch' = batch \ {q} /\ cur' = q + 1
      /\ stage' \in {"scan", "done"}
      /\ \/ rows' = rows
         \/ rows' = Append(rows, q) /\ q <= end /\ PassesText(q)
  <2>1. end \in Nat /\ LeastOf(batch) \in Nat
    <3>1. batch \subseteq 1..Len(log) /\ Len(log) \in Nat
      BY <1>1, Elements DEF TypeOK
    <3>2. batch \in SUBSET Nat
      BY <3>1
    <3>3. LeastOf(batch) \in batch
      BY <1>1, <3>2, LeastIsFirst
    <3> QED
      BY <1>1, <3>2, <3>3 DEF TypeOK
  <2>2. /\ UNCHANGED <<log, present, req, info, end, target, left, right, found, missed, pos, cut>>
        /\ batch' = batch \ {q} /\ cur' = q + 1
    BY DEF TakeMessage, stream, search
  <2>3. /\ stage' \in {"scan", "done"}
        /\ \/ rows' = rows
           \/ rows' = Append(rows, q) /\ ~IsBehindEnd(q) /\ PassesText(q)
    BY DEF TakeMessage
  <2>4. ~IsBehindEnd(q) => q <= end
    BY <2>1 DEF IsBehindEnd
  <2> HIDE DEF q
  <2> QED
    BY <2>2, <2>3, <2>4
<1>3. q \in batch /\ q \in 1..Len(log) /\ q < pos /\ \A r \in batch : q <= r
  <2>1. batch \subseteq 1..Len(log) /\ Len(log) \in Nat
    BY <1>1, Elements DEF TypeOK
  <2>2. batch \in SUBSET Nat
    BY <2>1
  <2>3. q \in batch /\ \A r \in batch : q <= r
    BY <1>1, <2>2, LeastIsFirst
  <2> QED
    BY <1>1, <2>1, <2>3 DEF ConsumerAhead
<1> HIDE DEF q
<1>4. /\ Len(log) \in Nat /\ Len(rows) \in Nat /\ rows \in Seq(1..Len(log))
      /\ \A i \in 1..Len(rows) : rows[i] \in 1..Len(log)
      /\ \A r \in batch : r \in 1..Len(log)
  BY <1>1, Elements DEF TypeOK
<1>5. /\ rows' \in Seq(1..Len(log))
      /\ \A i \in 1..Len(rows') :
           \/ i \in 1..Len(rows) /\ rows'[i] = rows[i]
           \/ i = Len(rows) + 1 /\ rows'[i] = q /\ q <= end /\ PassesText(q)
  <2>1. CASE rows' = rows
    BY <1>4, <2>1
  <2>2. CASE rows' = Append(rows, q) /\ q <= end /\ PassesText(q)
    <3>1. rows' \in Seq(1..Len(log)) /\ Len(rows') = Len(rows) + 1
          /\ \A i \in 1..Len(rows) : rows'[i] = rows[i] /\ rows'[Len(rows) + 1] = q
      BY <1>3, <1>4, <2>2, AppendProperties
    <3>2. rows'[Len(rows) + 1] = q
      BY <1>3, <1>4, <2>2, AppendProperties
    <3> QED
      BY <1>4, <2>2, <3>1, <3>2
  <2> QED
    BY <1>2, <2>1, <2>2
<1>6. TypeOK'
  <2>1. batch' \subseteq 1..Len(log) /\ cur' \in Nat
    BY <1>2, <1>3, <1>4
  <2> QED
    BY <1>1, <1>2, <1>5, <2>1 DEF TypeOK, TimeOf, Searching, Stages
<1>7. RequestKept' /\ FoundIsLate' /\ NothingRead'
  BY <1>1, <1>2 DEF ScanInv, RequestKept, FoundIsLate, NothingRead, HasSeqRange, HasTimeRange,
    Searching
<1>8. RangeKept'
  <2>1. cur' >= req.start_seq
    <3>1. q >= req.start_seq /\ req.start_seq \in Nat
      <4>1. req \in Parameters /\ UINT64_MAX \in Nat /\ MaxSeq \in Nat
        BY <1>1, ScanAssumption DEF TypeOK, ScanAssumption
      <4>2. req.start_seq \in Nat
        BY <4>1 DEF Parameters, SeqLimit
      <4> QED
        BY <1>1, <1>3, <4>2 DEF BatchRequested
    <3> QED
      BY <1>2, <1>3, <1>4, <3>1
  <2>2. ASSUME req.start_time > 0
        PROVE  \E w \in 1..Len(log) : w <= cur' /\ TimeOf(w) >= req.start_time
    <3>1. q <= cur'
      BY <1>2, <1>3, <1>4
    <3>2. TimeOf(q) >= req.start_time
      BY <1>1, <1>3, <2>2 DEF BatchRequested
    <3> QED
      BY <1>3, <3>1, <3>2
  <2> QED
    BY <1>1, <1>2, <2>1, <2>2 DEF RangeKept, TimeOf
<1>9. ConsumerAhead'
  <2>1. \A i \in 1..Len(rows) : rows[i] < pos /\ \A r \in batch : rows[i] < r
    BY <1>1 DEF ConsumerAhead
  <2>2. \A r \in batch' : r \in batch /\ q < r
    BY <1>2, <1>3, <1>4
  <2>3. \A i \in 1..Len(rows') : rows'[i] < pos /\ \A r \in batch' : rows'[i] < r
    BY <1>3, <1>5, <2>1, <2>2
  <2> QED
    BY <1>1, <1>2, <2>2, <2>3 DEF ConsumerAhead, TimeOf
<1>10. BatchRequested'
  BY <1>1, <1>2 DEF BatchRequested, TimeOf, PassesFilter, SubjectOf
<1>11. RowsSelected'
  <2>1. \A i \in 1..Len(rows) : rows[i] < q
    BY <1>1, <1>3 DEF ConsumerAhead
  <2>2. \A i, j \in 1..Len(rows') : i < j => rows'[i] < rows'[j]
    <3> SUFFICES ASSUME NEW i \in 1..Len(rows'), NEW j \in 1..Len(rows'), i < j
                 PROVE  rows'[i] < rows'[j]
      OBVIOUS
    <3>1. Len(rows') \in Nat
      BY <1>5, LenProperties
    <3>2. i \in 1..Len(rows) /\ rows'[i] = rows[i]
      <4>1. i \in Nat /\ j \in Nat
        BY <3>1
      <4>2. j <= Len(rows) + 1
        <5>1. j \in 1..Len(rows) \/ j = Len(rows) + 1
          BY <1>5
        <5>2. Len(rows) \in Nat
          BY <1>4
        <5> QED
          BY <4>1, <5>1, <5>2
      <4>3. i # Len(rows) + 1
        BY <1>4, <4>1, <4>2
      <4> QED
        BY <1>5, <4>3
    <3>3. CASE j \in 1..Len(rows) /\ rows'[j] = rows[j]
      BY <1>1, <3>2, <3>3 DEF RowsSelected
    <3>4. CASE j = Len(rows) + 1 /\ rows'[j] = q
      BY <2>1, <3>2, <3>4
    <3> QED
      BY <1>5, <3>3, <3>4
  <2>3. q <= end => q <= req.end_seq
    <3>1. end <= req.end_seq /\ end \in Nat /\ req.end_seq \in Nat
      <4>1. req \in Parameters /\ UINT64_MAX \in Nat /\ MaxSeq \in Nat
        BY <1>1, ScanAssumption DEF TypeOK, ScanAssumption
      <4>2. req.end_seq \in Nat
        BY <4>1 DEF Parameters, SeqLimit
      <4> QED
        BY <1>1, <4>2 DEF RangeKept
    <3> QED
      BY <1>3, <1>4, <3>1
  <2>4. q <= end /\ PassesText(q) => Selected(q)
    BY <1>1, <1>3, <2>3 DEF BatchRequested, Selected
  <2>5. \A i \in 1..Len(rows') : Selected(rows'[i])
    BY <1>1, <1>5, <2>4 DEF RowsSelected
  <2>6. \A i \in 1..Len(rows') : (Selected(rows[i]))'
    BY <1>2, <2>5 DEF Selected, PassesText, PassesFilter, TimeOf, SubjectOf
  <2> QED
    BY <2>2, <2>6 DEF RowsSelected
<1> QED
  BY <1>6, <1>7, <1>8, <1>9, <1>10, <1>11 DEF ScanInv

-----------------------------------------------------------------------------
(* Theorems.                                                               *)

LEMMA ScanStep == ScanInv /\ [Next]_vars => ScanInv'
<1> SUFFICES ASSUME ScanInv, [Next]_vars PROVE ScanInv'
  OBVIOUS
<1>1. CASE Publish
  BY <1>1, PublishKeeps
<1>2. CASE Expire
  BY <1>2, ExpireKeeps
<1>3. CASE Query
  <2>1. CASE Bind \/ NothingSince \/ RangeIsEmpty \/ RefuseFilter \/ FetchEnds \/ Fails
    BY <2>1, StageOnlySteps, StageOnlyKeeps DEF ScanInv
  <2>2. CASE GetStreamInfo
    BY <2>2, InfoKeeps
  <2>3. CASE ProbeMisses \/ ProbeFinds
    BY <2>3, ProbeKeeps
  <2>4. CASE StartsAtFound \/ EndsAtFound
    BY <2>4, SearchEndKeeps
  <2>5. CASE Subscribe
    BY <2>5, SubscribeKeeps
  <2>6. CASE Fetch \/ FetchLoses
    BY <2>6, DeliveryKeeps
  <2>7. CASE TakeMessage
    BY <2>7, TakeKeeps
  <2> QED
    BY <1>3, <2>1, <2>2, <2>3, <2>4, <2>5, <2>6, <2>7 DEF Query
<1>4. CASE UNCHANGED vars
  <2> USE <1>4 DEF vars, TimeOf, SubjectOf, Searching, SoughtTime
  <2>1. TypeOK'
    BY DEF ScanInv, TypeOK
  <2>2. RequestKept' /\ NothingRead'
    BY DEF ScanInv, RequestKept, NothingRead, HasSeqRange, HasTimeRange
  <2>3. FoundIsLate' /\ RangeKept'
    BY DEF ScanInv, FoundIsLate, RangeKept
  <2>4. ConsumerAhead'
    BY DEF ScanInv, ConsumerAhead
  <2>5. BatchRequested'
    BY DEF ScanInv, BatchRequested, PassesFilter
  <2>6. RowsSelected'
    BY DEF ScanInv, RowsSelected, Selected, PassesText, PassesFilter
  <2> QED
    BY <2>1, <2>2, <2>3, <2>4, <2>5, <2>6 DEF ScanInv
<1> QED
  BY <1>1, <1>2, <1>3, <1>4 DEF Next

-----------------------------------------------------------------------------
(* What a search that met no deleted message has found.                    *)

\* Everything below the range of a search is too early.
SearchExact ==
  Searching =>
    /\ end = info.last
    /\ found # UINT64_MAX => found <= info.last
    /\ stage \notin missed =>
         \A q \in info.msgs \intersect present : q < left => TimeOf(q) < SoughtTime

\* The scan starts at the first message that is as late as start_time.
StartExact ==
  stage \in {"to_time", "plan"} /\ req.start_time > 0 /\ "from_time" \notin missed =>
    \A q \in info.msgs \intersect present : TimeOf(q) >= req.start_time => q >= cur

\* Only the last message of the range may be as late as end_time.
Early(q) == q < end => TimeOf(q) < req.end_time

EndExact ==
  req.end_time > 0 /\ "to_time" \notin missed =>
    /\ stage \in {"plan", "scan"} =>
         end <= info.last /\ \A q \in (info.msgs \intersect present) \union batch : Early(q)
    /\ \A i \in 1..Len(rows) : rows[i] <= end /\ Early(rows[i])

\* What is stored of the stream as it was read, is what was stored then.
OnlyRemoved == \A q \in present : q <= info.last => q \in info.msgs

ExactInv == SearchExact /\ StartExact /\ EndExact /\ OnlyRemoved

LEMMA ExactInit == Init => ExactInv
<1> SUFFICES ASSUME Init PROVE ExactInv
  OBVIOUS
<1>1. Len(rows) = 0 /\ rows = <<>>
  BY DEF Init
<1>2. EndExact
  BY <1>1 DEF EndExact, Init
<1> QED
  BY <1>2 DEF Init, ExactInv, SearchExact, StartExact, OnlyRemoved, Searching

LEMMA ExactPublish == ScanInv /\ ExactInv /\ Publish => ExactInv'
<1> SUFFICES ASSUME ScanInv, ExactInv, Publish PROVE ExactInv'
  OBVIOUS
<1>1. TypeOK
  BY DEF ScanInv
<1>2. /\ Len(log) \in Nat /\ \A q \in 1..Len(log) : TimeOf(q)' = TimeOf(q)
  BY <1>1, MessagesStay DEF TimeOf
<1>3. /\ present' = present \union {Len(log) + 1}
      /\ UNCHANGED <<stage, req, info, cur, end, target, left, right, found, missed,
                     pos, batch, rows, cut>>
  BY DEF Publish, search, reading
<1>4. /\ info.last \in 0..Len(log) /\ info.msgs \subseteq 1..info.last
      /\ \A q \in batch : q \in 1..Len(log)
      /\ \A i \in 1..Len(rows) : rows[i] \in 1..Len(log)
  BY <1>1, Elements DEF TypeOK
<1>5. \A q \in info.msgs \intersect present' :
        q \in info.msgs \intersect present /\ q \in 1..Len(log)
  BY <1>2, <1>3, <1>4
<1>6. SearchExact'
  BY <1>2, <1>3, <1>5 DEF ExactInv, SearchExact, Searching, SoughtTime
<1>7. StartExact'
  BY <1>2, <1>3, <1>5 DEF ExactInv, StartExact
<1>8. EndExact'
  BY <1>2, <1>3, <1>4, <1>5 DEF ExactInv, EndExact, Early
<1>9. OnlyRemoved'
  BY <1>2, <1>3, <1>4 DEF ExactInv, OnlyRemoved
<1> QED
  BY <1>6, <1>7, <1>8, <1>9 DEF ExactInv

LEMMA ExactExpire == ExactInv /\ Expire => ExactInv'
<1> SUFFICES ASSUME ExactInv, Expire PROVE ExactInv'
  OBVIOUS
<1>1. /\ present' \subseteq present
      /\ UNCHANGED <<log, stage, req, info, cur, end, target, left, right, found, missed,
                     pos, batch, rows, cut>>
  BY DEF Expire, search, reading
<1> QED
  BY <1>1 DEF ExactInv, SearchExact, StartExact, EndExact, OnlyRemoved, Early, Searching,
    SoughtTime, TimeOf

LEMMA ExactStageOnly == ScanInv /\ ExactInv /\ StageOnly => ExactInv'
<1> SUFFICES ASSUME ScanInv, ExactInv, StageOnly PROVE ExactInv'
  OBVIOUS
<1> USE DEF StageOnly
<1>1. SearchExact' /\ StartExact'
  BY DEF SearchExact, StartExact, Searching
<1>2. EndExact'
  BY DEF ExactInv, EndExact, Early, TimeOf
<1>3. OnlyRemoved'
  BY DEF ExactInv, OnlyRemoved
<1> QED
  BY <1>1, <1>2, <1>3 DEF ExactInv

LEMMA ExactInfo == ScanInv /\ ExactInv /\ GetStreamInfo => ExactInv'
<1> SUFFICES ASSUME ScanInv, ExactInv, GetStreamInfo PROVE ExactInv'
  OBVIOUS
<1>1. TypeOK /\ stage = "info" /\ rows = <<>> /\ batch = {} /\ RequestKept
  BY DEF ScanInv, NothingRead, GetStreamInfo
<1>2. /\ UNCHANGED <<log, present, req, target, missed, pos, batch, rows, cut>>
      /\ info' = StreamState
      /\ cur' = IF req.start_seq > 0 THEN req.start_seq ELSE 1
      /\ end' = IF req.end_seq = UINT64_MAX THEN info'.last ELSE req.end_seq
      /\ left' = info'.first /\ right' = info'.last /\ found' = UINT64_MAX
  BY DEF GetStreamInfo, stream, reading, BeginSearch
<1>3. Len(log) \in Nat /\ present \subseteq 1..Len(log)
  BY <1>1, Elements DEF TypeOK
<1>4. /\ info'.last = Len(log) /\ info'.msgs = present
      /\ info'.first \in 0..Len(log) + 1 /\ present \subseteq info'.first..Len(log)
  BY <1>2, <1>3, StateTyped
<1>5. /\ req.start_time \in Nat /\ req.end_time \in Nat
  <2>1. req \in Parameters /\ MaxTime \in Nat
    BY <1>1, ScanAssumption DEF TypeOK, ScanAssumption
  <2> QED
    BY <2>1 DEF Parameters
<1>6. /\ stage' \in {"from_time", "to_time"} => HasTimeRange(req) /\ req.end_seq = UINT64_MAX
      /\ stage' = "plan" => ~HasTimeRange(req)
      /\ stage' \in {"to_time", "plan"} => req.start_time = 0
      /\ stage' \in {"from_time", "to_time", "plan"}
  BY <1>1, <1>5 DEF GetStreamInfo, HasTimeRange, HasSeqRange, RequestKept
<1>7. SearchExact'
  <2>1. \A q \in present : q \in info'.first..Len(log)
    BY <1>4
  <2>2. ASSUME NEW q \in info'.msgs PROVE ~(q < left')
    <3> DEFINE f == info'.first
    <3>1. q \in f..Len(log) /\ f \in 0..Len(log) + 1 /\ left' = f
      BY <1>2, <1>4, <2>1
    <3> HIDE DEF f
    <3> QED
      BY <1>3, <3>1
  <2> QED
    BY <1>2, <1>6, <2>2 DEF SearchExact, Searching
<1>8. StartExact'
  BY <1>2, <1>5, <1>6 DEF StartExact
<1>9. EndExact'
  <2>1. Len(rows') = 0 /\ \A i \in 1..Len(rows') : FALSE
    BY <1>1, <1>2
  <2> QED
    BY <1>2, <1>6, <2>1 DEF EndExact, HasTimeRange
<1>10. OnlyRemoved'
  BY <1>2, <1>4 DEF OnlyRemoved
<1> QED
  BY <1>7, <1>8, <1>9, <1>10 DEF ExactInv

LEMMA ExactProbe == ScanInv /\ ExactInv /\ (ProbeMisses \/ ProbeFinds) => ExactInv'
<1> SUFFICES ASSUME ScanInv, ExactInv, ProbeMisses \/ ProbeFinds PROVE ExactInv'
  OBVIOUS
<1>1. TypeOK /\ Searching /\ left <= right
  BY DEF ScanInv, ProbeMisses, ProbeFinds
<1>2. UNCHANGED <<log, present, stage, req, info, cur, end, target, pos, batch, rows, cut>>
  BY DEF ProbeMisses, ProbeFinds, stream, reading
<1>3. /\ Len(log) \in Nat /\ left \in Nat /\ right \in Nat
      /\ \A q \in 1..Len(log) : TimeOf(q) \in Nat
      /\ \A q \in present : q \in 1..Len(log)
  <2>1. left \in 0..Len(log) + 1 /\ right \in 0..Len(log)
    BY <1>1 DEF TypeOK
  <2> QED
    BY <1>1, <2>1, Elements
<1>4. Mid \in Nat /\ left <= Mid /\ Mid <= right
  BY <1>1, <1>3, MidWithin
<1>5. right <= info.last /\ info.last \in Nat /\ SoughtTime \in Nat
  <2>1. /\ info.last \in Nat /\ found \in 1..Len(log) \union {UINT64_MAX}
        /\ right = IF found = UINT64_MAX THEN info.last ELSE found - 1
    BY <1>1, <1>3 DEF TypeOK
  <2>2. req \in Parameters /\ MaxTime \in Nat
    BY <1>1, ScanAssumption DEF TypeOK, ScanAssumption
  <2>3. SoughtTime \in Nat
    BY <2>2 DEF Parameters, SoughtTime
  <2> QED
    BY <1>1, <1>3, <2>1, <2>3 DEF ExactInv, SearchExact
<1>6. \/ left' = Mid + 1 /\ found' = found /\ stage \in missed'
      \/ left' = left /\ found' = Mid /\ missed' = missed
      \/ /\ left' = Mid + 1 /\ found' = found /\ missed' = missed
         /\ Mid \in present /\ TimeOf(Mid) < SoughtTime
  <2>1. Mid \in present => TimeOf(Mid) \in Nat
    BY <1>3
  <2> QED
    BY <1>5, <2>1 DEF ProbeMisses, ProbeFinds, Hits
<1>7. SoughtTime' = SoughtTime /\ Searching' = Searching /\ \A q : TimeOf(q)' = TimeOf(q)
  BY <1>2 DEF SoughtTime, Searching, TimeOf
<1>8. found' # UINT64_MAX => found' <= info.last
  <2>1. found # UINT64_MAX => found <= info.last
    BY <1>1 DEF ExactInv, SearchExact
  <2>2. Mid <= info.last
    BY <1>3, <1>4, <1>5
  <2>3. found' = found \/ found' = Mid
    BY <1>6
  <2> QED
    BY <2>1, <2>2, <2>3
<1>9. ASSUME stage \notin missed', NEW q \in info.msgs \intersect present, q < left'
      PROVE  TimeOf(q) < SoughtTime
  <2>1. stage \notin missed /\ q \in 1..Len(log)
    BY <1>3, <1>6, <1>9
  <2>2. q < left => TimeOf(q) < SoughtTime
    BY <1>1, <1>9, <2>1 DEF ExactInv, SearchExact
  <2>3. CASE left' = left
    BY <1>9, <2>2, <2>3
  <2>4. CASE left' = Mid + 1 /\ Mid \in present /\ TimeOf(Mid) < SoughtTime
    <3>1. q <= Mid /\ Mid \in 1..Len(log)
      BY <1>3, <1>4, <1>9, <2>1, <2>4
    <3>2. TimeOf(q) <= TimeOf(Mid)
      BY <1>1, <2>1, <3>1 DEF TypeOK
    <3> QED
      BY <1>3, <1>5, <2>1, <2>4, <3>1, <3>2
  <2> QED
    BY <1>6, <1>9, <2>3, <2>4
<1>10. SearchExact'
  BY <1>1, <1>2, <1>7, <1>8, <1>9 DEF ExactInv, SearchExact
<1>11. missed \subseteq missed' /\ stage # "plan"
  BY <1>1 DEF ProbeMisses, ProbeFinds, Searching
<1>12. StartExact'
  <2>1. stage \in {"to_time", "plan"} /\ req.start_time > 0 /\ "from_time" \notin missed =>
          \A q \in info.msgs \intersect present : TimeOf(q) >= req.start_time => q >= cur
    BY DEF ExactInv, StartExact
  <2> QED
    BY <1>2, <1>7, <1>11, <2>1 DEF StartExact
<1>13. EndExact' /\ OnlyRemoved'
  BY <1>1, <1>2, <1>11 DEF ExactInv, EndExact, Early, OnlyRemoved, TimeOf
<1> QED
  BY <1>10, <1>12, <1>13 DEF ExactInv

LEMMA ExactStarts == ScanInv /\ ExactInv /\ StartsAtFound => ExactInv'
<1> SUFFICES ASSUME ScanInv, ExactInv, StartsAtFound PROVE ExactInv'
  OBVIOUS
<1>1. TypeOK /\ Searching /\ stage = "from_time" /\ batch = {} /\ rows = <<>> /\ RequestKept
  BY DEF ScanInv, StartsAtFound, Searching, NothingRead
<1>2. /\ UNCHANGED <<log, present, req, info, end, target, missed, pos, batch, rows, cut>>
      /\ cur' = found /\ left' = info.first /\ right' = info.last /\ found' = UINT64_MAX
      /\ stage' = IF req.end_time > 0 THEN "to_time" ELSE "plan"
  BY DEF StartsAtFound, stream, reading, BeginSearch
<1>3. /\ Len(log) \in Nat /\ left \in Nat /\ found \in 1..Len(log) /\ found <= left
      /\ \A q \in info.msgs : q \in Nat /\ ~(q < info.first)
      /\ \A q \in 1..Len(log) : TimeOf(q) \in Nat
      /\ \A q \in present : q \in 1..Len(log)
  <2>1. /\ Len(log) \in Nat
        /\ \A q \in 1..Len(log) : TimeOf(q) \in Nat
        /\ \A q \in present : q \in 1..Len(log)
    BY <1>1, Elements
  <2>2. /\ left \in 0..Len(log) + 1 /\ right \in 0..Len(log) /\ left > right
        /\ found \in 1..Len(log) /\ right = found - 1
    BY <1>1 DEF TypeOK, StartsAtFound
  <2>3. found <= left
    BY <2>1, <2>2
  <2>4. /\ info.first \in 0..info.last + 1 /\ info.last \in 0..Len(log)
        /\ \A q \in info.msgs : q \in info.first..info.last
    BY <1>1 DEF TypeOK
  <2>5. \A q \in info.msgs : q \in Nat /\ ~(q < info.first)
    BY <2>1, <2>4
  <2> QED
    BY <2>1, <2>2, <2>3, <2>5
<1>4. req.start_time \in Nat
  <2>1. req \in Parameters /\ MaxTime \in Nat
    BY <1>1, ScanAssumption DEF TypeOK, ScanAssumption
  <2> QED
    BY <2>1 DEF Parameters
<1>5. SearchExact'
  BY <1>1, <1>2, <1>3 DEF ExactInv, SearchExact, Searching
<1>6. StartExact'
  <2> SUFFICES ASSUME "from_time" \notin missed, NEW q \in info.msgs \intersect present,
                      TimeOf(q) >= req.start_time
               PROVE  q >= found
    BY <1>2 DEF StartExact, TimeOf
  <2>1. q < left => TimeOf(q) < req.start_time
    BY <1>1 DEF ExactInv, SearchExact, SoughtTime
  <2> QED
    BY <1>3, <1>4, <2>1
<1>7. EndExact'
  <2>1. Len(rows') = 0 /\ \A i \in 1..Len(rows') : FALSE
    BY <1>1, <1>2
  <2> QED
    BY <1>2, <2>1 DEF EndExact
<1>8. OnlyRemoved'
  BY <1>2 DEF ExactInv, OnlyRemoved
<1> QED
  BY <1>5, <1>6, <1>7, <1>8 DEF ExactInv

LEMMA ExactEnds == ScanInv /\ ExactInv /\ EndsAtFound => ExactInv'
<1> SUFFICES ASSUME ScanInv, ExactInv, EndsAtFound PROVE ExactInv'
  OBVIOUS
<1>1. TypeOK /\ Searching /\ stage = "to_time" /\ batch = {} /\ rows = <<>>
  BY DEF ScanInv, EndsAtFound, Searching, NothingRead
<1>2. /\ UNCHANGED <<log, present, req, info, cur, target, left, right, found, missed, pos,
                     batch, rows, cut>>
      /\ stage' = "plan"
      /\ end' = IF found = UINT64_MAX THEN end ELSE found
      /\ end = info.last
  BY <1>1 DEF EndsAtFound, stream, search, reading, LastToRead, ExactInv, SearchExact
<1>3. /\ info.last \in Nat /\ left \in Nat /\ end' \in Nat /\ end' <= left /\ end' <= info.last
      /\ \A q \in info.msgs : q \in Nat
  <2>1. Len(log) \in Nat
    BY <1>1, Elements
  <2>2. /\ left \in 0..Len(log) + 1 /\ right \in 0..Len(log) /\ left > right
        /\ found \in 1..Len(log) \union {UINT64_MAX}
        /\ right = IF found = UINT64_MAX THEN info.last ELSE found - 1
    BY <1>1 DEF TypeOK, EndsAtFound
  <2>3. info.last \in Nat /\ info.msgs \subseteq 1..info.last
    BY <1>1, <2>1 DEF TypeOK
  <2>4. found # UINT64_MAX => found <= info.last
    BY <1>1 DEF ExactInv, SearchExact
  <2> QED
    BY <1>2, <2>1, <2>2, <2>3, <2>4
<1>4. SearchExact'
  BY <1>2 DEF SearchExact, Searching
<1>5. StartExact'
  <2>1. req.start_time > 0 /\ "from_time" \notin missed =>
          \A q \in info.msgs \intersect present : TimeOf(q) >= req.start_time => q >= cur
    BY <1>1 DEF ExactInv, StartExact
  <2> QED
    BY <1>2, <2>1 DEF StartExact, TimeOf
<1>6. EndExact'
  <2>1. ASSUME "to_time" \notin missed, NEW q \in info.msgs \intersect present, q < end'
        PROVE  TimeOf(q) < req.end_time
    <3>1. q < left => TimeOf(q) < SoughtTime
      BY <1>1, <2>1 DEF ExactInv, SearchExact
    <3>2. q < left
      BY <1>3, <2>1
    <3> QED
      BY <1>1, <3>1, <3>2 DEF SoughtTime
  <2>2. Len(rows') = 0 /\ \A i \in 1..Len(rows') : FALSE
    BY <1>1, <1>2
  <2>3. batch' = {}
    BY <1>1, <1>2
  <2> QED
    BY <1>2, <1>3, <2>1, <2>2, <2>3 DEF EndExact, Early, TimeOf
<1>7. OnlyRemoved'
  BY <1>2 DEF ExactInv, OnlyRemoved
<1> QED
  BY <1>4, <1>5, <1>6, <1>7 DEF ExactInv

LEMMA ExactSubscribe == ScanInv /\ ExactInv /\ Subscribe => ExactInv'
<1> SUFFICES ASSUME ScanInv, ExactInv, Subscribe PROVE ExactInv'
  OBVIOUS
<1>1. /\ stage = "plan" /\ stage' \in {"scan", "done"}
      /\ UNCHANGED <<log, present, req, info, cur, end, left, right, found, missed, batch,
                     rows, cut>>
  BY DEF Subscribe, stream, search
<1>2. SearchExact' /\ StartExact'
  BY <1>1 DEF SearchExact, StartExact, Searching
<1>3. EndExact' /\ OnlyRemoved'
  BY <1>1 DEF ExactInv, EndExact, Early, TimeOf, OnlyRemoved
<1> QED
  BY <1>2, <1>3 DEF ExactInv

\* A message that was published after the stream was read lies behind the range.
LEMMA ExactDelivery == ScanInv /\ ExactInv /\ (Fetch \/ FetchLoses) => ExactInv'
<1> SUFFICES ASSUME ScanInv, ExactInv, Fetch \/ FetchLoses PROVE ExactInv'
  OBVIOUS
<1>1. TypeOK /\ stage = "scan" /\ batch = {}
  BY DEF ScanInv, Fetch, FetchLoses
<1>2. UNCHANGED <<log, present, stage, req, info, cur, end, target, left, right, found, missed,
                  rows>>
  BY DEF Fetch, FetchLoses, stream, search
<1>3. \A q \in batch' : q \in present
  <2>1. CASE Fetch
    BY <2>1 DEF Fetch, Deliverable
  <2>2. CASE FetchLoses
    BY <1>1, <2>2 DEF FetchLoses
  <2> QED
    BY <2>1, <2>2
<1>4. /\ \A q \in present : q \in Nat
      /\ info.last \in Nat /\ end \in Nat
  <2>1. Len(log) \in Nat /\ \A q \in present : q \in 1..Len(log)
    BY <1>1, Elements
  <2> QED
    BY <1>1, <2>1 DEF TypeOK
<1>5. SearchExact' /\ StartExact'
  BY <1>1, <1>2 DEF SearchExact, StartExact, Searching
<1>6. ASSUME req.end_time > 0, "to_time" \notin missed, NEW q \in batch'
      PROVE  Early(q)
  <2>1. end <= info.last /\ \A r \in info.msgs \intersect present : Early(r)
    BY <1>1, <1>6 DEF ExactInv, EndExact
  <2>2. q < end => q \in info.msgs
    BY <1>3, <1>4, <1>6, <2>1 DEF ExactInv, OnlyRemoved
  <2> QED
    BY <1>3, <1>6, <2>1, <2>2 DEF Early
<1>7. EndExact'
  BY <1>1, <1>2, <1>6 DEF ExactInv, EndExact, Early, TimeOf
<1>8. OnlyRemoved'
  BY <1>2 DEF ExactInv, OnlyRemoved
<1> QED
  BY <1>5, <1>7, <1>8 DEF ExactInv

LEMMA ExactTake == ScanInv /\ ExactInv /\ TakeMessage => ExactInv'
<1> SUFFICES ASSUME ScanInv, ExactInv, TakeMessage PROVE ExactInv'
  OBVIOUS
<1> DEFINE q == LeastOf(batch)
<1>1. TypeOK /\ stage = "scan" /\ batch # {} /\ stage' \in {"scan", "done"}
  BY DEF ScanInv, TakeMessage
<1>2. /\ Len(log) \in Nat /\ q \in batch /\ q \in 1..Len(log) /\ end \in Nat
      /\ rows \in Seq(1..Len(log)) /\ Len(rows) \in Nat
  <2>1. Len(log) \in Nat /\ batch \subseteq 1..Len(log) /\ Len(rows) \in Nat
    BY <1>1, Elements DEF TypeOK
  <2>2. batch \in SUBSET Nat
    BY <2>1
  <2>3. q \in batch
    BY <1>1, <2>2, LeastIsFirst
  <2> QED
    BY <1>1, <2>1, <2>3 DEF TypeOK
<1>3. /\ UNCHANGED <<log, present, req, info, end, left, right, found, missed>>
      /\ batch' \subseteq batch
      /\ rows' = rows \/ (rows' = Append(rows, q) /\ q <= end)
  <2>1. /\ UNCHANGED <<log, present, req, info, end, left, right, found, missed>>
        /\ batch' \subseteq batch
        /\ rows' = rows \/ (rows' = Append(rows, q) /\ ~IsBehindEnd(q))
    BY DEF TakeMessage, stream, search
  <2>2. ~IsBehindEnd(q) => q <= end
    BY <1>2 DEF IsBehindEnd
  <2> HIDE DEF q
  <2> QED
    BY <2>1, <2>2
<1> HIDE DEF q
<1>4. SearchExact' /\ StartExact'
  BY <1>1 DEF SearchExact, StartExact, Searching
<1>5. \A i \in 1..Len(rows') :
        \/ i \in 1..Len(rows) /\ rows'[i] = rows[i]
        \/ rows'[i] = q /\ q <= end
  <2>1. CASE rows' = rows
    BY <2>1
  <2>2. CASE rows' = Append(rows, q) /\ q <= end
    <3>1. /\ Len(rows') = Len(rows) + 1 /\ rows'[Len(rows) + 1] = q
          /\ \A i \in 1..Len(rows) : rows'[i] = rows[i]
      BY <1>2, <2>2, AppendProperties
    <3> QED
      BY <1>2, <2>2, <3>1
  <2> QED
    BY <1>3, <2>1, <2>2
<1>6. EndExact'
  <2> SUFFICES ASSUME req.end_time > 0, "to_time" \notin missed
               PROVE  /\ end <= info.last
                      /\ \A r \in (info.msgs \intersect present) \union batch' : Early(r)
                      /\ \A i \in 1..Len(rows') : rows'[i] <= end /\ Early(rows'[i])
    BY <1>1, <1>3 DEF EndExact, Early, TimeOf
  <2>1. /\ end <= info.last
        /\ \A r \in (info.msgs \intersect present) \union batch : Early(r)
        /\ \A i \in 1..Len(rows) : rows[i] <= end /\ Early(rows[i])
    BY <1>1 DEF ExactInv, EndExact
  <2>2. Early(q)
    BY <1>2, <2>1
  <2>3. ASSUME NEW i \in 1..Len(rows') PROVE rows'[i] <= end /\ Early(rows'[i])
    <3>1. CASE i \in 1..Len(rows) /\ rows'[i] = rows[i]
      BY <2>1, <3>1
    <3>2. CASE rows'[i] = q /\ q <= end
      BY <2>2, <3>2
    <3> QED
      BY <1>5, <3>1, <3>2
  <2> QED
    BY <1>3, <2>1, <2>3
<1>7. OnlyRemoved'
  BY <1>3 DEF ExactInv, OnlyRemoved
<1> QED
  BY <1>4, <1>6, <1>7 DEF ExactInv

LEMMA ExactStep == ScanInv /\ ExactInv /\ [Next]_vars => ExactInv'
<1> SUFFICES ASSUME ScanInv, ExactInv, [Next]_vars PROVE ExactInv'
  OBVIOUS
<1>1. CASE Publish
  BY <1>1, ExactPublish
<1>2. CASE Expire
  BY <1>2, ExactExpire
<1>3. CASE Query
  <2>1. CASE Bind \/ NothingSince \/ RangeIsEmpty \/ RefuseFilter \/ FetchEnds \/ Fails
    BY <2>1, StageOnlySteps, ExactStageOnly DEF ScanInv
  <2>2. CASE GetStreamInfo
    BY <2>2, ExactInfo
  <2>3. CASE ProbeMisses \/ ProbeFinds
    BY <2>3, ExactProbe
  <2>4. CASE StartsAtFound \/ EndsAtFound
    BY <2>4, ExactStarts, ExactEnds
  <2>5. CASE Subscribe
    BY <2>5, ExactSubscribe
  <2>6. CASE Fetch \/ FetchLoses
    BY <2>6, ExactDelivery
  <2>7. CASE TakeMessage
    BY <2>7, ExactTake
  <2> QED
    BY <1>3, <2>1, <2>2, <2>3, <2>4, <2>5, <2>6, <2>7 DEF Query
<1>4. CASE UNCHANGED vars
  BY <1>4 DEF vars, ExactInv, SearchExact, StartExact, EndExact, OnlyRemoved, Early, Searching,
    SoughtTime, TimeOf
<1> QED
  BY <1>1, <1>2, <1>3, <1>4 DEF Next

-----------------------------------------------------------------------------
\* The bounds of the searches and of the scan stay numbers of their types: the search
\* never takes one from zero.
THEOREM ScanTypeCorrect == Spec => []TypeOK
<1>1. ScanInv => TypeOK
  BY DEF ScanInv
<1> QED
  BY <1>1, ScanInit, ScanStep, PTL DEF Spec

\* Every row was selected, once and in stream order, and only the last one may be as late as
\* end_time, unless the search for it met a deleted message: for every stream, request and
\* batch size, with deletions, purges and lost batches at any moment.
THEOREM OnlyRequestedRows == Spec => []RowsAreRequested
<1>1. ScanInv /\ ExactInv => RowsAreRequested
  <2> SUFFICES ASSUME ScanInv, ExactInv PROVE RowsAreRequested
    OBVIOUS
  <2>1. TypeOK /\ RowsSelected
    BY DEF ScanInv
  <2>2. ASSUME req.end_time > 0, "to_time" \notin missed, NEW i \in 1..Len(rows), i < Len(rows)
        PROVE  TimeOf(rows[i]) < req.end_time
    <3>1. /\ Len(log) \in Nat /\ Len(rows) \in Nat /\ end \in Nat
          /\ \A j \in 1..Len(rows) : rows[j] \in 1..Len(log)
      BY <2>1, Elements DEF TypeOK
    <3>2. Len(rows) \in 1..Len(rows) /\ rows[Len(rows)] <= end /\ Early(rows[i])
      BY <2>2, <3>1 DEF ExactInv, EndExact
    <3>3. rows[i] < rows[Len(rows)]
      BY <2>1, <2>2, <3>2 DEF RowsSelected
    <3>4. rows[i] < end
      BY <3>1, <3>2, <3>3
    <3> QED
      BY <3>2, <3>4 DEF Early
  <2> QED
    BY <2>1, <2>2 DEF RowsSelected, RowsAreRequested
<1> QED
  BY <1>1, ScanInit, ScanStep, ExactInit, ExactStep, PTL DEF Spec

\* A search that met no deleted message finds the first message at or after start_time,
\* however the stream shrinks or grows before the scan begins.
StartsAtFirstUnlessMissed == "from_time" \notin missed => StartsAtFirst

THEOREM ExactStart == Spec => []StartsAtFirstUnlessMissed
<1>1. ExactInv => StartsAtFirstUnlessMissed
  BY DEF ExactInv, StartExact, StartsAtFirst, StartsAtFirstUnlessMissed
<1> QED
  BY <1>1, ScanInit, ScanStep, ExactInit, ExactStep, PTL DEF Spec

-----------------------------------------------------------------------------
(* Counting messages in ranges.                                            *)

\* An interval consists of the members of a set in it and the others.
LEMMA IntervalSplits ==
  ASSUME NEW a \in Nat, NEW b \in Nat, a <= b, NEW S
  PROVE  /\ Cardinality(S \intersect a..b) \in Nat
         /\ Cardinality((a..b) \ S) \in Nat
         /\ Cardinality(S \intersect a..b) + Cardinality((a..b) \ S) = b - a + 1
<1>1. IsFiniteSet(a..b) /\ Cardinality(a..b) = b - a + 1
  BY FS_Interval
<1>2. /\ IsFiniteSet((a..b) \ S)
      /\ Cardinality((a..b) \ S) = Cardinality(a..b) - Cardinality((a..b) \cap S)
  BY <1>1, FS_Difference
<1>3. S \intersect a..b = (a..b) \cap S
  OBVIOUS
<1>4. IsFiniteSet((a..b) \cap S)
  <2>1. (a..b) \cap S \in SUBSET (a..b)
    OBVIOUS
  <2> QED
    BY <1>1, <2>1, FS_Subset
<1> DEFINE inside == Cardinality((a..b) \cap S)
           outside == Cardinality((a..b) \ S)
<1>5. inside \in Nat /\ outside \in Nat
  BY <1>2, <1>4, FS_CardinalityType
<1>6. outside = Cardinality(a..b) - inside
  BY <1>2
<1>7. Cardinality(S \intersect a..b) = inside
  BY <1>3
<1> HIDE DEF inside, outside
<1>8. inside + outside = b - a + 1
  BY <1>1, <1>5, <1>6
<1> QED
  BY <1>5, <1>7, <1>8 DEF outside

\* The counts of a range are those of the part of it that overlaps the stream.
LEMMA RangeCounts ==
  ASSUME NEW s, s.first \in Nat, s.last \in Nat, s.msgs \subseteq s.first..s.last,
         NEW from \in Nat, NEW to \in Nat, from <= to
  PROVE  LET first   == Larger(from, s.first)
             last    == Smaller(to, s.last)
             deleted == CountDeletedInRange(s, first, last)
             stored  == Cardinality(s.msgs \intersect from..to)
         IN /\ stored \in Nat
            /\ ~Overlaps(s, from, to) => stored = 0
            /\ Overlaps(s, from, to) =>
                 first <= last /\ deleted \in Nat /\ stored + deleted = last - first + 1
<1> DEFINE first == Larger(from, s.first)
           last == Smaller(to, s.last)
           gone == {q \in Deleted(s) : first <= q /\ q <= last}
           f == s.first
           l == s.last
           M == s.msgs
<1>0. f \in Nat /\ l \in Nat /\ M \subseteq f..l
  OBVIOUS
<1>1. Cardinality(M \intersect from..to) \in Nat
  BY IntervalSplits
<1>2. ASSUME ~Overlaps(s, from, to) PROVE Cardinality(M \intersect from..to) = 0
  <2>1. M = {} \/ to < f \/ from > l
    BY <1>0, <1>2 DEF Overlaps
  <2> HIDE DEF f, l, M
  <2>2. M \intersect from..to = {}
    BY <1>0, <2>1
  <2> QED
    BY <2>2, FS_EmptySet
<1>3. ASSUME Overlaps(s, from, to)
      PROVE  /\ first <= last /\ first \in Nat /\ last \in Nat
             /\ gone = (first..last) \ M
             /\ M \intersect from..to = M \intersect first..last
  <2>1. /\ M # {} /\ to >= f /\ from <= l
        /\ first = (IF from >= f THEN from ELSE f) /\ last = (IF to >= l THEN l ELSE to)
        /\ gone = {q \in (f..l) \ M : first <= q /\ q <= last}
    BY <1>0, <1>3 DEF Overlaps, Larger, Smaller, Deleted
  <2> HIDE DEF f, l, M, first, last, gone
  <2>2. f <= l
    <3>1. PICK q : q \in M
      BY <2>1
    <3>2. q \in f..l
      BY <1>0, <3>1
    <3> QED
      BY <1>0, <3>2
  <2>3. first <= last /\ first \in Nat /\ last \in Nat /\ f <= first /\ last <= l
    BY <1>0, <2>1, <2>2
  <2>4. gone = (first..last) \ M
    BY <1>0, <2>1, <2>3
  <2>5. \A q \in M : q \in from..to <=> q \in first..last
    <3> SUFFICES ASSUME NEW q \in M PROVE q \in from..to <=> q \in first..last
      OBVIOUS
    <3>1. q \in Nat /\ f <= q /\ q <= l
      BY <1>0
    <3> QED
      BY <1>0, <2>1, <3>1
  <2> QED
    BY <2>3, <2>4, <2>5
<1>4. ASSUME Overlaps(s, from, to)
      PROVE  /\ Cardinality(gone) \in Nat
             /\ Cardinality(M \intersect from..to) + Cardinality(gone) = last - first + 1
  <2>1. /\ first <= last /\ first \in Nat /\ last \in Nat
        /\ gone = (first..last) \ M
        /\ M \intersect from..to = M \intersect first..last
    BY <1>3, <1>4
  <2> HIDE DEF first, last, M, gone
  <2>2. /\ Cardinality((first..last) \ M) \in Nat
        /\ Cardinality(M \intersect first..last) + Cardinality((first..last) \ M)
             = last - first + 1
    BY <2>1, IntervalSplits
  <2> QED
    BY <2>1, <2>2
<1> QED
  BY <1>1, <1>2, <1>3, <1>4 DEF CountDeletedInRange

\* CountAvailableInSequenceRange counts the messages that are stored in a range.
LEMMA AvailableAreStored ==
  ASSUME NEW s, s.first \in Nat, s.last \in Nat, s.msgs \subseteq s.first..s.last,
         NEW from \in Nat, NEW to \in Nat, from <= to
  PROVE  /\ CountAvailableInSequenceRange(s, from, to) = Cardinality(s.msgs \intersect from..to)
         /\ RangeStats(s, from, to).available_messages
              = Cardinality(s.msgs \intersect from..to)
<1> DEFINE first == Larger(from, s.first)
           last == Smaller(to, s.last)
           deleted == CountDeletedInRange(s, first, last)
           stored == Cardinality(s.msgs \intersect from..to)
<1>1. /\ stored \in Nat
      /\ ~Overlaps(s, from, to) => stored = 0
      /\ Overlaps(s, from, to) =>
           first <= last /\ deleted \in Nat /\ stored + deleted = last - first + 1
  BY RangeCounts
<1>2. first \in Nat /\ last \in Nat
  BY DEF Larger, Smaller
<1>3. CountAvailableInSequenceRange(s, from, to) =
        IF ~Overlaps(s, from, to) THEN 0
        ELSE IF last - first + 1 >= deleted THEN last - first + 1 - deleted ELSE 0
  BY DEF CountAvailableInSequenceRange
<1> DEFINE x == IF Overlaps(s, from, to) THEN last - first + 1 ELSE 0
           y == IF Overlaps(s, from, to) THEN deleted ELSE 0
<1>a. RangeStats(s, from, to).available_messages = x - y
  BY DEF RangeStats
<1>b. /\ Overlaps(s, from, to) => x = last - first + 1 /\ y = deleted
      /\ ~Overlaps(s, from, to) => x = 0 /\ y = 0
  OBVIOUS
<1> HIDE DEF x, y
<1> HIDE DEF first, last, deleted, stored
<1>4. CASE Overlaps(s, from, to)
  <2>1. last - first + 1 >= deleted /\ last - first + 1 - deleted = stored
    BY <1>1, <1>2, <1>4
  <2>2. CountAvailableInSequenceRange(s, from, to) = last - first + 1 - deleted
    BY <1>3, <1>4, <2>1
  <2>3. RangeStats(s, from, to).available_messages = last - first + 1 - deleted
    <3>1. x = last - first + 1 /\ y = deleted /\ deleted \in Nat
      BY <1>1, <1>4, <1>b
    <3>2. x - y = last - first + 1 - deleted
      BY <1>2, <3>1
    <3> QED
      BY <1>a, <3>2
  <2> QED
    BY <2>1, <2>2, <2>3 DEF stored
<1>5. CASE ~Overlaps(s, from, to)
  <2>1. RangeStats(s, from, to).available_messages = 0
    BY <1>5, <1>a, <1>b
  <2> QED
    BY <1>1, <1>3, <1>5, <2>1 DEF stored
<1> QED
  BY <1>4, <1>5

\* A range has gaps, within it or at its ends, if it has more numbers than messages.
LEMMA GapsAreMissing ==
  ASSUME TypeOK, NEW from \in Nat \ {0}, NEW to \in Nat, from <= to
  PROVE  RangeStats(StreamState, from, to).has_gaps <=>
           Cardinality(present \intersect from..to) < to - from + 1
<1> DEFINE s == StreamState
           f == s.first
           l == s.last
           first == Larger(from, f)
           last == Smaller(to, l)
           deleted == CountDeletedInRange(s, first, last)
           stored == Cardinality(present \intersect from..to)
<1>1. /\ f \in Nat /\ l \in Nat /\ s.msgs = present /\ present \subseteq f..l
      /\ present = {} => (f = 0 /\ l = 0) \/ f = l + 1
  <2>1. Len(log) \in Nat /\ present \subseteq 1..Len(log)
    BY Elements DEF TypeOK
  <2>2. /\ s.last = Len(log) /\ s.msgs = present /\ s.first \in 0..Len(log) + 1
        /\ present \subseteq s.first..Len(log)
    BY <2>1, StateTyped
  <2>3. present = {} => s.first = (IF Len(log) = 0 THEN 0 ELSE Len(log) + 1)
    BY DEF StreamState, StateOf
  <2> QED
    BY <2>1, <2>2, <2>3
<1>2. /\ stored \in Nat
      /\ ~Overlaps(s, from, to) => stored = 0
      /\ Overlaps(s, from, to) =>
           first <= last /\ deleted \in Nat /\ stored + deleted = last - first + 1
  <2> HIDE DEF s
  <2> QED
    BY <1>1, RangeCounts
<1>3. RangeStats(s, from, to).has_gaps <=>
        from < f \/ to > l \/ (IF Overlaps(s, from, to) THEN deleted ELSE 0) > 0
  BY DEF RangeStats
<1>4. Overlaps(s, from, to) <=> present # {} /\ to >= f /\ from <= l
  BY <1>1 DEF Overlaps
<1>5. /\ first = (IF from >= f THEN from ELSE f) /\ first \in Nat
      /\ last = (IF to >= l THEN l ELSE to) /\ last \in Nat
  BY <1>1 DEF Larger, Smaller
<1> HIDE DEF s, f, l, first, last, deleted, stored
<1>6. CASE Overlaps(s, from, to)
  <2>1. (from < f \/ to > l \/ deleted > 0) <=> stored < to - from + 1
    BY <1>1, <1>2, <1>4, <1>5, <1>6
  <2> QED
    BY <1>3, <1>6, <2>1 DEF s, stored
<1>7. CASE ~Overlaps(s, from, to)
  <2>1. from < f \/ to > l
    BY <1>1, <1>4, <1>7
  <2>2. stored < to - from + 1
    BY <1>2, <1>7
  <2> QED
    BY <1>3, <2>1, <2>2 DEF s, stored
<1> QED
  BY <1>6, <1>7

\* What nats_stream_range_stats reports of a range, and the count after which a scan ends
\* by itself, are the messages that are stored, for every range over every stream.
THEOREM RangesAreCounted == Spec => []RangeStatsAgree
<1>1. ScanInv => RangeStatsAgree
  <2> SUFFICES ASSUME ScanInv, NEW from \in 1..MaxSeq + 1, NEW to \in from..MaxSeq + 1
               PROVE  LET stored == Cardinality(present \intersect from..to)
                          row    == RangeStats(StreamState, from, to)
                      IN /\ row.available_messages = stored
                         /\ CountAvailableInSequenceRange(StreamState, from, to) = stored
                         /\ row.has_gaps <=> stored < row.requested_messages
    BY DEF RangeStatsAgree
  <2>1. TypeOK /\ from \in Nat \ {0} /\ to \in Nat /\ from <= to
    BY ScanAssumption DEF ScanInv, ScanAssumption
  <2>2. /\ StreamState.first \in Nat /\ StreamState.last \in Nat /\ StreamState.msgs = present
        /\ StreamState.msgs \subseteq StreamState.first..StreamState.last
    <3>1. Len(log) \in Nat /\ present \subseteq 1..Len(log)
      BY <2>1, Elements DEF TypeOK
    <3>2. /\ StreamState.last = Len(log) /\ StreamState.msgs = present
          /\ StreamState.first \in 0..Len(log) + 1
          /\ present \subseteq StreamState.first..Len(log)
      BY <3>1, StateTyped
    <3>3. StreamState.first \in Nat
      BY <3>1, <3>2
    <3> QED
      BY <3>1, <3>2, <3>3
  <2>3. RangeStats(StreamState, from, to).requested_messages = to - from + 1
    BY DEF RangeStats
  <2> QED
    BY <2>1, <2>2, <2>3, AvailableAreStored, GapsAreMissing
<1> QED
  BY <1>1, ScanInit, ScanStep, PTL DEF Spec

-----------------------------------------------------------------------------
(* A scan that ends by itself has read everything.                         *)

IsRow(q) == \E i \in 1..Len(rows) : rows[i] = q

\* A message of the stream as it was read that is still stored and asked for.
Wanted(q) ==
  /\ q \in present /\ Selected(q)
  /\ req.end_time > 0 => TimeOf(q) < req.end_time

\* How far a scan that has lost nothing is with such a message: it lies in the range, then
\* in the batch or before the consumer, and is a row in the end.
Reached(q) ==
  /\ stage \in {"to_time", "plan"} => q >= cur
  /\ stage = "plan" => q <= end
  /\ stage = "scan" /\ ~cut => q <= end /\ (q \in batch \/ q >= pos \/ IsRow(q))
  /\ stage = "done" /\ ~cut => IsRow(q)

WantedReached == "from_time" \notin missed => \A q \in info.msgs : Wanted(q) => Reached(q)

\* What was read comes from the range, and from the stream as it was read or from later.
ReadFromInfo ==
  /\ \A q \in batch : q <= info.last => q \in info.msgs
  /\ \A i \in 1..Len(rows) : /\ rows[i] <= end
                             /\ rows[i] <= info.last => rows[i] \in info.msgs

Between(m) == {q \in info.msgs : m <= q /\ q <= end /\ PassesFilter(q)}

\* The count that ends a scan is that of the messages from where it began.
CountExact ==
  stage = "scan" /\ target # UINT64_MAX =>
    \E m \in Nat : /\ target = Cardinality(Between(m))
                   /\ m <= pos
                   /\ \A q \in batch : m <= q
                   /\ \A i \in 1..Len(rows) : m <= rows[i]

CompleteInv == WantedReached /\ ReadFromInfo /\ CountExact

\* Rows that increase and leave out one message of a set are fewer than the set.
LEMMA FewerRows ==
  ASSUME NEW r, NEW n \in Nat, \A i, j \in 1..n : i < j => r[i] < r[j],
         \A i \in 1..n : r[i] \in Nat,
         NEW A, IsFiniteSet(A), NEW w \in A, \A i \in 1..n : r[i] \in A /\ r[i] # w
  PROVE  n < Cardinality(A)
<1> DEFINE T == A \ {w}
           f == [i \in 1..n |-> r[i]]
<1>1. Cardinality(A) \in Nat /\ IsFiniteSet(T) /\ Cardinality(T) = Cardinality(A) - 1
  BY FS_CardinalityType, FS_RemoveElement
<1>2. IsFiniteSet(1..n) /\ Cardinality(1..n) = n
  <2>1. IsFiniteSet(1..n) /\ Cardinality(1..n) = IF 1 > n THEN 0 ELSE n - 1 + 1
    BY FS_Interval
  <2> QED
    BY <2>1
<1>3. f \in [1..n -> T]
  OBVIOUS
<1>4. ASSUME ~(n < Cardinality(A)) PROVE FALSE
  <2>1. Cardinality(T) < Cardinality(1..n)
    BY <1>1, <1>2, <1>4
  <2>2. \E x, y \in 1..n : x # y /\ f[x] = f[y]
    <3> HIDE DEF T, f
    <3> QED
      BY <1>1, <1>2, <1>3, <2>1, FS_PigeonHole
  <2>3. PICK x \in 1..n, y \in 1..n : x # y /\ r[x] = r[y]
    BY <2>2
  <2>4. r[x] \in Nat /\ r[y] \in Nat /\ (x < y \/ y < x)
    BY <2>3
  <2> QED
    BY <2>3, <2>4
<1> QED
  BY <1>1, <1>4

\* The messages that are counted are finitely many numbers.
LEMMA BetweenFinite ==
  ASSUME TypeOK, NEW m
  PROVE  IsFiniteSet(Between(m)) /\ IsFiniteSet(info.msgs) /\ info.msgs \subseteq Nat
<1>1. info.last \in Nat /\ info.msgs \subseteq 1..info.last
  BY Elements DEF TypeOK
<1>2. IsFiniteSet(1..info.last)
  BY <1>1, FS_Interval
<1>3. IsFiniteSet(info.msgs)
  BY <1>1, <1>2, FS_Subset
<1>4. Between(m) \in SUBSET info.msgs
  BY DEF Between
<1> QED
  BY <1>1, <1>3, <1>4, FS_Subset

LEMMA CompleteInit == Init => CompleteInv
<1> SUFFICES ASSUME Init PROVE CompleteInv
  OBVIOUS
<1>1. Len(rows) = 0 /\ batch = {} /\ stage = "bind"
  BY DEF Init
<1> QED
  BY <1>1 DEF CompleteInv, WantedReached, Reached, ReadFromInfo, CountExact

\* The stream moves on: of the messages that are wanted only fewer remain.
LEMMA CompleteStream == ScanInv /\ CompleteInv /\ (Publish \/ Expire) => CompleteInv'
<1> SUFFICES ASSUME ScanInv, CompleteInv, Publish \/ Expire PROVE CompleteInv'
  OBVIOUS
<1>1. TypeOK
  BY DEF ScanInv
<1>2. /\ UNCHANGED <<stage, req, info, cur, end, target, left, right, found, missed, pos,
                     batch, rows, cut>>
      /\ \A q \in 1..Len(log) : log'[q] = log[q]
      /\ \A q \in 1..Len(log) : q \in present' => q \in present
  <2>1. CASE Publish
    <3>1. Len(log) \in Nat /\ \A q \in 1..Len(log) : log'[q] = log[q]
      BY <1>1, <2>1, MessagesStay
    <3>2. present' = present \union {Len(log) + 1}
      BY <2>1 DEF Publish
    <3> QED
      BY <2>1, <3>1, <3>2 DEF Publish, search, reading
  <2>2. CASE Expire
    BY <2>2 DEF Expire, search, reading
  <2> QED
    BY <2>1, <2>2
<1>3. \A q \in info.msgs : q \in 1..Len(log)
  BY <1>1, Elements DEF TypeOK
<1>4. ASSUME NEW q \in info.msgs
      PROVE  /\ PassesFilter(q)' <=> PassesFilter(q)
             /\ Wanted(q)' => Wanted(q)
             /\ Reached(q)' <=> Reached(q)
  <2>1. /\ q \in present' => q \in present
        /\ log'[q] = log[q]
    BY <1>2, <1>3
  <2> QED
    BY <1>2, <2>1 DEF PassesFilter, PassesText, Wanted, Selected, TimeOf, SubjectOf, Reached,
      IsRow
<1>5. WantedReached'
  BY <1>2, <1>4 DEF CompleteInv, WantedReached
<1>6. ReadFromInfo'
  BY <1>2 DEF CompleteInv, ReadFromInfo
<1>7. \A m : Between(m)' = Between(m)
  BY <1>2, <1>4 DEF Between
<1>8. CountExact'
  BY <1>2, <1>7 DEF CompleteInv, CountExact
<1> QED
  BY <1>5, <1>6, <1>8 DEF CompleteInv

\* What is wanted stays the same when the stream and the request do.
LEMMA SameWanted ==
  ASSUME UNCHANGED <<log, present, req>>, NEW q
  PROVE  /\ Wanted(q)' <=> Wanted(q)
         /\ PassesFilter(q)' <=> PassesFilter(q)
  BY DEF Wanted, Selected, PassesText, PassesFilter, TimeOf, SubjectOf

\* The ends of a query: only those without a message left to read are successful.
LEMMA CompleteEnds ==
  ASSUME ScanInv, ExactInv, CompleteInv,
         Bind \/ NothingSince \/ RangeIsEmpty \/ RefuseFilter \/ FetchEnds \/ Fails
  PROVE  CompleteInv'
<1>1. TypeOK /\ StageOnly
  BY StageOnlySteps DEF ScanInv
<1>2. /\ UNCHANGED <<log, present, req, info, cur, end, target, missed, pos, batch, rows>>
      /\ stage' \in {"info", "done", "failed"}
  BY <1>1 DEF StageOnly
<1>3. ASSUME "from_time" \notin missed, stage' = "done", ~cut', NEW q \in info.msgs, Wanted(q)
      PROVE  IsRow(q)
  <2>0. /\ q \in Nat /\ cur \in Nat /\ end \in Nat /\ pos \in Nat /\ q <= info.last
        /\ info.last \in Nat /\ left \in Nat /\ right \in Nat
    <3>1. Len(log) \in Nat
      BY <1>1, Elements
    <3> QED
      BY <1>1, <3>1 DEF TypeOK
  <2>1. Reached(q)
    BY <1>3 DEF CompleteInv, WantedReached
  <2>2. CASE NothingSince
    <3>1. /\ Searching /\ stage = "from_time" /\ left > right /\ found = UINT64_MAX
          /\ right = info.last
      BY <1>1, <2>2 DEF NothingSince, Searching, TypeOK
    <3>2. q < left
      BY <2>0, <3>1
    <3>3. TimeOf(q) < req.start_time
      BY <1>3, <3>1, <3>2 DEF ExactInv, SearchExact, Wanted, SoughtTime
    <3>4. req.start_time > 0 /\ TimeOf(q) >= req.start_time
      BY <1>3, <3>1 DEF ScanInv, FoundIsLate, Wanted, Selected
    <3>5. TimeOf(q) \in Nat /\ req.start_time \in Nat
      <4>1. req \in Parameters /\ MaxTime \in Nat
        BY <1>1, ScanAssumption DEF TypeOK, ScanAssumption
      <4>2. req.start_time \in Nat
        BY <4>1 DEF Parameters
      <4> QED
        BY <1>1, <1>3, <4>2, Elements DEF Wanted
    <3> QED
      BY <3>3, <3>4, <3>5
  <2>3. CASE RangeIsEmpty
    BY <2>0, <2>1, <2>3 DEF RangeIsEmpty, Reached
  <2>4. CASE FetchEnds
    <3>1. /\ stage = "scan" /\ batch = {} /\ ~cut /\ ~(\E r \in Deliverable : r <= end)
      BY <1>3, <2>4 DEF FetchEnds
    <3>2. q <= end /\ (q >= pos \/ IsRow(q))
      BY <2>1, <3>1 DEF Reached
    <3>3. q >= pos => q \in Deliverable
      BY <1>3 DEF Wanted, Selected, Deliverable
    <3> QED
      BY <3>1, <3>2, <3>3
  <2>5. CASE Bind \/ RefuseFilter \/ Fails
    BY <1>3, <2>5 DEF Bind, RefuseFilter, Fails
  <2> QED
    BY <2>2, <2>3, <2>4, <2>5
<1>4. ASSUME "from_time" \notin missed, NEW q \in info.msgs, Wanted(q) PROVE Reached(q)'
  <2>1. stage' = "done" /\ ~cut' => IsRow(q)
    BY <1>3, <1>4
  <2> QED
    BY <1>2, <2>1 DEF Reached, IsRow
<1>5. WantedReached'
  BY <1>2, <1>4, SameWanted DEF WantedReached
<1>6. ReadFromInfo' /\ CountExact'
  BY <1>2 DEF CompleteInv, ReadFromInfo, CountExact
<1> QED
  BY <1>5, <1>6 DEF CompleteInv

\* The stream is read: the range reaches every message in it.
LEMMA CompleteInfo == ScanInv /\ CompleteInv /\ GetStreamInfo => CompleteInv'
<1> SUFFICES ASSUME ScanInv, CompleteInv, GetStreamInfo PROVE CompleteInv'
  OBVIOUS
<1>1. TypeOK /\ stage = "info" /\ rows = <<>> /\ batch = {}
  BY DEF ScanInv, NothingRead, GetStreamInfo
<1>2. /\ UNCHANGED <<log, present, req, missed, batch, rows>>
      /\ info' = StreamState
      /\ cur' = IF req.start_seq > 0 THEN req.start_seq ELSE 1
      /\ end' = IF req.end_seq = UINT64_MAX THEN info'.last ELSE req.end_seq
      /\ stage' \in {"from_time", "to_time", "plan"}
  <2>1. req.start_time \in Nat /\ req.end_time \in Nat
    <3>1. req \in Parameters /\ MaxTime \in Nat
      BY <1>1, ScanAssumption DEF TypeOK, ScanAssumption
    <3> QED
      BY <3>1 DEF Parameters
  <2> QED
    BY <2>1 DEF GetStreamInfo, stream, reading, HasTimeRange
<1>3. Len(log) \in Nat /\ present \subseteq 1..Len(log)
  BY <1>1, Elements DEF TypeOK
<1>4. info'.last = Len(log) /\ info'.msgs = present
  BY <1>2, <1>3, StateTyped
<1>5. ASSUME NEW q \in info'.msgs, Wanted(q) PROVE q >= cur' /\ q <= end'
  <2>1. q \in 1..Len(log) /\ q >= req.start_seq /\ q <= req.end_seq
    BY <1>3, <1>4, <1>5 DEF Wanted, Selected
  <2> QED
    BY <1>2, <1>3, <1>4, <2>1
<1>6. WantedReached'
  BY <1>2, <1>5, SameWanted DEF WantedReached, Reached
<1>7. ReadFromInfo' /\ CountExact'
  <2>1. Len(rows') = 0 /\ batch' = {} /\ stage' # "scan"
    BY <1>1, <1>2
  <2> QED
    BY <2>1 DEF ReadFromInfo, CountExact
<1> QED
  BY <1>6, <1>7 DEF CompleteInv

LEMMA CompleteProbe == ScanInv /\ CompleteInv /\ (ProbeMisses \/ ProbeFinds) => CompleteInv'
<1> SUFFICES ASSUME ScanInv, CompleteInv, ProbeMisses \/ ProbeFinds PROVE CompleteInv'
  OBVIOUS
<1>1. /\ UNCHANGED <<log, present, stage, req, info, cur, end, target, pos, batch, rows, cut>>
      /\ missed \subseteq missed' /\ stage \in {"from_time", "to_time"}
  BY DEF ProbeMisses, ProbeFinds, Searching, stream, reading
<1>2. \A q : Reached(q)' <=> Reached(q)
  BY <1>1 DEF Reached, IsRow
<1>3. WantedReached'
  BY <1>1, <1>2, SameWanted DEF CompleteInv, WantedReached
<1>4. ReadFromInfo' /\ CountExact'
  BY <1>1 DEF CompleteInv, ReadFromInfo, CountExact
<1> QED
  BY <1>3, <1>4 DEF CompleteInv

\* The ends of the searches: what lies before start_time or behind end_time is not wanted.
LEMMA CompleteStarts ==
  ScanInv /\ ExactInv /\ ExactInv' /\ CompleteInv /\ StartsAtFound => CompleteInv'
<1> SUFFICES ASSUME ScanInv, ExactInv, ExactInv', CompleteInv, StartsAtFound
             PROVE  CompleteInv'
  OBVIOUS
<1>1. /\ TypeOK /\ Searching /\ stage = "from_time" /\ rows = <<>> /\ batch = {}
      /\ req.start_time > 0 /\ end = info.last
  BY DEF ScanInv, NothingRead, StartsAtFound, Searching, FoundIsLate, ExactInv, SearchExact
<1>2. /\ UNCHANGED <<log, present, req, info, end, missed, batch, rows>>
      /\ stage' \in {"to_time", "plan"}
  BY DEF StartsAtFound, stream, reading
<1>3. ASSUME "from_time" \notin missed, NEW q \in info.msgs, Wanted(q)
      PROVE  q >= cur' /\ q <= end
  <2>1. q \in present /\ TimeOf(q) >= req.start_time
    BY <1>1, <1>3 DEF Wanted, Selected
  <2>2. q >= cur'
    BY <1>1, <1>2, <1>3, <2>1 DEF ExactInv, StartExact, TimeOf
  <2>3. q <= end
    <3>1. Len(log) \in Nat /\ info.last \in 0..Len(log) /\ info.msgs \subseteq 1..info.last
      BY <1>1, Elements DEF TypeOK
    <3> QED
      BY <1>1, <3>1
  <2> QED
    BY <2>2, <2>3
<1>4. WantedReached'
  BY <1>2, <1>3, SameWanted DEF WantedReached, Reached
<1>5. ReadFromInfo' /\ CountExact'
  <2>1. Len(rows') = 0 /\ batch' = {} /\ stage' # "scan"
    BY <1>1, <1>2
  <2> QED
    BY <2>1 DEF ReadFromInfo, CountExact
<1> QED
  BY <1>4, <1>5 DEF CompleteInv

LEMMA CompleteEndsAt == ScanInv /\ ExactInv /\ CompleteInv /\ EndsAtFound => CompleteInv'
<1> SUFFICES ASSUME ScanInv, ExactInv, CompleteInv, EndsAtFound PROVE CompleteInv'
  OBVIOUS
<1>1. /\ TypeOK /\ Searching /\ stage = "to_time" /\ rows = <<>> /\ batch = {}
      /\ req.end_time > 0 /\ end = info.last
      /\ found # UINT64_MAX => TimeOf(found) >= req.end_time
  BY DEF ScanInv, NothingRead, EndsAtFound, Searching, FoundIsLate, SoughtTime, ExactInv,
    SearchExact
<1>2. /\ UNCHANGED <<log, present, req, info, cur, missed, batch, rows>>
      /\ stage' = "plan" /\ end' = IF found = UINT64_MAX THEN end ELSE found
  BY DEF EndsAtFound, LastToRead, stream, search, reading
<1>3. ASSUME "from_time" \notin missed, NEW q \in info.msgs, Wanted(q)
      PROVE  q >= cur /\ q <= end'
  <2>1. q >= cur
    BY <1>1, <1>3 DEF CompleteInv, WantedReached, Reached
  <2>2. /\ Len(log) \in Nat /\ q \in 1..Len(log) /\ q <= info.last
        /\ found # UINT64_MAX => found \in 1..Len(log)
    <3>1. Len(log) \in Nat /\ info.last \in 0..Len(log) /\ info.msgs \subseteq 1..info.last
      BY <1>1, Elements DEF TypeOK
    <3> QED
      BY <1>1, <3>1 DEF TypeOK
  <2>3. ASSUME found # UINT64_MAX PROVE q <= found
    <3>1. TimeOf(q) \in Nat /\ TimeOf(found) \in Nat /\ req.end_time \in Nat
      <4>1. req \in Parameters /\ MaxTime \in Nat
        BY <1>1, ScanAssumption DEF TypeOK, ScanAssumption
      <4>2. req.end_time \in Nat
        BY <4>1 DEF Parameters
      <4> QED
        BY <1>1, <2>2, <2>3, <4>2, Elements
    <3>2. TimeOf(q) < TimeOf(found)
      BY <1>1, <1>3, <2>3, <3>1 DEF Wanted
    <3>3. found <= q => TimeOf(found) <= TimeOf(q)
      BY <1>1, <2>2, <2>3 DEF TypeOK
    <3> QED
      BY <2>2, <2>3, <3>1, <3>2, <3>3
  <2> QED
    BY <1>1, <1>2, <2>1, <2>2, <2>3
<1>4. WantedReached'
  BY <1>2, <1>3, SameWanted DEF WantedReached, Reached
<1>5. ReadFromInfo' /\ CountExact'
  <2>1. Len(rows') = 0 /\ batch' = {} /\ stage' # "scan"
    BY <1>1, <1>2
  <2> QED
    BY <2>1 DEF ReadFromInfo, CountExact
<1> QED
  BY <1>4, <1>5 DEF CompleteInv

\* The count that ends a scan is that of the messages it should read.
LEMMA TargetIsExact ==
  ASSUME TypeOK, cur <= end, NEW n \in TargetMessageCount, n # UINT64_MAX
  PROVE  n = Cardinality(Between(cur))
<1>1. /\ cur \in Nat /\ end \in Nat /\ info.first \in Nat /\ info.last \in Nat
      /\ info.msgs \subseteq info.first..info.last /\ info.msgs \subseteq 1..info.last
  BY Elements DEF TypeOK
<1>2. CASE req.subject_contains # NoFilter
  BY <1>2 DEF TargetMessageCount
<1>3. CASE req.subject_contains = NoFilter /\ req.nats_subject = NoFilter
  <2>1. n = Cardinality(info.msgs \intersect cur..end)
    <3>1. n \in {CountAvailableInSequenceRange(info, cur, end)}
      BY <1>3, Zenon DEF TargetMessageCount
    <3>2. n = CountAvailableInSequenceRange(info, cur, end)
      BY <3>1
    <3>3. CountAvailableInSequenceRange(info, cur, end)
            = Cardinality(info.msgs \intersect cur..end)
      BY <1>1, AvailableAreStored
    <3> QED
      BY <3>2, <3>3, Zenon
  <2>2. info.msgs \intersect cur..end = Between(cur)
    BY <1>1, <1>3 DEF Between, PassesFilter
  <2> QED
    BY <2>1, <2>2
<1>4. CASE req.subject_contains = NoFilter /\ req.nats_subject # NoFilter
  <2>1. FullStream /\ n \in SubjectCount
    BY <1>4 DEF TargetMessageCount
  <2> DEFINE matching == {q \in info.msgs : PassesFilter(q)}
  <2>2. matching = Between(cur)
    BY <1>1, <2>1 DEF FullStream, Between
  <2>3. n = Cardinality(matching)
    <3>1. n \in (IF Cardinality(matching) = 0 THEN {0, UINT64_MAX} ELSE {Cardinality(matching)})
      BY <2>1 DEF SubjectCount
    <3> HIDE DEF matching
    <3> QED
      BY <3>1
  <2> QED
    BY <2>2, <2>3
<1> QED
  BY <1>2, <1>3, <1>4

LEMMA CompleteSubscribe == ScanInv /\ CompleteInv /\ Subscribe => CompleteInv'
<1> SUFFICES ASSUME ScanInv, CompleteInv, Subscribe PROVE CompleteInv'
  OBVIOUS
<1>1. TypeOK /\ stage = "plan" /\ rows = <<>> /\ batch = {} /\ cur <= end
  BY DEF ScanInv, NothingRead, Subscribe
<1>2. /\ UNCHANGED <<log, present, req, info, cur, end, missed, batch, rows, cut>>
      /\ target' \in TargetMessageCount /\ pos' = cur
      /\ stage' = IF target' = 0 THEN "done" ELSE "scan"
  BY DEF Subscribe, stream, search
<1>3. target' # UINT64_MAX => target' = Cardinality(Between(cur))
  BY <1>1, <1>2, TargetIsExact
<1>4. Len(rows') = 0 /\ batch' = {}
  BY <1>1, <1>2
<1>5. ASSUME "from_time" \notin missed, NEW q \in info.msgs, Wanted(q)
      PROVE  q >= cur /\ q <= end /\ stage' = "scan"
  <2>1. q >= cur /\ q <= end
    BY <1>1, <1>5 DEF CompleteInv, WantedReached, Reached
  <2>2. q \in Between(cur)
    BY <1>5, <2>1 DEF Between, Wanted, Selected
  <2>3. target' # 0
    <3>1. ASSUME target' = 0 PROVE FALSE
      <4>1. UINT64_MAX # 0
        BY ScanAssumption DEF ScanAssumption
      <4>2. Cardinality(Between(cur)) = 0 /\ IsFiniteSet(Between(cur))
        BY <1>1, <1>3, <3>1, <4>1, BetweenFinite
      <4> QED
        BY <2>2, <4>2, FS_EmptySet
    <3> QED
      BY <3>1
  <2> QED
    BY <1>2, <2>1, <2>3
<1>6. WantedReached'
  BY <1>2, <1>5, SameWanted DEF WantedReached, Reached
<1>7. ReadFromInfo'
  BY <1>4 DEF ReadFromInfo
<1>8. CountExact'
  <2>1. \A m : Between(m)' = Between(m)
    BY <1>2, SameWanted DEF Between
  <2>2. cur \in Nat /\ cur <= pos'
    BY <1>1, <1>2 DEF TypeOK
  <2> QED
    BY <1>2, <1>3, <1>4, <2>1, <2>2 DEF CountExact
<1> QED
  BY <1>6, <1>7, <1>8 DEF CompleteInv

\* A batch takes what is wanted from the front of the queue, or is lost and known to be.
LEMMA CompleteDelivery ==
  ScanInv /\ ExactInv /\ CompleteInv /\ (Fetch \/ FetchLoses) => CompleteInv'
<1> SUFFICES ASSUME ScanInv, ExactInv, CompleteInv, Fetch \/ FetchLoses PROVE CompleteInv'
  OBVIOUS
<1>1. TypeOK /\ stage = "scan" /\ batch = {}
  BY DEF ScanInv, Fetch, FetchLoses
<1>2. UNCHANGED <<log, present, stage, req, info, cur, end, target, missed, rows>>
  BY DEF Fetch, FetchLoses, stream, search
<1>3. PICK q \in Deliverable :
        /\ pos' = q + 1 /\ batch' \subseteq {r \in Deliverable : r <= q}
        /\ ~cut' => ~cut /\ batch' = {r \in Deliverable : r <= q}
  <2>1. CASE Fetch
    BY <2>1 DEF Fetch
  <2>2. CASE FetchLoses
    BY <1>1, <2>2 DEF FetchLoses
  <2> QED
    BY <2>1, <2>2
<1>4. /\ pos \in Nat /\ info.last \in Nat
      /\ \A r \in Deliverable : r \in present /\ r \in Nat /\ r >= pos
      /\ \A r \in info.msgs : r \in Nat
  <2>1. Len(log) \in Nat /\ \A r \in present : r \in 1..Len(log)
    BY <1>1, Elements
  <2> QED
    <3>1. pos \in Nat /\ info.last \in Nat
      BY <1>1, <2>1 DEF TypeOK
    <3>2. info.msgs \subseteq Nat
      BY <1>1, BetweenFinite
    <3>3. \A r \in Deliverable : r \in present /\ r >= pos
      BY DEF Deliverable
    <3> QED
      BY <2>1, <3>1, <3>2, <3>3
<1>5. ASSUME "from_time" \notin missed, NEW w \in info.msgs, Wanted(w) PROVE Reached(w)'
  <2>1. ASSUME ~cut' PROVE w <= end /\ (w \in batch' \/ w >= pos' \/ IsRow(w))
    <3>1. w <= end /\ (w >= pos \/ IsRow(w))
      BY <1>1, <1>3, <1>5, <2>1 DEF CompleteInv, WantedReached, Reached
    <3>2. w >= pos => w \in Deliverable
      BY <1>5 DEF Wanted, Selected, Deliverable
    <3>3. w \in Deliverable => w \in batch' \/ w >= pos'
      BY <1>3, <1>4, <2>1
    <3> QED
      BY <3>1, <3>2, <3>3
  <2> QED
    BY <1>1, <1>2, <2>1 DEF Reached, IsRow
<1>6. WantedReached'
  BY <1>2, <1>5, SameWanted DEF WantedReached
<1>7. ReadFromInfo'
  <2>1. \A r \in batch' : r <= info.last => r \in info.msgs
    BY <1>3, <1>4 DEF ExactInv, OnlyRemoved
  <2> QED
    BY <1>2, <2>1 DEF CompleteInv, ReadFromInfo
<1>8. CountExact'
  <2> SUFFICES ASSUME target # UINT64_MAX
               PROVE  \E m \in Nat : /\ target = Cardinality(Between(m))
                                     /\ m <= pos'
                                     /\ \A r \in batch' : m <= r
                                     /\ \A i \in 1..Len(rows) : m <= rows[i]
    <3>1. \A m : Between(m)' = Between(m)
      BY <1>2, SameWanted DEF Between
    <3> QED
      BY <1>2, <3>1 DEF CountExact
  <2>1. PICK m \in Nat : /\ target = Cardinality(Between(m)) /\ m <= pos
                         /\ \A i \in 1..Len(rows) : m <= rows[i]
    BY <1>1 DEF CompleteInv, CountExact
  <2>2. m <= pos' /\ \A r \in batch' : m <= r
    <3>1. q \in Nat /\ pos <= q
      BY <1>4
    <3>2. \A r \in batch' : r \in Nat /\ pos <= r
      BY <1>3, <1>4
    <3> QED
      BY <1>3, <1>4, <2>1, <3>1, <3>2
  <2> QED
    BY <2>1, <2>2
<1> QED
  BY <1>6, <1>7, <1>8 DEF CompleteInv

\* Taking a message: the rows are complete when the loop ends, behind the last message of
\* the range or after as many rows as were counted.
LEMMA CompleteTake == ScanInv /\ ScanInv' /\ CompleteInv /\ TakeMessage => CompleteInv'
<1> SUFFICES ASSUME ScanInv, ScanInv', CompleteInv, TakeMessage PROVE CompleteInv'
  OBVIOUS
<1> DEFINE q == LeastOf(batch)
<1>1. TypeOK /\ TypeOK' /\ stage = "scan" /\ batch # {} /\ ConsumerAhead
  BY DEF ScanInv, TakeMessage
<1>2. /\ UNCHANGED <<log, present, req, info, end, target, missed, pos, cut>>
      /\ batch' = batch \ {q} /\ stage' \in {"scan", "done"}
      /\ \/ /\ q > end \/ ~PassesText(q)
            /\ rows' = rows
            /\ stage' = "done" => q >= end
         \/ /\ q <= end /\ rows' = Append(rows, q)
            /\ stage' = "done" => q >= end \/ Len(rows') >= target
  <2>1. end \in Nat /\ LeastOf(batch) \in Nat
    <3>1. batch \subseteq 1..Len(log) /\ Len(log) \in Nat
      BY <1>1, Elements DEF TypeOK
    <3>2. batch \in SUBSET Nat
      BY <3>1
    <3>3. LeastOf(batch) \in batch
      BY <1>1, <3>2, LeastIsFirst
    <3> QED
      BY <1>1, <3>2, <3>3 DEF TypeOK
  <2>2. /\ UNCHANGED <<log, present, req, info, end, target, missed, pos, cut>>
        /\ batch' = batch \ {q} /\ stage' \in {"scan", "done"}
        /\ \/ /\ IsBehindEnd(q) \/ ~PassesText(q)
              /\ rows' = rows
              /\ stage' = "done" => q >= end
           \/ /\ ~IsBehindEnd(q) /\ rows' = Append(rows, q)
              /\ stage' = "done" => q >= end \/ Len(rows') >= target
    BY DEF TakeMessage, stream, search, IsLast
  <2>3. (IsBehindEnd(q) <=> q > end) /\ (~IsBehindEnd(q) => q <= end)
    BY <2>1 DEF IsBehindEnd
  <2> HIDE DEF q
  <2> QED
    BY <2>2, <2>3
<1>3. /\ q \in batch /\ q \in 1..Len(log) /\ q < pos /\ Len(log) \in Nat
      /\ \A r \in batch : q <= r /\ r \in Nat
      /\ end \in Nat /\ pos \in Nat /\ target \in Nat /\ info.last \in Nat
      /\ \A r \in info.msgs : r \in Nat /\ r <= info.last
  <2>1. batch \subseteq 1..Len(log) /\ Len(log) \in Nat /\ info.msgs \subseteq 1..info.last
    BY <1>1, Elements DEF TypeOK
  <2>2. batch \in SUBSET Nat /\ info.last \in Nat
    <3>1. info.last \in 0..Len(log)
      BY <1>1 DEF TypeOK
    <3> QED
      BY <2>1, <3>1
  <2>3. q \in batch /\ \A r \in batch : q <= r
    BY <1>1, <2>2, LeastIsFirst
  <2>4. end \in Nat /\ pos \in Nat /\ target \in Nat
    BY <1>1 DEF TypeOK
  <2>5. q < pos
    BY <1>1, <2>3 DEF ConsumerAhead
  <2>6. \A r \in batch : q <= r /\ r \in Nat
    BY <2>2, <2>3
  <2>7. \A r \in info.msgs : r \in Nat /\ r <= info.last
    BY <2>1, <2>2
  <2> HIDE DEF q
  <2> QED
    BY <2>1, <2>2, <2>3, <2>4, <2>5, <2>6, <2>7
<1> HIDE DEF q
<1>4. /\ Len(rows) \in Nat /\ rows \in Seq(1..Len(log))
      /\ \A i \in 1..Len(rows) : rows[i] \in 1..Len(log) /\ rows[i] < q
  BY <1>1, <1>3, Elements DEF TypeOK, ConsumerAhead
<1>5. /\ Len(rows') \in Nat
      /\ \A i \in 1..Len(rows') : /\ rows'[i] \in 1..Len(log) /\ rows'[i] <= q
                                  /\ \/ i \in 1..Len(rows) /\ rows'[i] = rows[i]
                                     \/ rows'[i] = q /\ q <= end
      /\ \A w : IsRow(w) => IsRow(w)'
      /\ rows' # rows => \E i \in 1..Len(rows') : rows'[i] = q
  <2>1. CASE rows' = rows
    <3>1. \A i \in 1..Len(rows) : rows[i] <= q
      BY <1>3, <1>4
    <3> QED
      BY <1>4, <2>1, <3>1 DEF IsRow
  <2>2. CASE rows' = Append(rows, q) /\ q <= end
    <3>1. /\ Len(rows') = Len(rows) + 1 /\ rows'[Len(rows) + 1] = q
          /\ \A i \in 1..Len(rows) : rows'[i] = rows[i]
      BY <1>3, <1>4, <2>2, AppendProperties
    <3>2. \A i \in 1..Len(rows') : i \in 1..Len(rows) \/ i = Len(rows) + 1
      BY <1>4, <3>1
    <3>3. \A i \in 1..Len(rows) : i \in 1..Len(rows')
      BY <1>4, <3>1
    <3>4. Len(rows) + 1 \in 1..Len(rows') /\ Len(rows') \in Nat
      BY <1>4, <3>1
    <3>5. \A i \in 1..Len(rows) : rows[i] <= q
      BY <1>3, <1>4
    <3>6. q <= q
      BY <1>3
    <3>7. ASSUME NEW i \in 1..Len(rows')
          PROVE  /\ rows'[i] \in 1..Len(log) /\ rows'[i] <= q
                 /\ \/ i \in 1..Len(rows) /\ rows'[i] = rows[i]
                    \/ rows'[i] = q /\ q <= end
      <4>1. CASE i \in 1..Len(rows)
        BY <1>4, <3>1, <3>5, <4>1
      <4>2. CASE i = Len(rows) + 1
        BY <1>3, <2>2, <3>1, <3>6, <4>2
      <4> QED
        BY <3>2, <4>1, <4>2
    <3>8. \A w : IsRow(w) => IsRow(w)'
      BY <3>1, <3>3 DEF IsRow
    <3>9. \E i \in 1..Len(rows') : rows'[i] = q
      BY <3>1, <3>4
    <3> QED
      BY <3>4, <3>7, <3>8, <3>9
  <2> QED
    BY <1>2, <2>1, <2>2
<1>6. /\ \A r \in batch' : r \in batch /\ q < r
      /\ \A r \in batch : r # q => r \in batch'
  BY <1>2, <1>3
<1>7. ReadFromInfo'
  <2>1. \A r \in batch : r <= info.last => r \in info.msgs
    BY DEF CompleteInv, ReadFromInfo
  <2>2. \A i \in 1..Len(rows) : rows[i] <= end /\ (rows[i] <= info.last => rows[i] \in info.msgs)
    BY DEF CompleteInv, ReadFromInfo
  <2>3. \A i \in 1..Len(rows') :
          rows'[i] <= end /\ (rows'[i] <= info.last => rows'[i] \in info.msgs)
    BY <1>3, <1>5, <2>1, <2>2
  <2> QED
    BY <1>2, <1>6, <2>1, <2>3 DEF ReadFromInfo
<1>8. \A m : Between(m)' = Between(m)
  BY <1>2, SameWanted DEF Between
<1>9. ASSUME target # UINT64_MAX
      PROVE  \E m \in Nat : /\ target = Cardinality(Between(m))
                            /\ m <= pos /\ m <= q
                            /\ \A r \in batch' : m <= r
                            /\ \A i \in 1..Len(rows') : m <= rows'[i]
  <2>1. PICK m \in Nat : /\ target = Cardinality(Between(m)) /\ m <= pos
                         /\ \A r \in batch : m <= r
                         /\ \A i \in 1..Len(rows) : m <= rows[i]
    BY <1>1, <1>9 DEF CompleteInv, CountExact
  <2>2. m <= q
    BY <1>3, <2>1
  <2>3. \A i \in 1..Len(rows') : m <= rows'[i]
    BY <1>5, <2>1, <2>2
  <2> QED
    BY <1>6, <2>1, <2>2, <2>3
<1>10. CountExact'
  BY <1>2, <1>8, <1>9 DEF CountExact
<1>11. \A i, j \in 1..Len(rows') : i < j => rows'[i] < rows'[j]
  BY DEF ScanInv, RowsSelected
\* As many rows as were counted leave out no message behind the last one.
<1>12. ASSUME NEW w \in info.msgs, Wanted(w), q < w, w <= end PROVE Len(rows') < target
  <2>1. w \in Nat /\ w <= info.last /\ q \in Nat
    BY <1>3
  <2>2. \A i \in 1..Len(rows') : rows'[i] \in Nat /\ rows'[i] # w /\ rows'[i] <= info.last
    BY <1>3, <1>5, <1>12, <2>1
  <2>3. CASE target = UINT64_MAX
    <3> DEFINE A == 1..(Len(log) + 1)
               v == Len(log) + 1
    <3>1. IsFiniteSet(A) /\ Cardinality(A) = Len(log) + 1 /\ v \in A
      <4>1. IsFiniteSet(A) /\ Cardinality(A) = IF 1 > v THEN 0 ELSE v - 1 + 1
        BY <1>3, FS_Interval
      <4> QED
        BY <1>3, <4>1
    <3>2. \A i \in 1..Len(rows') : rows'[i] \in A /\ rows'[i] # v
      BY <1>3, <1>5
    <3> HIDE DEF A, v
    <3>3. Len(rows') < Cardinality(A)
      BY <1>5, <1>11, <2>2, <3>1, <3>2, FewerRows
    <3>4. Len(log) <= MaxSeq
      BY <1>1 DEF TypeOK
    <3> QED
      BY <1>3, <1>5, <2>3, <3>1, <3>3, <3>4, ScanAssumption DEF ScanAssumption
  <2>4. CASE target # UINT64_MAX
    <3>1. PICK m \in Nat : /\ target = Cardinality(Between(m)) /\ m <= q
                           /\ \A i \in 1..Len(rows') : m <= rows'[i]
      BY <1>9, <2>4
    <3>2. w \in Between(m)
      <4>1. m <= w
        BY <1>12, <2>1, <3>1
      <4> QED
        BY <1>12, <4>1 DEF Between, Wanted, Selected
    <3>3. ASSUME NEW i \in 1..Len(rows') PROVE rows'[i] \in Between(m)
      <4>1. rows'[i] \in info.msgs /\ rows'[i] <= end
        BY <1>2, <1>7, <2>2 DEF ReadFromInfo
      <4>2. PassesFilter(rows'[i])
        <5>1. \A k \in 1..Len(rows') : (Selected(rows[k]))'
          BY DEF ScanInv, RowsSelected
        <5> QED
          BY <1>2, <5>1 DEF Selected, PassesFilter, SubjectOf
      <4> QED
        BY <3>1, <4>1, <4>2 DEF Between
    <3>4. IsFiniteSet(Between(m))
      BY <1>1, BetweenFinite
    <3> QED
      BY <1>5, <1>11, <2>2, <3>1, <3>2, <3>3, <3>4, FewerRows
  <2> QED
    BY <2>3, <2>4
<1>13. ASSUME "from_time" \notin missed, ~cut, NEW w \in info.msgs, Wanted(w)
       PROVE  /\ w <= end
              /\ w \in batch' \/ w >= pos \/ IsRow(w)'
              /\ stage' = "done" => IsRow(w)'
  <2>1. w <= end /\ (w \in batch \/ w >= pos \/ IsRow(w))
    BY <1>1, <1>13 DEF CompleteInv, WantedReached, Reached
  <2>2. w = q => IsRow(w)'
    <3>1. ASSUME w = q, rows' = rows PROVE FALSE
      <4>1. q > end \/ ~PassesText(q)
        <5>1. Append(rows, q) # rows
          <6>1. Len(Append(rows, q)) = Len(rows) + 1
            BY <1>3, <1>4, AppendProperties
          <6> QED
            BY <1>4, <6>1
        <5> QED
          BY <1>2, <3>1, <5>1
      <4>2. q <= end /\ PassesText(q)
        BY <1>13, <2>1, <3>1 DEF Wanted, Selected
      <4> QED
        BY <1>3, <4>1, <4>2
    <3>2. (\E i \in 1..Len(rows') : rows'[i] = w) => IsRow(w)'
      BY DEF IsRow
    <3> QED
      BY <1>5, <3>1, <3>2
  <2>3. w \in batch' \/ w >= pos \/ IsRow(w)'
    BY <1>5, <1>6, <2>1, <2>2
  <2>4. ASSUME stage' = "done", ~IsRow(w)' PROVE FALSE
    <3>1. q < w
      BY <1>3, <1>6, <2>3, <2>4
    <3>2. ~(q >= end)
      BY <1>3, <2>1, <3>1
    <3>3. Len(rows') >= target
      BY <1>2, <2>4, <3>2
    <3>4. Len(rows') < target
      BY <1>12, <1>13, <2>1, <3>1
    <3> QED
      BY <1>3, <1>5, <3>3, <3>4
  <2> QED
    BY <2>1, <2>3, <2>4
<1>14. WantedReached'
  <2>1. ASSUME "from_time" \notin missed, NEW w \in info.msgs, Wanted(w) PROVE Reached(w)'
    <3>1. ~cut => /\ w <= end
                  /\ w \in batch' \/ w >= pos \/ IsRow(w)'
                  /\ stage' = "done" => IsRow(w)'
      BY <1>13, <2>1
    <3> QED
      BY <1>2, <3>1 DEF Reached
  <2> QED
    BY <1>2, <2>1, SameWanted DEF WantedReached
<1> QED
  BY <1>7, <1>10, <1>14 DEF CompleteInv

LEMMA CompleteStep ==
  ScanInv /\ ExactInv /\ CompleteInv /\ [Next]_vars => CompleteInv'
<1> SUFFICES ASSUME ScanInv, ExactInv, CompleteInv, [Next]_vars PROVE CompleteInv'
  OBVIOUS
<1>1. CASE Publish \/ Expire
  BY <1>1, CompleteStream
<1>2. CASE Query
  <2>1. CASE Bind \/ NothingSince \/ RangeIsEmpty \/ RefuseFilter \/ FetchEnds \/ Fails
    BY <2>1, CompleteEnds
  <2>2. CASE GetStreamInfo
    BY <2>2, CompleteInfo
  <2>3. CASE ProbeMisses \/ ProbeFinds
    BY <2>3, CompleteProbe
  <2>4. CASE StartsAtFound
    BY <2>4, ExactStarts, CompleteStarts
  <2>5. CASE EndsAtFound
    BY <2>5, CompleteEndsAt
  <2>6. CASE Subscribe
    BY <2>6, CompleteSubscribe
  <2>7. CASE Fetch \/ FetchLoses
    BY <2>7, CompleteDelivery
  <2>8. CASE TakeMessage
    BY <2>8, TakeKeeps, CompleteTake
  <2> QED
    BY <1>2, <2>1, <2>2, <2>3, <2>4, <2>5, <2>6, <2>7, <2>8 DEF Query
<1>3. CASE UNCHANGED vars
  <2>1. /\ UNCHANGED <<log, present, stage, req, info, cur, end, target, missed, pos, batch,
                       rows, cut>>
    BY <1>3 DEF vars
  <2>2. \A q : Reached(q)' <=> Reached(q)
    BY <2>1 DEF Reached, IsRow
  <2>3. \A m : Between(m)' = Between(m)
    BY <2>1, SameWanted DEF Between
  <2> QED
    BY <2>1, <2>2, <2>3, SameWanted DEF CompleteInv, WantedReached, ReadFromInfo, CountExact
<1> QED
  BY <1>1, <1>2, <1>3 DEF Next

\* The early end is never too early: a scan that ends by itself, has lost no message and met
\* no deleted one in its search for start_time has every message of the stream as it was
\* read that is still stored and asked for.
THEOREM CompleteScan == Spec => []CompleteWhenDone
<1>1. CompleteInv => CompleteWhenDone
  BY DEF CompleteInv, WantedReached, Reached, Wanted, IsRow, CompleteWhenDone
<1> QED
  BY <1>1, ScanInit, ScanStep, ExactInit, ExactStep, CompleteInit, CompleteStep, PTL DEF Spec
=============================================================================
