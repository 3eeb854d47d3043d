-------------------------- MODULE CopyToStreamProofs --------------------------
(***************************************************************************)
(* What the schema cache and the COPY statements that use it promise, for  *)
(* any number of calls, statements and rows, any contents of the schema    *)
(* file and any number of connection losses.                               *)
(***************************************************************************)
EXTENDS CopyToStream, Integers, TLAPS

-----------------------------------------------------------------------------
\* The cache.

\* The mutex is held by the call that builds.
HolderBuilds == \A c \in Calls : call[c] = "building" <=> holder = c

\* No modification time and no content is from the future, and a call that has begun
\* has read a time, unless it was refused one.
TimesOK ==
  /\ cached <= written /\ modified <= cached
  /\ \A c \in Calls : stamp[c] <= written /\ schema[c] <= written
  /\ \A c \in Calls : call[c] \notin {"idle", "refused"} => stamp[c] >= 1

\* A call that has read a content has read none older than its time.
ContentsCurrent ==
  \A c \in Calls : call[c] \in {"building", "returned"} => schema[c] >= stamp[c]

\* The files of a set can be put in an order.
Ordered(content, set) ==
  /\ \A f \in set : Contents[content][f] \subseteq set
  /\ \A F \in (SUBSET set) \ {{}} : \E f \in F : Contents[content][f] \intersect F = {}

\* What is built so far is built in an order; a pass that has built nothing yet has
\* found no file to build.
BuildOK ==
  \A c \in Calls : call[c] = "building" =>
    /\ schema[c] \in Writes
    /\ Ordered(schema[c], built)
    /\ ~progress => \A f \in 1..(index - 1) : f \in built \/ ~Ready(f, schema[c])

\* What is in the cache could be built.
CachedBuilds == modified > 0 => Buildable(cached)

CacheInv ==
  /\ CacheTypeOK /\ HolderBuilds /\ TimesOK /\ ContentsCurrent
  /\ BuildOK /\ CachedBuilds /\ BuildsWhatCanBeBuilt

\* All files in an order is what Buildable says.
LEMMA OrderedIsBuildable == \A content : Ordered(content, Files) <=> Buildable(content)
BY DEF Ordered, Buildable

\* A file whose imports are built may come next.
LEMMA OrderGrows ==
  ASSUME NEW content, NEW set, NEW f \in Files, f \notin set,
         Ordered(content, set), Contents[content][f] \subseteq set
  PROVE  Ordered(content, set \union {f})
<1>1. \A g \in set \union {f} : Contents[content][g] \subseteq set \union {f}
  BY DEF Ordered
<1>2. ASSUME NEW F \in SUBSET (set \union {f}), F # {}
      PROVE  \E g \in F : Contents[content][g] \intersect F = {}
  <2>1. CASE F \intersect set = {}
    <3>1. F = {f}
      BY <1>2, <2>1
    <3> QED
      BY <3>1
  <2>2. CASE F \intersect set # {}
    <3>1. F \intersect set \in (SUBSET set) \ {{}}
      BY <2>2
    <3>2. PICK g \in F \intersect set : Contents[content][g] \intersect (F \intersect set) = {}
      BY <3>1 DEF Ordered
    <3>3. Contents[content][g] \subseteq set
      BY <3>2 DEF Ordered
    <3> QED
      BY <3>2, <3>3
  <2> QED
    BY <2>1, <2>2
<1> QED
  BY <1>1, <1>2 DEF Ordered

\* When no file that is left can be built, the files left are in no order.
LEMMA StuckIsCyclic ==
  ASSUME NEW content, NEW set \in SUBSET Files, set # Files,
         \A f \in Files : f \in set \/ ~(Contents[content][f] \subseteq set)
  PROVE  ~Buildable(content)
<1> SUFFICES ASSUME Buildable(content) PROVE FALSE
  OBVIOUS
<1>1. Files \ set \in (SUBSET Files) \ {{}}
  OBVIOUS
<1>2. PICK f \in Files \ set : Contents[content][f] \intersect (Files \ set) = {}
  BY <1>1 DEF Buildable
<1>3. Contents[content][f] \subseteq Files
  BY DEF Buildable
<1> QED
  BY <1>2, <1>3

LEMMA CacheInitOK == CacheInit => CacheInv
<1> SUFFICES ASSUME CacheInit PROVE CacheInv
  OBVIOUS
<1> USE SchemaCacheAssumption DEF SchemaCacheAssumption
<1>1. Len(Contents) \in Nat /\ Len(Contents) >= 1 /\ MaxFiles \in Nat
  OBVIOUS
<1>2. CacheTypeOK
  <2>1. /\ written \in Writes /\ modified \in 0..Len(Contents) /\ cached \in 0..Len(Contents)
        /\ index \in 1..(MaxFiles + 1)
    BY <1>1 DEF CacheInit, Writes
  <2>2. /\ stamp \in [Calls -> 0..Len(Contents)] /\ schema \in [Calls -> 0..Len(Contents)]
        /\ call \in [Calls -> {"idle", "asked", "building", "returned", "failed", "refused"}]
    BY <1>1 DEF CacheInit
  <2>3. /\ holder \in Calls \union {NoCall} /\ built \subseteq Files /\ progress \in BOOLEAN
    BY DEF CacheInit
  <2> QED
    BY <2>1, <2>2, <2>3 DEF CacheTypeOK
<1> QED
  BY <1>1, <1>2 DEF CacheInit, CacheInv, HolderBuilds, TimesOK, ContentsCurrent, BuildOK,
     CachedBuilds, BuildsWhatCanBeBuilt

\* The file is written, or a call reads its time, or cannot.
LEMMA FileStepOK ==
  ASSUME CacheInv, WritesFile \/ \E c \in Calls : StatsFile(c) \/ StatFails(c)
  PROVE  CacheInv'
<1> USE SchemaCacheAssumption DEF SchemaCacheAssumption, cache, building, Moves
<1>0. Len(Contents) \in Nat
  OBVIOUS
<1>1. CASE WritesFile
  <2>1. CacheTypeOK' /\ TimesOK'
    BY <1>0, <1>1 DEF WritesFile, CacheInv, CacheTypeOK, TimesOK, Writes
  <2>2. HolderBuilds' /\ ContentsCurrent' /\ BuildOK' /\ CachedBuilds' /\ BuildsWhatCanBeBuilt'
    BY <1>1 DEF WritesFile, CacheInv, HolderBuilds, ContentsCurrent, BuildOK, CachedBuilds,
       BuildsWhatCanBeBuilt, Ready, Ordered
  <2> QED
    BY <2>1, <2>2 DEF CacheInv
<1>2. ASSUME NEW c \in Calls, StatsFile(c) \/ StatFails(c) PROVE CacheInv'
  <2>1. CacheTypeOK' /\ TimesOK' /\ HolderBuilds'
    <3>1. CASE StatsFile(c)
      BY <1>0, <3>1 DEF StatsFile, CacheInv, CacheTypeOK, TimesOK, HolderBuilds, Writes
    <3>2. CASE StatFails(c)
      BY <1>0, <3>2 DEF StatFails, CacheInv, CacheTypeOK, TimesOK, HolderBuilds
    <3> QED
      BY <1>2, <3>1, <3>2
  <2>2. ContentsCurrent' /\ CachedBuilds' /\ BuildsWhatCanBeBuilt'
    BY <1>2 DEF StatsFile, StatFails, CacheInv, CacheTypeOK, ContentsCurrent, CachedBuilds,
       BuildsWhatCanBeBuilt
  <2>3. BuildOK'
    <3>1. \A b \in Calls : call'[b] = "building" => call[b] = "building"
      BY <1>2 DEF StatsFile, StatFails, CacheInv, CacheTypeOK
    <3> QED
      BY <1>2, <3>1 DEF StatsFile, StatFails, CacheInv, BuildOK, Ready, Ordered
  <2> QED
    BY <2>1, <2>2, <2>3 DEF CacheInv
<1> QED
  BY <1>1, <1>2

\* A call finds the entry, or begins to build.
LEMMA LookupOK ==
  ASSUME CacheInv, NEW c \in Calls, CacheHit(c) \/ ReadsFile(c)
  PROVE  CacheInv'
<1> USE SchemaCacheAssumption DEF SchemaCacheAssumption, cache, building, Moves
<1>0. Len(Contents) \in Nat /\ MaxFiles \in Nat
  OBVIOUS
<1>1. CASE CacheHit(c)
  <2>1. CacheTypeOK' /\ TimesOK' /\ HolderBuilds' /\ ContentsCurrent'
    BY <1>0, <1>1 DEF CacheHit, CacheInv, CacheTypeOK, TimesOK, HolderBuilds, ContentsCurrent,
       Writes
  <2>2. Buildable(cached)
    <3>1. stamp[c] >= 1 /\ modified = stamp[c]
      BY <1>1 DEF CacheHit, CacheInv, TimesOK
    <3> QED
      BY <3>1 DEF CacheInv, CachedBuilds, CacheTypeOK
  <2>3. CachedBuilds' /\ BuildsWhatCanBeBuilt'
    BY <1>1, <2>2 DEF CacheHit, CacheInv, CacheTypeOK, CachedBuilds, BuildsWhatCanBeBuilt
  <2>4. BuildOK'
    BY <1>1 DEF CacheHit, CacheInv, CacheTypeOK, BuildOK, HolderBuilds
  <2> QED
    BY <2>1, <2>3, <2>4 DEF CacheInv
<1>2. CASE ReadsFile(c)
  <2>1. CacheTypeOK' /\ TimesOK' /\ HolderBuilds' /\ ContentsCurrent'
    <3>1. written \in 1..Len(Contents) /\ 1 \in 1..(MaxFiles + 1)
      BY <1>0 DEF CacheInv, CacheTypeOK, Writes
    <3>2. CacheTypeOK'
      <4>1. /\ call' \in [Calls -> {"idle", "asked", "building", "returned", "failed", "refused"}]
            /\ schema' \in [Calls -> 0..Len(Contents)]
        BY <1>2, <3>1 DEF ReadsFile, CacheInv, CacheTypeOK
      <4>2. /\ holder' \in Calls \union {NoCall} /\ built' \subseteq Files
            /\ index' \in 1..(MaxFiles + 1)
        BY <1>2, <3>1 DEF ReadsFile
      <4>3. progress' \in BOOLEAN
        BY <1>2 DEF ReadsFile
      <4> QED
        BY <1>2, <4>1, <4>2, <4>3 DEF ReadsFile, CacheInv, CacheTypeOK
    <3>3. TimesOK' /\ ContentsCurrent'
      BY <1>2, <3>1 DEF ReadsFile, CacheInv, CacheTypeOK, TimesOK, ContentsCurrent
    <3>4. HolderBuilds'
      BY <1>2 DEF ReadsFile, CacheInv, CacheTypeOK, HolderBuilds
    <3> QED
      BY <3>2, <3>3, <3>4
  <2>2. CachedBuilds' /\ BuildsWhatCanBeBuilt'
    BY <1>2 DEF ReadsFile, CacheInv, CacheTypeOK, CachedBuilds, BuildsWhatCanBeBuilt
  <2>3. \A b \in Calls : call'[b] = "building" => b = c
    BY <1>2 DEF ReadsFile, CacheInv, CacheTypeOK, HolderBuilds
  <2>4. Ordered(schema'[c], {})
    BY DEF Ordered
  <2>5. schema'[c] \in Writes
    BY <1>2 DEF ReadsFile, CacheInv, CacheTypeOK
  <2>6. BuildOK'
    BY <1>2, <2>3, <2>4, <2>5 DEF ReadsFile, BuildOK, Writes
  <2> QED
    BY <2>1, <2>2, <2>6 DEF CacheInv
<1> QED
  BY <1>1, <1>2

\* One file after the other, pass after pass.
LEMMA PassOK ==
  ASSUME CacheInv, NEW c \in Calls, BuildsFile(c) \/ StartsPass(c)
  PROVE  CacheInv'
<1> USE SchemaCacheAssumption DEF SchemaCacheAssumption, cache, building
<1>0. MaxFiles \in Nat /\ call[c] = "building" /\ holder = c
  BY DEF BuildsFile, StartsPass, CacheInv, HolderBuilds
<1>1. UNCHANGED <<written, modified, cached, holder, call, stamp, schema>>
  BY DEF BuildsFile, StartsPass
<1>2. HolderBuilds' /\ TimesOK' /\ ContentsCurrent' /\ CachedBuilds' /\ BuildsWhatCanBeBuilt'
  BY <1>1 DEF CacheInv, HolderBuilds, TimesOK, ContentsCurrent, CachedBuilds,
     BuildsWhatCanBeBuilt
<1>3. CacheTypeOK'
  <2>1. built' \subseteq Files /\ index' \in 1..(MaxFiles + 1) /\ progress' \in BOOLEAN
    <3>1. built \subseteq Files /\ index \in 1..(MaxFiles + 1) /\ progress \in BOOLEAN
      BY DEF CacheInv, CacheTypeOK
    <3>2. CASE BuildsFile(c)
      <4>1. built' \subseteq Files
        BY <3>1, <3>2 DEF BuildsFile
      <4>2. index' \in 1..(MaxFiles + 1)
        BY <1>0, <3>1, <3>2 DEF BuildsFile, Files
      <4>3. progress' \in BOOLEAN
        BY <3>2 DEF BuildsFile
      <4> QED
        BY <4>1, <4>2, <4>3
    <3>3. CASE StartsPass(c)
      <4>1. 1 \in 1..(MaxFiles + 1) /\ built' = built /\ index' = 1
        BY <1>0, <3>3 DEF StartsPass
      <4>2. progress' \in BOOLEAN
        BY <3>3 DEF StartsPass
      <4> QED
        BY <3>1, <4>1, <4>2
    <3> QED
      BY <3>2, <3>3
  <2> QED
    BY <1>1, <2>1 DEF CacheInv, CacheTypeOK
<1>4. \A b \in Calls : call[b] = "building" => b = c
  BY <1>0 DEF CacheInv, HolderBuilds
<1>5. schema[c] \in Writes /\ Ordered(schema[c], built)
  BY <1>0 DEF CacheInv, BuildOK
<1>6. Ordered(schema[c], built')
  <2>1. CASE built' = built
    BY <1>5, <2>1
  <2>2. CASE /\ index \in Files /\ index \notin built /\ Ready(index, schema[c])
             /\ built' = built \union {index}
    BY <1>5, <2>2, OrderGrows DEF Ready
  <2> QED
    BY <2>1, <2>2 DEF BuildsFile, StartsPass
<1>7. ~progress' => \A f \in 1..(index' - 1) : f \in built' \/ ~(Contents[schema[c]][f] \subseteq built')
  <2>1. CASE BuildsFile(c)
    <3>1. SUFFICES ASSUME ~progress'
                   PROVE  \A f \in 1..(index' - 1) :
                            f \in built' \/ ~(Contents[schema[c]][f] \subseteq built')
      OBVIOUS
    <3>2. /\ ~progress /\ built' = built /\ index' = index + 1
          /\ index \in built \/ ~Ready(index, schema[c])
      BY <2>1, <3>1 DEF BuildsFile, CacheInv, CacheTypeOK
    <3>3. \A f \in 1..(index - 1) : f \in built \/ ~Ready(f, schema[c])
      BY <1>0, <3>2 DEF CacheInv, BuildOK
    <3>4. \A f \in 1..(index' - 1) : f \in 1..(index - 1) \/ f = index
      BY <3>2 DEF CacheInv, CacheTypeOK
    <3> QED
      BY <3>2, <3>3, <3>4 DEF Ready
  <2>2. CASE StartsPass(c)
    BY <2>2 DEF StartsPass
  <2> QED
    BY <2>1, <2>2
<1>8. BuildOK'
  BY <1>1, <1>4, <1>5, <1>6, <1>7 DEF BuildOK, Ready, Ordered, Writes
<1> QED
  BY <1>2, <1>3, <1>8 DEF CacheInv

\* A call ends with the schema, or without one.
LEMMA BuildEndsOK ==
  ASSUME CacheInv, NEW c \in Calls, StoresSchema(c) \/ FailsToBuild(c) \/ Refuses(c)
  PROVE  CacheInv'
<1> USE SchemaCacheAssumption DEF SchemaCacheAssumption, cache, building, Moves
<1>0. Len(Contents) \in Nat /\ MaxFiles \in Nat /\ call[c] = "building" /\ holder = c
  BY DEF StoresSchema, FailsToBuild, Refuses, CacheInv, HolderBuilds
<1>1. CacheTypeOK' /\ TimesOK' /\ HolderBuilds' /\ ContentsCurrent'
  <2>1. CacheTypeOK'
    <3>1. CASE StoresSchema(c)
      BY <3>1 DEF StoresSchema, CacheInv, CacheTypeOK
    <3>2. CASE FailsToBuild(c)
      BY <3>2 DEF FailsToBuild, CacheInv, CacheTypeOK
    <3>3. CASE Refuses(c)
      BY <3>3 DEF Refuses, CacheInv, CacheTypeOK
    <3> QED
      BY <3>1, <3>2, <3>3
  <2>2. TimesOK' /\ ContentsCurrent'
    BY <1>0 DEF StoresSchema, FailsToBuild, Refuses, CacheInv, CacheTypeOK, TimesOK, ContentsCurrent
  <2>3. HolderBuilds'
    BY <1>0 DEF StoresSchema, FailsToBuild, Refuses, CacheInv, CacheTypeOK, HolderBuilds
  <2> QED
    BY <2>1, <2>2, <2>3
<1>2. BuildOK'
  BY <1>0 DEF StoresSchema, FailsToBuild, Refuses, CacheInv, CacheTypeOK, HolderBuilds, BuildOK
<1>3. CASE StoresSchema(c)
  <2>1. Buildable(schema[c])
    BY <1>0, <1>3, OrderedIsBuildable DEF StoresSchema, CacheInv, BuildOK
  <2>2. CachedBuilds' /\ BuildsWhatCanBeBuilt'
    BY <1>3, <2>1 DEF StoresSchema, CacheInv, CacheTypeOK, CachedBuilds, BuildsWhatCanBeBuilt
  <2> QED
    BY <1>1, <1>2, <2>2 DEF CacheInv
<1>4. CASE FailsToBuild(c)
  <2>1. built \in SUBSET Files /\ built # Files /\ ~progress /\ index = MaxFiles + 1
    BY <1>0, <1>4 DEF FailsToBuild, CacheInv, CacheTypeOK, Files
  <2>2. \A f \in Files : f \in built \/ ~(Contents[schema[c]][f] \subseteq built)
    BY <1>0, <2>1 DEF CacheInv, BuildOK, Ready, Files
  <2>3. ~Buildable(schema[c])
    BY <2>1, <2>2, StuckIsCyclic
  <2>4. CachedBuilds' /\ BuildsWhatCanBeBuilt'
    BY <1>4, <2>3 DEF FailsToBuild, CacheInv, CacheTypeOK, CachedBuilds, BuildsWhatCanBeBuilt
  <2> QED
    BY <1>1, <1>2, <2>4 DEF CacheInv
<1>5. CASE Refuses(c)
  <2>1. CachedBuilds' /\ BuildsWhatCanBeBuilt'
    BY <1>5 DEF Refuses, CacheInv, CacheTypeOK, CachedBuilds, BuildsWhatCanBeBuilt
  <2> QED
    BY <1>1, <1>2, <2>1 DEF CacheInv
<1> QED
  BY <1>3, <1>4, <1>5

\* A call that is over may begin again.
LEMMA ReturnsOK ==
  ASSUME CacheInv, NEW c \in Calls, Returns(c)
  PROVE  CacheInv'
<1> USE DEF cache, building
<1>1. CacheTypeOK' /\ TimesOK' /\ ContentsCurrent'
  BY DEF Returns, CacheInv, CacheTypeOK, TimesOK, ContentsCurrent
<1>2. HolderBuilds' /\ CachedBuilds' /\ BuildsWhatCanBeBuilt'
  BY DEF Returns, CacheInv, CacheTypeOK, HolderBuilds, CachedBuilds, BuildsWhatCanBeBuilt
<1>3. BuildOK'
  <2>1. \A b \in Calls : call'[b] = "building" => call[b] = "building"
    BY DEF Returns, CacheInv, CacheTypeOK
  <2> QED
    BY <2>1 DEF Returns, CacheInv, BuildOK, Ready, Ordered
<1> QED
  BY <1>1, <1>2, <1>3 DEF CacheInv

\* A step that leaves the cache alone.
LEMMA CacheStays ==
  ASSUME CacheInv, UNCHANGED cacheVars
  PROVE  CacheInv'
BY DEF cacheVars, cache, building, CacheInv, CacheTypeOK, HolderBuilds, TimesOK,
   ContentsCurrent, BuildOK, CachedBuilds, BuildsWhatCanBeBuilt, Ready, Ordered

\* Every step of the specification keeps the invariant of the cache.
LEMMA CacheKept == CacheInv /\ [Next]_vars => CacheInv'
<1> SUFFICES ASSUME CacheInv, [Next]_vars PROVE CacheInv'
  OBVIOUS
<1>1. CASE CacheNext
  BY <1>1, FileStepOK, LookupOK, PassOK, BuildEndsOK DEF CacheNext, CacheStep
<1>2. CASE \E c \in Calls : Returns(c)
  BY <1>2, ReturnsOK
<1>3. CASE UNCHANGED cacheVars
  BY <1>3, CacheStays
<1>4. ASSUME NEW s \in Statements, CopyStep(s) \/ Arrives(s) \/ LinkDrops(s) \/ LinkSettles(s)
      PROVE  UNCHANGED cacheVars
  BY <1>4 DEF CopyStep, Binds, Connects, ConnectFails, Publishes, PublishFails, Flushes,
     FlushFails, Proceeds, Arrives, LinkDrops, LinkSettles
<1> QED
  BY <1>1, <1>2, <1>3, <1>4 DEF Next, vars

THEOREM CacheInvariant == Spec => []CacheInv
<1>1. Init => CacheInv
  BY CacheInitOK DEF Init
<1> QED
  BY <1>1, CacheKept, PTL DEF Spec

\* No call returns a schema older than the file was when the call began, for any number
\* of calls and writes (nats_proto_schema.cpp:65, 73, 82, 99).
THEOREM NoStaleSchema == Spec => []SchemaIsCurrent
<1>1. CacheInv => SchemaIsCurrent
  BY DEF CacheInv, CacheTypeOK, TimesOK, ContentsCurrent, SchemaIsCurrent
<1> QED
  BY <1>1, CacheInvariant, PTL

\* The passes build a descriptor set exactly if its files can be put in an order, for any
\* number of files and any imports (nats_proto_schema.cpp:119-144).
THEOREM PassesAreComplete == Spec => []BuildsWhatCanBeBuilt
<1>1. CacheInv => BuildsWhatCanBeBuilt
  BY DEF CacheInv
<1> QED
  BY <1>1, CacheInvariant, PTL

-----------------------------------------------------------------------------
\* The statements.

StatementTypeOK ==
  /\ copy \in [Statements -> {"binding", "connecting", "publishing", "done", "failed"}]
  /\ next \in [Statements -> Nat \ {0}]
  /\ inFlight \in [Statements -> Seq(Nat)] /\ stored \in [Statements -> Seq(Nat)]
  /\ link \in [Statements -> {"none", "up", "down", "closed"}]
  /\ drops \in [Statements -> 0..MaxDrops]

Increases(q) == \A i, j \in 1..Len(q) : i < j => q[i] < q[j]

\* What is stored and what is in flight, in their order, lie before the next row, and
\* all rows before it could be encoded.
InOrder(s) ==
  /\ Increases(stored[s]) /\ Increases(inFlight[s])
  /\ \A i \in 1..Len(stored[s]), j \in 1..Len(inFlight[s]) : stored[s][i] < inFlight[s][j]
  /\ \A i \in 1..Len(stored[s]) : stored[s][i] < next[s]
  /\ \A j \in 1..Len(inFlight[s]) : inFlight[s][j] < next[s]
  /\ \A r \in 1..(next[s] - 1) : Rows[s][r]

\* Over a link that never dropped nothing is missing: the rows follow each other, from the
\* first one stored to the one published last, until the statement has ended.
Complete(s) ==
  drops[s] = 0 =>
    /\ \A i \in 1..Len(stored[s]) : stored[s][i] = i
    /\ \A j \in 1..Len(inFlight[s]) : inFlight[s][j] = Len(stored[s]) + j
    /\ copy[s] = "publishing" => Len(stored[s]) + Len(inFlight[s]) = next[s] - 1
    /\ copy[s] = "done" => Len(stored[s]) = Len(Rows[s])

\* Before its connection a statement has nothing, and behind its end nothing new.
Placed(s) ==
  /\ copy[s] \in {"binding", "connecting"} =>
       stored[s] = <<>> /\ inFlight[s] = <<>> /\ next[s] = 1
  /\ copy[s] = "done" => inFlight[s] = <<>>
  /\ link[s] = "down" => drops[s] > 0

StatementInv ==
  StatementTypeOK /\ \A s \in Statements : InOrder(s) /\ Complete(s) /\ Placed(s)

\* What a sequence of numbers is with one more at its end, and without its first.
LEMMA AppendIs ==
  ASSUME NEW q \in Seq(Nat), NEW n \in Nat
  PROVE  /\ Append(q, n) \in Seq(Nat)
         /\ Len(Append(q, n)) = Len(q) + 1
         /\ \A i \in 1..Len(q) : Append(q, n)[i] = q[i]
         /\ Append(q, n)[Len(q) + 1] = n
OBVIOUS

\* The position behind two sequences that are one number longer together.
LEMMA NextIs ==
  \A a, b, n \in Nat : a + b = n - 1 => n = a + (b + 1) /\ a + (b + 1) = (n + 1) - 1
OBVIOUS

LEMMA TailIs ==
  ASSUME NEW q \in Seq(Nat), q # <<>>
  PROVE  /\ Head(q) = q[1] /\ Head(q) \in Nat
         /\ Tail(q) \in Seq(Nat)
         /\ Len(Tail(q)) = Len(q) - 1
         /\ \A i \in 1..Len(Tail(q)) : Tail(q)[i] = q[i + 1]
OBVIOUS

\* A step of one statement says nothing of the others.
OthersStay(s) ==
  \A t \in Statements \ {s} :
    /\ copy'[t] = copy[t] /\ next'[t] = next[t] /\ inFlight'[t] = inFlight[t]
    /\ stored'[t] = stored[t] /\ link'[t] = link[t] /\ drops'[t] = drops[t]

LEMMA OneStatement ==
  ASSUME StatementInv, NEW s \in Statements, OthersStay(s), StatementTypeOK',
         InOrder(s)', Complete(s)', Placed(s)'
  PROVE  StatementInv'
<1> SUFFICES ASSUME NEW t \in Statements \ {s} PROVE InOrder(t)' /\ Complete(t)' /\ Placed(t)'
  BY DEF StatementInv
<1>1. InOrder(t) /\ Complete(t) /\ Placed(t)
  BY DEF StatementInv
<1>2. /\ copy'[t] = copy[t] /\ next'[t] = next[t] /\ inFlight'[t] = inFlight[t]
      /\ stored'[t] = stored[t] /\ link'[t] = link[t] /\ drops'[t] = drops[t]
  BY DEF OthersStay
<1>3. InOrder(t)'
  BY <1>1, <1>2 DEF InOrder, Increases
<1>4. Complete(t)'
  BY <1>1, <1>2 DEF Complete
<1>5. Placed(t)'
  BY <1>1, <1>2 DEF Placed
<1> QED
  BY <1>3, <1>4, <1>5

LEMMA StatementInitOK == Init => StatementInv
<1> SUFFICES ASSUME Init PROVE StatementInv
  OBVIOUS
<1>1. StatementTypeOK
  BY CopyToStreamAssumption DEF CopyToStreamAssumption, Init, StatementTypeOK
<1>2. ASSUME NEW s \in Statements PROVE InOrder(s) /\ Complete(s) /\ Placed(s)
  BY <1>2 DEF Init, InOrder, Complete, Placed, Increases
<1> QED
  BY <1>1, <1>2 DEF StatementInv

\* The statement is bound and connected, or not.
LEMMA OpensOK ==
  ASSUME StatementInv, NEW s \in Statements, Binds(s) \/ Connects(s) \/ ConnectFails(s)
  PROVE  StatementInv'
<1>1. /\ UNCHANGED <<next, inFlight, stored, drops>>
      /\ copy' = [copy EXCEPT ![s] = copy'[s]]
      /\ copy[s] \in {"binding", "connecting"}
      /\ copy'[s] \in {"connecting", "publishing", "failed"}
      /\ link' = link \/ link' = [link EXCEPT ![s] = "up"]
  BY DEF Binds, Connects, ConnectFails, Proceeds, StatementInv, StatementTypeOK
<1>2. StatementTypeOK'
  BY <1>1 DEF StatementInv, StatementTypeOK
<1>3. OthersStay(s)
  BY <1>1 DEF OthersStay, StatementInv, StatementTypeOK
<1>4. InOrder(s) /\ Complete(s) /\ Placed(s)
  BY DEF StatementInv
<1>5. stored[s] = <<>> /\ inFlight[s] = <<>> /\ next[s] = 1
  BY <1>1, <1>4 DEF Placed
<1>6. InOrder(s)' /\ Complete(s)'
  BY <1>1, <1>4, <1>5 DEF InOrder, Complete, Increases
<1>7. Placed(s)'
  BY <1>1, <1>4, <1>5 DEF Placed, StatementInv, StatementTypeOK
<1> QED
  BY <1>2, <1>3, <1>6, <1>7, OneStatement

\* A row is published.
LEMMA PublishesOK ==
  ASSUME StatementInv, NEW s \in Statements, Publishes(s)
  PROVE  StatementInv'
<1> DEFINE q == inFlight[s]
           n == next[s]
<1>1. /\ UNCHANGED <<stored, link, drops>>
      /\ copy[s] = "publishing" /\ copy' = [copy EXCEPT ![s] = "publishing"]
      /\ inFlight' = [inFlight EXCEPT ![s] = Append(q, n)]
      /\ next' = [next EXCEPT ![s] = n + 1]
      /\ Rows[s][n]
  BY DEF Publishes, Proceeds, Encodes
<1>2. q \in Seq(Nat) /\ n \in Nat \ {0} /\ stored[s] \in Seq(Nat)
  BY DEF StatementInv, StatementTypeOK
<1>3. InOrder(s) /\ Complete(s) /\ Placed(s)
  BY DEF StatementInv
<1>4. Append(q, n) \in Seq(Nat)
  BY <1>2, AppendIs
<1>5. StatementTypeOK'
  BY <1>1, <1>2, <1>4 DEF StatementInv, StatementTypeOK
<1>6. OthersStay(s)
  BY <1>1 DEF OthersStay, StatementInv, StatementTypeOK
<1>7. /\ inFlight'[s] = Append(q, n) /\ next'[s] = n + 1 /\ copy'[s] = "publishing"
      /\ stored'[s] = stored[s] /\ link'[s] = link[s] /\ drops'[s] = drops[s]
  BY <1>1 DEF StatementInv, StatementTypeOK
<1>8. /\ Len(inFlight'[s]) = Len(q) + 1 /\ inFlight'[s][Len(q) + 1] = n
      /\ \A i \in 1..Len(q) : inFlight'[s][i] = q[i]
  BY <1>2, <1>7, AppendIs
<1>9. Len(q) \in Nat /\ Len(stored[s]) \in Nat
  BY <1>2
<1>10. InOrder(s)'
  <2>1. \A i \in 1..(Len(q) + 1) : i \in 1..Len(q) \/ i = Len(q) + 1
    BY <1>9
  <2>2. Increases(inFlight[s])'
    <3> SUFFICES ASSUME NEW i \in 1..(Len(q) + 1), NEW j \in 1..(Len(q) + 1), i < j
                 PROVE  inFlight'[s][i] < inFlight'[s][j]
      BY <1>8 DEF Increases
    <3>1. i \in 1..Len(q) /\ inFlight'[s][i] = q[i] /\ q[i] < n
      BY <1>3, <1>8, <1>9 DEF InOrder
    <3>2. CASE j \in 1..Len(q)
      BY <1>3, <1>8, <3>1, <3>2 DEF InOrder, Increases
    <3>3. CASE j = Len(q) + 1
      BY <1>8, <3>1, <3>3
    <3> QED
      BY <2>1, <3>2, <3>3
  <2>3. \A r \in 1..(next'[s] - 1) : Rows[s][r]
    <3>1. \A r \in 1..(next'[s] - 1) : r \in 1..(n - 1) \/ r = n
      BY <1>2, <1>7
    <3> QED
      BY <1>1, <1>3, <3>1 DEF InOrder
  <2>4. /\ \A i \in 1..Len(stored'[s]), j \in 1..Len(inFlight'[s]) : stored'[s][i] < inFlight'[s][j]
        /\ \A j \in 1..Len(inFlight'[s]) : inFlight'[s][j] < next'[s]
    BY <1>2, <1>3, <1>7, <1>8, <1>9, <2>1, SMTT(30) DEF InOrder
  <2>5. \A i \in 1..Len(stored'[s]) : stored'[s][i] < next'[s]
    BY <1>2, <1>3, <1>7 DEF InOrder
  <2> QED
    BY <1>3, <1>7, <2>2, <2>3, <2>4, <2>5 DEF InOrder, Increases
<1>11. Complete(s)'
  <2> SUFFICES ASSUME drops[s] = 0 PROVE Complete(s)'
    BY <1>1 DEF Complete
  <2>1. /\ \A i \in 1..Len(stored[s]) : stored[s][i] = i
        /\ \A j \in 1..Len(q) : q[j] = Len(stored[s]) + j
    BY <1>1, <1>3 DEF Complete
  <2>4. Len(stored[s]) + Len(q) = n - 1 /\ n \in Nat
    BY <1>1, <1>2, <1>3 DEF Complete
  <2>2. \A j \in 1..Len(inFlight'[s]) : inFlight'[s][j] = Len(stored'[s]) + j
    <3>1. \A j \in 1..Len(inFlight'[s]) : j \in 1..Len(q) \/ j = Len(q) + 1
      BY <1>8, <1>9
    <3>2. n = Len(stored[s]) + (Len(q) + 1)
      BY <1>9, <2>4, NextIs, Zenon
    <3> QED
      BY <1>7, <1>8, <2>1, <3>1, <3>2
  <2>3. Len(stored'[s]) + Len(inFlight'[s]) = next'[s] - 1
    <3>1. Len(inFlight'[s]) = Len(q) + 1 /\ next'[s] = n + 1 /\ stored'[s] = stored[s]
      BY <1>7, <1>8
    <3>2. Len(stored[s]) + (Len(q) + 1) = (n + 1) - 1
      BY <1>9, <2>4, NextIs, Zenon
    <3> QED
      BY <3>1, <3>2, Zenon
  <2> QED
    BY <1>7, <2>1, <2>2, <2>3 DEF Complete
<1>12. Placed(s)'
  BY <1>3, <1>7 DEF Placed
<1> QED
  BY <1>5, <1>6, <1>10, <1>11, <1>12, OneStatement

\* The statement ends: what is in flight is there, or lost, or left behind.
LEMMA EndsOK ==
  ASSUME StatementInv, NEW s \in Statements, PublishFails(s) \/ Flushes(s) \/ FlushFails(s)
  PROVE  StatementInv'
<1>1. /\ UNCHANGED <<next, stored, drops>>
      /\ copy[s] = "publishing"
      /\ copy' = [copy EXCEPT ![s] = copy'[s]]
      /\ \/ copy'[s] = "failed" /\ link' = link /\ inFlight' = inFlight
         \/ copy'[s] = "failed" /\ link' = [link EXCEPT ![s] = "closed"]
              /\ inFlight' = [inFlight EXCEPT ![s] = <<>>]
         \/ copy'[s] = "done" /\ link' = [link EXCEPT ![s] = "closed"] /\ inFlight' = inFlight
              /\ inFlight[s] = <<>> /\ next[s] = Len(Rows[s]) + 1
  BY DEF PublishFails, Flushes, FlushFails, Proceeds, StatementInv, StatementTypeOK
<1>2. StatementTypeOK'
  <2>1. inFlight' \in [Statements -> Seq(Nat)]
    <3>1. inFlight \in [Statements -> Seq(Nat)] /\ <<>> \in Seq(Nat)
      BY DEF StatementInv, StatementTypeOK
    <3> QED
      BY <1>1, <3>1
  <2> QED
    BY <1>1, <2>1 DEF StatementInv, StatementTypeOK
<1>3. OthersStay(s)
  BY <1>1 DEF OthersStay, StatementInv, StatementTypeOK
<1>4. InOrder(s) /\ Complete(s) /\ Placed(s)
  BY DEF StatementInv
<1>5. inFlight'[s] = inFlight[s] \/ inFlight'[s] = <<>>
  <2>1. inFlight \in [Statements -> Seq(Nat)]
    BY DEF StatementInv, StatementTypeOK
  <2>2. inFlight' = inFlight \/ inFlight' = [inFlight EXCEPT ![s] = <<>>]
    BY <1>1
  <2> QED
    BY <2>1, <2>2
<1>6. InOrder(s)'
  BY <1>1, <1>4, <1>5 DEF InOrder, Increases
<1>7. Complete(s)'
  <2>1. stored[s] \in Seq(Nat) /\ Rows[s] \in Seq(BOOLEAN) /\ next[s] \in Nat
    BY CopyToStreamAssumption DEF CopyToStreamAssumption, StatementInv, StatementTypeOK
  <2>2. copy'[s] = "done" => inFlight[s] = <<>> /\ next[s] = Len(Rows[s]) + 1
    BY <1>1
  <2>3. Len(stored[s]) \in Nat /\ Len(Rows[s]) \in Nat
    BY <2>1
  <2>4. copy'[s] = "done" /\ drops[s] = 0 => Len(stored[s]) = Len(Rows[s])
    <3> SUFFICES ASSUME copy'[s] = "done", drops[s] = 0 PROVE Len(stored[s]) = Len(Rows[s])
      OBVIOUS
    <3>1. Len(stored[s]) + Len(inFlight[s]) = next[s] - 1
      BY <1>1, <1>4 DEF Complete
    <3>2. Len(inFlight[s]) = 0
      BY <2>2
    <3> QED
      BY <2>1, <2>2, <2>3, <3>1, <3>2
  <2> SUFFICES ASSUME drops[s] = 0 PROVE Complete(s)'
    BY <1>1 DEF Complete
  <2>5. /\ \A i \in 1..Len(stored[s]) : stored[s][i] = i
        /\ \A j \in 1..Len(inFlight[s]) : inFlight[s][j] = Len(stored[s]) + j
    BY <1>4 DEF Complete
  <2>6. \A j \in 1..Len(inFlight'[s]) : inFlight'[s][j] = Len(stored[s]) + j
    <3>1. CASE inFlight'[s] = inFlight[s]
      BY <2>5, <3>1
    <3>2. CASE inFlight'[s] = <<>>
      BY <3>2
    <3> QED
      BY <1>5, <3>1, <3>2
  <2>7. copy'[s] # "publishing"
    BY <1>1
  <2> QED
    BY <1>1, <2>4, <2>5, <2>6, <2>7 DEF Complete
<1>8. Placed(s)'
  BY <1>1, <1>4 DEF Placed, StatementInv, StatementTypeOK
<1> QED
  BY <1>2, <1>3, <1>6, <1>7, <1>8, OneStatement

\* A message arrives.
LEMMA ArrivesOK ==
  ASSUME StatementInv, NEW s \in Statements, Arrives(s)
  PROVE  StatementInv'
<1> DEFINE q == inFlight[s]
           t == stored[s]
<1>1. /\ UNCHANGED <<copy, next, link, drops>> /\ q # <<>>
      /\ inFlight' = [inFlight EXCEPT ![s] = Tail(q)]
      /\ stored' = [stored EXCEPT ![s] = Append(t, Head(q))]
  BY DEF Arrives
<1>2. q \in Seq(Nat) /\ t \in Seq(Nat) /\ next[s] \in Nat
  BY DEF StatementInv, StatementTypeOK
<1>3. InOrder(s) /\ Complete(s) /\ Placed(s)
  BY DEF StatementInv
<1>4. Tail(q) \in Seq(Nat) /\ Head(q) \in Nat /\ Append(t, Head(q)) \in Seq(Nat)
  BY <1>1, <1>2, AppendIs, TailIs
<1>5. StatementTypeOK'
  BY <1>1, <1>4 DEF StatementInv, StatementTypeOK
<1>6. OthersStay(s)
  BY <1>1 DEF OthersStay, StatementInv, StatementTypeOK
<1>7. inFlight'[s] = Tail(q) /\ stored'[s] = Append(t, Head(q))
  BY <1>1 DEF StatementInv, StatementTypeOK
<1>8. /\ Len(inFlight'[s]) = Len(q) - 1 /\ \A i \in 1..Len(inFlight'[s]) : inFlight'[s][i] = q[i + 1]
      /\ Len(stored'[s]) = Len(t) + 1 /\ stored'[s][Len(t) + 1] = q[1]
      /\ \A i \in 1..Len(t) : stored'[s][i] = t[i]
  <2>1. /\ Head(q) = q[1] /\ Len(Tail(q)) = Len(q) - 1
        /\ \A i \in 1..Len(Tail(q)) : Tail(q)[i] = q[i + 1]
    BY <1>1, <1>2, TailIs
  <2>2. /\ Len(Append(t, Head(q))) = Len(t) + 1
        /\ \A i \in 1..Len(t) : Append(t, Head(q))[i] = t[i]
        /\ Append(t, Head(q))[Len(t) + 1] = Head(q)
    BY <1>2, <1>4, AppendIs
  <2> QED
    BY <1>7, <2>1, <2>2
<1>9. Len(q) \in Nat \ {0} /\ Len(t) \in Nat
  BY <1>1, <1>2
<1>10. /\ \A i \in 1..Len(stored'[s]) : i \in 1..Len(t) \/ i = Len(t) + 1
       /\ \A i \in 1..Len(inFlight'[s]) : i + 1 \in 1..Len(q) /\ 1 < i + 1
  BY <1>8, <1>9
<1>11. 1 \in 1..Len(q)
  BY <1>9
<1>12. \A i \in 1..Len(q) : q[i] \in Nat
  BY <1>2
<1>13. InOrder(s)'
  <2>1. Increases(stored[s])'
    <3> SUFFICES ASSUME NEW i \in 1..Len(stored'[s]), NEW j \in 1..Len(stored'[s]), i < j
                 PROVE  stored'[s][i] < stored'[s][j]
      BY DEF Increases
    <3>1. i \in 1..Len(t) /\ stored'[s][i] = t[i]
      BY <1>8, <1>9
    <3>2. CASE j \in 1..Len(t)
      BY <1>3, <1>8, <3>1, <3>2 DEF InOrder, Increases
    <3>3. CASE j = Len(t) + 1
      BY <1>3, <1>8, <1>11, <3>1, <3>3 DEF InOrder
    <3> QED
      BY <1>10, <3>2, <3>3
  <2>2. Increases(inFlight[s])'
    BY <1>3, <1>8, <1>9, <1>10 DEF InOrder, Increases
  <2>3. \A i \in 1..Len(stored'[s]), j \in 1..Len(inFlight'[s]) : stored'[s][i] < inFlight'[s][j]
    <3> SUFFICES ASSUME NEW i \in 1..Len(stored'[s]), NEW j \in 1..Len(inFlight'[s])
                 PROVE  stored'[s][i] < inFlight'[s][j]
      OBVIOUS
    <3>1. j + 1 \in 1..Len(q) /\ 1 < j + 1 /\ inFlight'[s][j] = q[j + 1]
      BY <1>8, <1>9, <1>10
    <3>2. CASE i \in 1..Len(t)
      BY <1>3, <1>8, <3>1, <3>2 DEF InOrder
    <3>3. CASE i = Len(t) + 1
      <4>1. stored'[s][i] = q[1]
        BY <1>8, <3>3
      <4> QED
        BY <1>3, <1>11, <3>1, <4>1 DEF InOrder, Increases
    <3> QED
      BY <1>10, <3>2, <3>3
  <2>4. /\ \A i \in 1..Len(stored'[s]) : stored'[s][i] < next'[s]
        /\ \A j \in 1..Len(inFlight'[s]) : inFlight'[s][j] < next'[s]
    BY <1>1, <1>3, <1>8, <1>10, <1>11 DEF InOrder
  <2>5. \A r \in 1..(next'[s] - 1) : Rows[s][r]
    BY <1>1, <1>3 DEF InOrder
  <2> QED
    BY <2>1, <2>2, <2>3, <2>4, <2>5 DEF InOrder
<1>14. Complete(s)'
  <2> SUFFICES ASSUME drops[s] = 0 PROVE Complete(s)'
    BY <1>1 DEF Complete
  <2>1. /\ \A i \in 1..Len(t) : t[i] = i
        /\ \A j \in 1..Len(q) : q[j] = Len(t) + j
    BY <1>3 DEF Complete
  <2>2. \A i \in 1..Len(stored'[s]) : stored'[s][i] = i
    BY <1>8, <1>9, <1>10, <1>11, <2>1, SMTT(30)
  <2>3. \A j \in 1..Len(inFlight'[s]) : inFlight'[s][j] = Len(stored'[s]) + j
    BY <1>8, <1>9, <1>10, <2>1
  <2>4. copy'[s] # "done"
    BY <1>1, <1>3 DEF Placed
  <2>5. copy'[s] = "publishing" => Len(stored'[s]) + Len(inFlight'[s]) = next'[s] - 1
    <3> SUFFICES ASSUME copy'[s] = "publishing"
                 PROVE  Len(stored'[s]) + Len(inFlight'[s]) = next'[s] - 1
      OBVIOUS
    <3>1. Len(t) + Len(q) = next[s] - 1
      BY <1>1, <1>3 DEF Complete
    <3> QED
      <4> HIDE DEF q, t
      <4>1. /\ Len(stored'[s]) = Len(t) + 1 /\ Len(inFlight'[s]) = Len(q) - 1
            /\ next'[s] = next[s] /\ next[s] \in Nat
        BY <1>1, <1>2, <1>8
      <4> QED
        BY <1>9, <3>1, <4>1
  <2> QED
    BY <2>2, <2>3, <2>4, <2>5 DEF Complete
<1>15. Placed(s)'
  BY <1>1, <1>3 DEF Placed
<1> QED
  BY <1>5, <1>6, <1>13, <1>14, <1>15, OneStatement

\* The link drops, and settles.
LEMMA LinkStepOK ==
  ASSUME StatementInv, NEW s \in Statements, LinkDrops(s) \/ LinkSettles(s)
  PROVE  StatementInv'
<1>1. /\ UNCHANGED <<copy, next, stored>>
      /\ inFlight' = inFlight \/ inFlight' = [inFlight EXCEPT ![s] = <<>>]
      /\ link' = [link EXCEPT ![s] = link'[s]] /\ link'[s] \in {"up", "down", "closed"}
      /\ drops' = [drops EXCEPT ![s] = drops'[s]]
      /\ drops'[s] \in 0..MaxDrops /\ drops'[s] > 0
  BY CopyToStreamAssumption
  DEF CopyToStreamAssumption, LinkDrops, LinkSettles, StatementInv, StatementTypeOK, Placed
<1>2. StatementTypeOK'
  <2>1. inFlight' \in [Statements -> Seq(Nat)]
    <3>1. inFlight \in [Statements -> Seq(Nat)] /\ <<>> \in Seq(Nat)
      BY DEF StatementInv, StatementTypeOK
    <3> QED
      BY <1>1, <3>1
  <2> QED
    <3>1. /\ link' \in [Statements -> {"none", "up", "down", "closed"}]
          /\ drops' \in [Statements -> 0..MaxDrops]
      <4>1. /\ link \in [Statements -> {"none", "up", "down", "closed"}]
            /\ drops \in [Statements -> 0..MaxDrops]
        BY DEF StatementInv, StatementTypeOK
      <4>2. link'[s] \in {"none", "up", "down", "closed"} /\ drops'[s] \in 0..MaxDrops
        BY <1>1
      <4> QED
        BY <1>1, <4>1, <4>2
    <3> QED
      BY <1>1, <2>1, <3>1 DEF StatementInv, StatementTypeOK
<1>3. OthersStay(s)
  BY <1>1 DEF OthersStay, StatementInv, StatementTypeOK
<1>4. InOrder(s) /\ Complete(s) /\ Placed(s)
  BY DEF StatementInv
<1>5. inFlight'[s] = inFlight[s] \/ inFlight'[s] = <<>>
  <2>1. inFlight \in [Statements -> Seq(Nat)]
    BY DEF StatementInv, StatementTypeOK
  <2>2. inFlight' = inFlight \/ inFlight' = [inFlight EXCEPT ![s] = <<>>]
    BY <1>1
  <2> QED
    BY <2>1, <2>2
<1>6. InOrder(s)'
  BY <1>1, <1>4, <1>5 DEF InOrder, Increases
<1>7. Complete(s)' /\ Placed(s)'
  <2>1. drops'[s] # 0
    BY <1>1
  <2>2. inFlight[s] = <<>> => inFlight'[s] = <<>>
    BY <1>5
  <2> QED
    BY <1>1, <1>4, <2>1, <2>2 DEF Complete, Placed
<1> QED
  BY <1>2, <1>3, <1>6, <1>7, OneStatement

\* A step of the cache, or one that changes nothing.
LEMMA StatementsStay ==
  ASSUME StatementInv, UNCHANGED statement
  PROVE  StatementInv'
BY DEF statement, StatementInv, StatementTypeOK, InOrder, Complete, Placed, Increases

THEOREM StatementInvariant == Spec => []StatementInv
<1>1. StatementInv /\ [Next]_vars => StatementInv'
  <2> SUFFICES ASSUME StatementInv, [Next]_vars PROVE StatementInv'
    OBVIOUS
  <2>1. CASE \E s \in Statements : CopyStep(s) \/ Arrives(s) \/ LinkDrops(s) \/ LinkSettles(s)
    BY <2>1, OpensOK, PublishesOK, EndsOK, ArrivesOK, LinkStepOK DEF CopyStep
  <2>2. CASE UNCHANGED statement
    BY <2>2, StatementsStay
  <2> QED
    BY <2>1, <2>2 DEF Next, Returns, vars
<1> QED
  BY <1>1, StatementInitOK, PTL DEF Spec

\* What is stored and what is in flight form one sequence.
LEMMA SentIs ==
  ASSUME NEW p \in Seq(Nat), NEW q \in Seq(Nat)
  PROVE  /\ Len(p \o q) = Len(p) + Len(q)
         /\ \A i \in 1..Len(p \o q) :
              \/ i \in 1..Len(p) /\ (p \o q)[i] = p[i]
              \/ i - Len(p) \in 1..Len(q) /\ i > Len(p) /\ (p \o q)[i] = q[i - Len(p)]
OBVIOUS

\* The variables of the cache and of the statements keep their types.
THEOREM CopyTypeCorrect == Spec => []TypeOK
<1>1. CacheInv /\ StatementInv => TypeOK
  BY DEF CacheInv, StatementInv, StatementTypeOK, TypeOK
<1> QED
  BY <1>1, CacheInvariant, StatementInvariant, PTL

\* For any rows and any number of connection losses the server gets the rows in their
\* order, none twice and none behind one that cannot be encoded, and over a link that never
\* dropped all of them when the statement succeeds (nats_scan.cpp:1467-1496, 1505-1511).
THEOREM RowsInOrder == Spec => []CopyStoresRows
<1>1. StatementInv => CopyStoresRows
  <2> SUFFICES ASSUME StatementInv, NEW s \in Statements
               PROVE  LET sent == stored[s] \o inFlight[s] IN
                      /\ \A i, j \in 1..Len(sent) : i < j => sent[i] < sent[j]
                      /\ \A i \in 1..Len(sent) : \A r \in 1..sent[i] : Rows[s][r]
                      /\ drops[s] = 0 => \A i \in 1..Len(stored[s]) : stored[s][i] = i
                      /\ drops[s] = 0 /\ copy[s] = "done" => Len(stored[s]) = Len(Rows[s])
    BY DEF CopyStoresRows
  <2> DEFINE p == stored[s]
             q == inFlight[s]
             sent == p \o q
  <2>1. p \in Seq(Nat) /\ q \in Seq(Nat) /\ next[s] \in Nat
    BY DEF StatementInv, StatementTypeOK
  <2>2. InOrder(s) /\ Complete(s)
    BY DEF StatementInv
  <2>3. \A i \in 1..Len(sent) :
          \/ i \in 1..Len(p) /\ sent[i] = p[i]
          \/ i - Len(p) \in 1..Len(q) /\ i > Len(p) /\ sent[i] = q[i - Len(p)]
    <3>1. ASSUME NEW x \in Seq(Nat), NEW y \in Seq(Nat)
          PROVE  \A i \in 1..Len(x \o y) :
                   \/ i \in 1..Len(x) /\ (x \o y)[i] = x[i]
                   \/ i - Len(x) \in 1..Len(y) /\ i > Len(x) /\ (x \o y)[i] = y[i - Len(x)]
      BY SentIs
    <3> QED
      BY <2>1, <3>1, Zenon
  <2>4. Len(p) \in Nat /\ Len(q) \in Nat /\ Len(sent) \in Nat
    <3>1. sent \in Seq(Nat)
      BY <2>1
    <3> HIDE DEF sent
    <3> QED
      BY <2>1, <3>1
  <2>5. \A i, j \in 1..Len(sent) : i < j => sent[i] < sent[j]
    <3> SUFFICES ASSUME NEW i \in 1..Len(sent), NEW j \in 1..Len(sent), i < j
                 PROVE  sent[i] < sent[j]
      OBVIOUS
    <3>1. CASE i \in 1..Len(p) /\ j \in 1..Len(p) /\ sent[i] = p[i] /\ sent[j] = p[j]
      BY <2>2, <3>1 DEF InOrder, Increases
    <3>2. CASE /\ i \in 1..Len(p) /\ sent[i] = p[i]
               /\ j - Len(p) \in 1..Len(q) /\ sent[j] = q[j - Len(p)]
      BY <2>2, <3>2 DEF InOrder
    <3>3. CASE /\ i - Len(p) \in 1..Len(q) /\ sent[i] = q[i - Len(p)]
               /\ j - Len(p) \in 1..Len(q) /\ sent[j] = q[j - Len(p)]
      BY <2>2, <2>4, <3>3 DEF InOrder, Increases
    <3> HIDE DEF sent
    <3> QED
      BY <2>3, <2>4, <3>1, <3>2, <3>3
  <2>6. \A i \in 1..Len(sent) : sent[i] \in Nat /\ sent[i] < next[s]
    <3> HIDE DEF sent
    <3>1. \A i \in 1..Len(p) : p[i] \in Nat
      BY <2>1
    <3>2. \A i \in 1..Len(q) : q[i] \in Nat
      BY <2>1
    <3> QED
      BY <2>2, <2>3, <3>1, <3>2 DEF InOrder
  <2>7. \A i \in 1..Len(sent) : \A r \in 1..sent[i] : Rows[s][r]
    <3> HIDE DEF sent
    <3> QED
      BY <2>1, <2>2, <2>6 DEF InOrder
  <2> QED
    BY <2>2, <2>5, <2>7 DEF Complete
<1> QED
  BY <1>1, StatementInvariant, PTL
==============================================================================
