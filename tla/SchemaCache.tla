----------------------------- MODULE SchemaCache -----------------------------
(***************************************************************************)
(* The process-wide cache of protobuf schemas                              *)
(* (src/src/nats_proto_schema.cpp): calls of the two functions that return *)
(* a schema, for one schema file and one message type, while the file is   *)
(* rewritten.  Each write of the file changes its modification time: the   *)
(* n-th write is the time n and the content Contents[n].                   *)
(*                                                                         *)
(* A content is a set of .proto files and what each one imports.  A        *)
(* descriptor set is built one file at a time, in the order in which the   *)
(* files are listed, pass after pass; the importer of a .proto file        *)
(* follows the same imports.                                               *)
(***************************************************************************)
EXTENDS Naturals, Sequences

CONSTANTS
  Calls,      \* calls that may be active at a time
  NoCall,
  MaxFiles,   \* the files of a content are 1..MaxFiles
  Contents    \* what the file holds after each write: the imports of its files

Files == 1..MaxFiles

ASSUME SchemaCacheAssumption ==
  /\ NoCall \notin Calls
  /\ MaxFiles \in Nat
  /\ Contents \in Seq([Files -> SUBSET Nat])
  /\ Contents # <<>>

VARIABLES
  written,   \* how often the file was written: its modification time
  modified,  \* the modification time in the cache entry, 0 when there is none
  cached,    \* the content the schema in the cache entry was built from
  holder,    \* the call that holds schema_cache_mutex
  call,      \* where each call is
  stamp,     \* the modification time each call has read
  schema,    \* the content each call has read
  built,     \* the files of it that are in the descriptor pool
  index,     \* the file BuildsFile looks at next
  progress   \* a file was built in this pass

cache    == <<modified, cached>>
building == <<built, index, progress>>
cacheVars == <<written, cache, holder, call, stamp, schema, building>>

Writes == 1..Len(Contents)

CacheInit ==
  /\ written = 1
  /\ modified = 0 /\ cached = 0
  /\ holder = NoCall
  /\ call = [c \in Calls |-> "idle"]
  /\ stamp = [c \in Calls |-> 0]
  /\ schema = [c \in Calls |-> 0]
  /\ built = {} /\ index = 1 /\ progress = FALSE

\* Every import of a file is in the descriptor pool.
Ready(f, content) == Contents[content][f] \subseteq built

Moves(c, from, to) ==
  /\ call[c] = from
  /\ call' = [call EXCEPT ![c] = to]

\* Someone rewrites the schema file.
WritesFile ==
  /\ written < Len(Contents)
  /\ written' = written + 1
  /\ UNCHANGED <<cache, holder, call, stamp, schema, building>>

\* last_write_time, before the mutex is taken.
StatsFile(c) ==
  /\ Moves(c, "idle", "asked")
  /\ stamp' = [stamp EXCEPT ![c] = written]
  /\ UNCHANGED <<written, cache, holder, schema, building>>

\* The file cannot be stat'ed, before the mutex is taken.
StatFails(c) ==
  /\ Moves(c, "idle", "refused")
  /\ UNCHANGED <<written, cache, holder, stamp, schema, building>>

\* The entry is of the modification time that was read.
CacheHit(c) ==
  /\ holder = NoCall
  /\ modified = stamp[c]
  /\ Moves(c, "asked", "returned")
  /\ schema' = [schema EXCEPT ![c] = cached]
  /\ UNCHANGED <<written, cache, holder, stamp, building>>

\* The file is read while the mutex is held.
ReadsFile(c) ==
  /\ holder = NoCall
  /\ modified # stamp[c]
  /\ Moves(c, "asked", "building")
  /\ holder' = c
  /\ schema' = [schema EXCEPT ![c] = written]
  /\ built' = {} /\ index' = 1 /\ progress' = FALSE
  /\ UNCHANGED <<written, cache, stamp>>

\* One step of the pass: the file is built when its imports are.
BuildsFile(c) ==
  /\ call[c] = "building" /\ index \in Files
  /\ LET builds == index \notin built /\ Ready(index, schema[c]) IN
       /\ built' = IF builds THEN built \union {index} ELSE built
       /\ progress' = (progress \/ builds)
  /\ index' = index + 1
  /\ UNCHANGED <<written, cache, holder, call, stamp, schema>>

\* A pass that is followed by another one whether or not it built a file.
StartsPassAlways(c) ==
  /\ call[c] = "building" /\ index \notin Files
  /\ built # Files
  /\ index' = 1 /\ progress' = FALSE
  /\ UNCHANGED <<written, cache, holder, call, stamp, schema, built>>

\* The pass built a file, and some remain.
StartsPass(c) ==
  /\ call[c] = "building" /\ index \notin Files
  /\ built # Files /\ progress
  /\ index' = 1 /\ progress' = FALSE
  /\ UNCHANGED <<written, cache, holder, call, stamp, schema, built>>

\* A cache that fails after one pass.
FailsAfterOnePass(c) ==
  /\ index \notin Files
  /\ built # Files
  /\ Moves(c, "building", "failed")
  /\ holder' = NoCall
  /\ UNCHANGED <<written, cache, stamp, schema, building>>

\* "unresolved or cyclic file dependencies": the exception releases the mutex.
FailsToBuild(c) ==
  /\ index \notin Files
  /\ built # Files /\ ~progress
  /\ Moves(c, "building", "failed")
  /\ holder' = NoCall
  /\ UNCHANGED <<written, cache, stamp, schema, building>>

\* The file cannot be parsed, a file of the set is rejected though its imports are
\* built, or the message type is unknown: the exception releases the mutex.
Refuses(c) ==
  /\ Moves(c, "building", "refused")
  /\ \/ built = {} /\ index = 1
     \/ index \in Files \ built /\ Ready(index, schema[c])
     \/ index \notin Files /\ built = Files
  /\ holder' = NoCall
  /\ UNCHANGED <<written, cache, stamp, schema, building>>

\* The entry gets the modification time of the moment it is stored.
StoresLateStamp(c) ==
  /\ index \notin Files /\ built = Files
  /\ Moves(c, "building", "returned")
  /\ modified' = written
  /\ cached' = schema[c]
  /\ holder' = NoCall
  /\ UNCHANGED <<written, stamp, schema, building>>

\* The entry gets the modification time that was read before the content.
StoresSchema(c) ==
  /\ index \notin Files /\ built = Files
  /\ Moves(c, "building", "returned")
  /\ modified' = stamp[c]
  /\ cached' = schema[c]
  /\ holder' = NoCall
  /\ UNCHANGED <<written, stamp, schema, building>>

CacheStep(c) ==
  \/ CacheHit(c) \/ ReadsFile(c)
  \/ BuildsFile(c) \/ StartsPass(c) \/ FailsToBuild(c) \/ Refuses(c) \/ StoresSchema(c)

CacheNext ==
  \/ WritesFile
  \/ \E c \in Calls : StatsFile(c) \/ StatFails(c) \/ CacheStep(c)

-----------------------------------------------------------------------------
\* Each variable has its type.
CacheTypeOK ==
  /\ written \in Writes
  /\ modified \in 0..Len(Contents) /\ cached \in 0..Len(Contents)
  /\ holder \in Calls \union {NoCall}
  /\ call \in [Calls -> {"idle", "asked", "building", "returned", "failed", "refused"}]
  /\ stamp \in [Calls -> 0..Len(Contents)]
  /\ schema \in [Calls -> 0..Len(Contents)]
  /\ built \subseteq Files /\ index \in 1..(MaxFiles + 1) /\ progress \in BOOLEAN

\* A call returns what the file held when the call began, or something newer:
\* the cache entry is never older than the modification time it carries, though
\* that time is read before the mutex is taken and before the file
\* (nats_proto_schema.cpp:65, 73, 82, 99).
SchemaIsCurrent ==
  /\ \A c \in Calls : call[c] = "returned" => schema[c] >= stamp[c]
  /\ cached >= modified

\* Some order of the files puts each one after its imports: every set of files
\* has one that imports none of the others, and nothing that is not there.
Buildable(content) ==
  /\ \A f \in Files : Contents[content][f] \subseteq Files
  /\ \A F \in (SUBSET Files) \ {{}} : \E f \in F : Contents[content][f] \intersect F = {}

\* The passes find an order of the files whenever there is one, in whatever
\* order they are listed, and report unresolved or cyclic dependencies only when
\* there is none; a file that is refused for another reason says nothing of the
\* order (nats_proto_schema.cpp:119-144).
BuildsWhatCanBeBuilt ==
  \A c \in Calls :
    /\ call[c] = "returned" => Buildable(schema[c])
    /\ call[c] = "failed" => ~Buildable(schema[c])

\* A call that holds the mutex of the process-wide cache releases it: the passes
\* end, for a content with cyclic or missing imports too, or one that is refused.
CacheIsReleased == \A c \in Calls : (call[c] = "building") ~> (call[c] # "building")
==============================================================================
