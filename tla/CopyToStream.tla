---------------------------- MODULE CopyToStream ----------------------------
(***************************************************************************)
(* COPY TO ... (FORMAT nats_js) with a protobuf payload                    *)
(* (src/src/nats_scan.cpp): a statement gets its schema from the cache     *)
(* when it is bound, opens a connection, publishes its rows one by one     *)
(* with core NATS publishes and flushes the connection.  Other users of    *)
(* the cache only ask for the schema.                                      *)
(*                                                                         *)
(* What the client has accepted is in flight until the server has it.      *)
(* When the link drops, what is in flight may be lost; what is published   *)
(* while the client reconnects is kept for the next link.  What the stream *)
(* does with a message that it has is left out.                            *)
(***************************************************************************)
EXTENDS SchemaCache

CONSTANTS
  Statements,   \* the calls that are COPY statements
  Rows,         \* the rows of each: TRUE for one that can be encoded
  MaxDrops      \* bound on how often a connection drops

ASSUME CopyToStreamAssumption ==
  /\ Statements \subseteq Calls
  /\ Rows \in [Statements -> Seq(BOOLEAN)]
  /\ MaxDrops \in Nat

VARIABLES
  copy,      \* where each statement is
  next,      \* the row it comes to next
  inFlight,  \* rows the client has accepted and the server does not have
  stored,    \* history: the rows the server has, in the order they came
  link,      \* the connection of the statement: none, up, down or closed
  drops      \* how often it dropped

statement == <<copy, next, inFlight, stored, link, drops>>
vars == <<cacheVars, statement>>

Init ==
  /\ CacheInit
  /\ copy = [s \in Statements |-> "binding"]
  /\ next = [s \in Statements |-> 1]
  /\ inFlight = [s \in Statements |-> <<>>]
  /\ stored = [s \in Statements |-> <<>>]
  /\ link = [s \in Statements |-> "none"]
  /\ drops = [s \in Statements |-> 0]

Proceeds(s, from, to) ==
  /\ copy[s] = from
  /\ copy' = [copy EXCEPT ![s] = to]
  /\ UNCHANGED cacheVars

\* A call that is no COPY statement is over, and another one may begin.
Returns(c) ==
  /\ c \notin Statements
  /\ call[c] \in {"returned", "failed", "refused"}
  /\ call' = [call EXCEPT ![c] = "idle"]
  /\ UNCHANGED <<written, cache, holder, stamp, schema, building, statement>>

\* NatsCopyToBind ends: without a schema the statement fails.
Binds(s) ==
  /\ \/ call[s] = "returned" /\ Proceeds(s, "binding", "connecting")
     \/ call[s] \in {"failed", "refused"} /\ Proceeds(s, "binding", "failed")
  /\ UNCHANGED <<next, inFlight, stored, link, drops>>

\* NatsCopyToInitializeGlobal: one of the attempts of ConnectNats succeeds.
Connects(s) ==
  /\ Proceeds(s, "connecting", "publishing")
  /\ link' = [link EXCEPT ![s] = "up"]
  /\ UNCHANGED <<next, inFlight, stored, drops>>

\* Every attempt fails.
ConnectFails(s) ==
  /\ Proceeds(s, "connecting", "failed")
  /\ UNCHANGED <<next, inFlight, stored, link, drops>>

\* EncodeStructuredPayload, of a row whose columns can be encoded.
Encodes(s) == Rows[s][next[s]]

\* NatsCopyToSink: a row is encoded and published.
Publishes(s) ==
  /\ next[s] \in 1..Len(Rows[s]) /\ Encodes(s)
  /\ link[s] # "closed"
  /\ Proceeds(s, "publishing", "publishing")
  /\ inFlight' = [inFlight EXCEPT ![s] = Append(@, next[s])]
  /\ next' = [next EXCEPT ![s] = @ + 1]
  /\ UNCHANGED <<stored, link, drops>>

\* A sink that passes over a row it cannot encode.
SkipsRow(s) ==
  /\ next[s] \in 1..Len(Rows[s]) /\ ~Encodes(s)
  /\ Proceeds(s, "publishing", "publishing")
  /\ next' = [next EXCEPT ![s] = @ + 1]
  /\ UNCHANGED <<inFlight, stored, link, drops>>

\* A NULL subject or payload, a value that cannot be encoded, or a publish that
\* is refused.  The connection stays open, with what is in flight.
PublishFails(s) ==
  /\ next[s] \in 1..Len(Rows[s])
  /\ ~Encodes(s) \/ link[s] # "up"
  /\ Proceeds(s, "publishing", "failed")
  /\ UNCHANGED <<next, inFlight, stored, link, drops>>

\* NatsCopyToFinalize: the flush is answered, and the connection is closed.
Flushes(s) ==
  /\ next[s] = Len(Rows[s]) + 1
  /\ link[s] = "up" /\ inFlight[s] = <<>>
  /\ Proceeds(s, "publishing", "done")
  /\ link' = [link EXCEPT ![s] = "closed"]
  /\ UNCHANGED <<next, inFlight, stored, drops>>

\* The flush is not answered in time: the connection is closed.
FlushFails(s) ==
  /\ next[s] = Len(Rows[s]) + 1
  /\ Proceeds(s, "publishing", "failed")
  /\ link' = [link EXCEPT ![s] = "closed"]
  /\ inFlight' = [inFlight EXCEPT ![s] = <<>>]
  /\ UNCHANGED <<next, stored, drops>>

\* The server gets a message.
Arrives(s) ==
  /\ link[s] = "up" /\ inFlight[s] # <<>>
  /\ stored' = [stored EXCEPT ![s] = Append(@, Head(inFlight[s]))]
  /\ inFlight' = [inFlight EXCEPT ![s] = Tail(@)]
  /\ UNCHANGED <<cacheVars, copy, next, link, drops>>

LinkDrops(s) ==
  /\ link[s] = "up" /\ drops[s] < MaxDrops
  /\ link' = [link EXCEPT ![s] = "down"]
  /\ drops' = [drops EXCEPT ![s] = @ + 1]
  /\ inFlight' = [inFlight EXCEPT ![s] = <<>>]
  /\ UNCHANGED <<cacheVars, copy, next, stored>>

\* The client reconnects, or gives up and closes the connection.
LinkSettles(s) ==
  /\ link[s] = "down"
  /\ \/ link' = [link EXCEPT ![s] = "up"] /\ UNCHANGED inFlight
     \/ link' = [link EXCEPT ![s] = "closed"] /\ inFlight' = [inFlight EXCEPT ![s] = <<>>]
  /\ UNCHANGED <<cacheVars, copy, next, stored, drops>>

CopyStep(s) ==
  \/ Binds(s) \/ Connects(s) \/ ConnectFails(s)
  \/ Publishes(s) \/ PublishFails(s) \/ Flushes(s) \/ FlushFails(s)

Next ==
  \/ CacheNext /\ UNCHANGED statement
  \/ \E c \in Calls : Returns(c)
  \/ \E s \in Statements : CopyStep(s) \/ Arrives(s) \/ LinkDrops(s) \/ LinkSettles(s)

\* A call that holds the mutex runs.
Fairness == \A c \in Calls : WF_vars(CacheStep(c) /\ UNCHANGED statement)

Spec == Init /\ [][Next]_vars /\ Fairness

-----------------------------------------------------------------------------
\* Each variable has its type.
TypeOK ==
  /\ CacheTypeOK
  /\ copy \in [Statements -> {"binding", "connecting", "publishing", "done", "failed"}]
  /\ next \in [Statements -> Nat \ {0}]
  /\ inFlight \in [Statements -> Seq(Nat)] /\ stored \in [Statements -> Seq(Nat)]
  /\ link \in [Statements -> {"none", "up", "down", "closed"}]
  /\ drops \in [Statements -> 0..MaxDrops]

\* What the server has of a statement are its rows in their order, each one
\* once, and none behind a row that cannot be encoded.  Over a link that never
\* dropped it is a prefix of them, also when the statement fails, and all of
\* them when it succeeds (nats_scan.cpp:1467-1496, 1505-1511).
CopyStoresRows ==
  \A s \in Statements :
    LET sent == stored[s] \o inFlight[s] IN
    /\ \A i, j \in 1..Len(sent) : i < j => sent[i] < sent[j]
    /\ \A i \in 1..Len(sent) : \A r \in 1..sent[i] : Rows[s][r]
    /\ drops[s] = 0 => \A i \in 1..Len(stored[s]) : stored[s][i] = i
    /\ drops[s] = 0 /\ copy[s] = "done" => Len(stored[s]) = Len(Rows[s])
==============================================================================
