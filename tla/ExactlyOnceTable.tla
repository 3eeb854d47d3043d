-------------------------- MODULE ExactlyOnceTable --------------------------
(***************************************************************************)
(* What an ingest job promises its user: the target table holds, once      *)
(* each, exactly the expected messages of a prefix of the stream, and the  *)
(* checkpoint is the end of that prefix.  IngestPipeline implements this   *)
(* specification when no delivery is lost on the way to the client.        *)
(***************************************************************************)
EXTENDS Naturals

CONSTANTS MaxSeq,    \* bound on the stream sequence numbers
          Expected   \* the sequence numbers whose messages belong in the table

VARIABLES published, \* the last sequence number of the stream
          mark,      \* everything expected up to here is in the table
          rows       \* rows[s]: how many rows the message s has in the table

vars == <<published, mark, rows>>

Init ==
  /\ published = 0
  /\ mark = 0
  /\ rows = [s \in 1..MaxSeq |-> 0]

Publish ==
  /\ published < MaxSeq
  /\ published' = published + 1
  /\ UNCHANGED <<mark, rows>>

\* One transaction extends the prefix to h: all its expected messages, once.
Extend(h) ==
  LET added == {s \in Expected : mark < s /\ s <= h} IN
  /\ mark < h
  /\ h <= published
  /\ added # {}
  /\ mark' = h
  /\ rows' = [s \in 1..MaxSeq |-> IF s \in added THEN rows[s] + 1 ELSE rows[s]]
  /\ UNCHANGED published

Next == Publish \/ \E h \in 1..MaxSeq : Extend(h)

Spec == Init /\ [][Next]_vars
=============================================================================
