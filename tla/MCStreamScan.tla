---------------------------- MODULE MCStreamScan ----------------------------
(***************************************************************************)
(* An instance of StreamScan for TLC: two subjects under one pattern, and  *)
(* requests by sequence number, by time, by text and by server filter.     *)
(***************************************************************************)
EXTENDS StreamScan

Tokens == {"s", "x", "y", "z", "*", ">"}

Published == {<<"s", "x">>, <<"s", "y">>}

Configured == {<<"s", ">">>}

Ask(from, to, since, until, text, filter) ==
  [start_seq |-> from, end_seq |-> to, start_time |-> since, end_time |-> until,
   subject_contains |-> text, nats_subject |-> filter]

X == <<"s", "x">>

BySeq ==
  {Ask(0, UINT64_MAX, 0, 0, NoFilter, NoFilter),
   Ask(2, UINT64_MAX, 0, 0, NoFilter, NoFilter),
   Ask(0, 2, 0, 0, NoFilter, NoFilter),
   Ask(0, 2, 0, 0, {X}, NoFilter),
   Ask(2, MaxSeq + 1, 0, 0, NoFilter, NoFilter),
   Ask(0, UINT64_MAX, 0, 0, NoFilter, X),
   Ask(2, UINT64_MAX, 0, 0, NoFilter, X),
   Ask(0, MaxSeq, 0, 0, NoFilter, <<"s", "*">>),
   Ask(0, UINT64_MAX, 0, 0, NoFilter, <<"z">>)}

ByTime ==
  {Ask(0, UINT64_MAX, 1, 0, NoFilter, NoFilter),
   Ask(0, UINT64_MAX, 2, 0, NoFilter, X),
   Ask(0, UINT64_MAX, 0, 1, NoFilter, NoFilter),
   Ask(0, UINT64_MAX, 0, 2, NoFilter, NoFilter),
   Ask(0, UINT64_MAX, 2, 2, {X}, NoFilter)}

\* Refused by NatsScanBind.
Mixed == {Ask(1, UINT64_MAX, 1, 0, NoFilter, NoFilter)}

SomeRequests == BySeq \union ByTime \union Mixed
=============================================================================
