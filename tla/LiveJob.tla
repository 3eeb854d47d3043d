------------------------------- MODULE LiveJob -------------------------------
(***************************************************************************)
(* What a live job promises its user, whatever it listens to: under one    *)
(* job_name there is at most one worker at a time, its rows are added in   *)
(* the order in which the messages were published and none twice, and     *)
(* while the job is reported as paused it adds none.                       *)
(* SubscribeJob implements it.                                             *)
(***************************************************************************)
EXTENDS Naturals, Sequences

CONSTANT Jobs   \* the job instances ever started under the name

VARIABLES
  live,   \* the instances that have a worker
  held,   \* the instances that are reported as paused
  rows    \* the rows each instance has added to its target table, in order

vars == <<live, held, rows>>

Increasing(s) == \A i, k \in DOMAIN s : i < k => s[i] < s[k]

Extends(t, s) == Len(s) <= Len(t) /\ \A i \in DOMAIN s : t[i] = s[i]

Init == live = {} /\ held = {} /\ rows = [j \in Jobs |-> <<>>]

Starts(j) ==
  /\ live = {}
  /\ live' = {j}
  /\ UNCHANGED <<held, rows>>

Stores(j) ==
  /\ j \in live \ held
  /\ \A k \in Jobs \ {j} : rows'[k] = rows[k]
  /\ Extends(rows'[j], rows[j]) /\ Increasing(rows'[j])
  /\ UNCHANGED <<live, held>>

Holds(j) ==
  /\ j \in live
  /\ held' = held \union {j}
  /\ UNCHANGED <<live, rows>>

Releases(j) ==
  /\ held' = held \ {j}
  /\ UNCHANGED <<live, rows>>

Ends(j) ==
  /\ live' = live \ {j}
  /\ UNCHANGED <<held, rows>>

Next == \E j \in Jobs : Starts(j) \/ Stores(j) \/ Holds(j) \/ Releases(j) \/ Ends(j)

Spec == Init /\ [][Next]_vars
=============================================================================
