----------------------------- MODULE MCKvWatchJob -----------------------------
(***************************************************************************)
(* Instances of KvWatchJob for TLC.                                        *)
(***************************************************************************)
EXTENDS KvWatchJob

CONSTANTS c1, k1, k2

\* The whole bucket, or the updates of one key without its deletes.
MCRequests ==
  {[keys |-> Keys, updatesOnly |-> FALSE, ignoreDeletes |-> FALSE],
   [keys |-> {k1}, updatesOnly |-> TRUE, ignoreDeletes |-> TRUE]}
=============================================================================
