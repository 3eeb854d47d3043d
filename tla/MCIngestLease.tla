---------------------------- MODULE MCIngestLease ----------------------------
(***************************************************************************)
(* Instances of IngestLease for TLC: a and b name the server by the same   *)
(* URL and share a lock file, c names it differently.                      *)
(***************************************************************************)
EXTENDS IngestLease, TLC

CONSTANTS a, b, c

TwoOfThree == (a :> "one") @@ (b :> "one") @@ (c :> "two")

SameJobs == Permutations({a, b})
=============================================================================
