------------------------------ MODULE MCKvStore ------------------------------
(***************************************************************************)
(* Instances of KvStore for TLC.                                           *)
(***************************************************************************)
EXTENDS KvStore, TLC

CONSTANTS w1, w2, k1, k2

\* Two rows that can be put.
MCCopyRows == <<k1, k2>>

MCSymmetry == Permutations({w1, w2})
=============================================================================
