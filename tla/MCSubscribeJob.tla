--------------------------- MODULE MCSubscribeJob ---------------------------
(***************************************************************************)
(* Instances of SubscribeJob for TLC.                                      *)
(***************************************************************************)
EXTENDS SubscribeJob

CONSTANT c1
=============================================================================
