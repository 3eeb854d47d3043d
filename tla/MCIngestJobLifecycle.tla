------------------------ MODULE MCIngestJobLifecycle ------------------------
(***************************************************************************)
(* Instances of IngestJobLifecycle for TLC.                                *)
(***************************************************************************)
EXTENDS IngestJobLifecycle

CONSTANTS c1, c2
=============================================================================
