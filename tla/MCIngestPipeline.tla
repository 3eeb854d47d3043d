-------------------------- MODULE MCIngestPipeline --------------------------
(***************************************************************************)
(* Instances of IngestPipeline for TLC.                                    *)
(***************************************************************************)
EXTENDS IngestPipeline

\* One message in the middle of the stream is refused by subject_contains.
AllButTwo == (1..MaxSeq) \ {2}
=============================================================================
