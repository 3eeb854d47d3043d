---------------------------- MODULE MCBatchSource ----------------------------
\* The instance of BatchSource that TLC checks: see batch_source.cfg.
EXTENDS BatchSource
==============================================================================
