----------------------------- MODULE MCPublish -----------------------------
\* Batches of two, and enough messages for a full batch behind a partial one.
EXTENDS Publish

MCBatchSize == 2
=============================================================================
