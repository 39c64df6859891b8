--------------------------- MODULE MCRetryHistory ---------------------------
(* The retry history with the symmetry sets of MCWebhookProcessor.          *)
EXTENDS RetryHistory, MCWebhookProcessor
=============================================================================
