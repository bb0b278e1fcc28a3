--------------------------- MODULE MCRetryWorker ---------------------------
(* Model-checking instance of RetryWorker: the protocol is finite as it     *)
(* stands, so only CreateMayFail is chosen, in the configurations.         *)
EXTENDS RetryWorker
=============================================================================
