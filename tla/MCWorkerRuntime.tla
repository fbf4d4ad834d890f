--------------------------- MODULE MCWorkerRuntime ---------------------------
(***************************************************************************)
(* Constants for TLC's runs of WorkerRuntime.                              *)
(***************************************************************************)
EXTENDS WorkerRuntime

OneCfg == {1}
TwoCfgs == {1, 2}
SecondIsBad == {2}
None == {}
RetryableExit == {"retryable"}
AnyExit == {"clean", "retryable", "fatal"}
=============================================================================
