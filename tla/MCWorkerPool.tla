---------------------------- MODULE MCWorkerPool ----------------------------
(* The instance of WorkerPool that TLC checks: more files than the channel   *)
(* and the workers can hold at once.                                         *)
EXTENDS WorkerPool

MCFiles == <<"a", "b", "c", "d", "e", "f">>
=============================================================================
