---------------------------- MODULE MCWorkerWafs ----------------------------
(* WorkerWafs on small instances. *)
EXTENDS WorkerWafs
=============================================================================
