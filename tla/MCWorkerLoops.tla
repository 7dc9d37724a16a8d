---------------------------- MODULE MCWorkerLoops ----------------------------
(* Values for model checking WorkerLoops. *)
EXTENDS WorkerLoops

Lifetimes == 0..NumWorkers
===============================================================================
