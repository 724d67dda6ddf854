---------------------------- MODULE MCWorkerMemory ----------------------------
(* One path of a store, three contents. *)
EXTENDS WorkerMemory

CONSTANT f1

MCPaths == {f1}
===============================================================================
