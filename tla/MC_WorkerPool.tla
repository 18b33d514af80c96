---------------------------- MODULE MC_WorkerPool ----------------------------
(* Request structures and descriptors for TLC.                               *)
EXTENDS WorkerPool
=============================================================================
