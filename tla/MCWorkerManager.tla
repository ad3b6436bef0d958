-------------------------- MODULE MCWorkerManager --------------------------
(***************************************************************************)
(* Instances of WorkerManager for TLC.                                     *)
(***************************************************************************)
EXTENDS WorkerManager

CONSTANTS w1, w2, w3, w4, w5, r1, r2, b1, b2
=============================================================================
