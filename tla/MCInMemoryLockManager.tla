----------------------- MODULE MCInMemoryLockManager -----------------------
(***************************************************************************)
(* Instances of InMemoryLockManager for TLC.                               *)
(***************************************************************************)
EXTENDS InMemoryLockManager, TLC

CONSTANTS g1, g2, g3, k1
=============================================================================
