------------------------------- MODULE MCRing -------------------------------
(***************************************************************************)
(* Instances of Ring for TLC.                                              *)
(***************************************************************************)
EXTENDS Ring, TLC

CONSTANTS v1, v2, v3
=============================================================================
