-------------------------- MODULE MCHostPendingUsage --------------------------
(***************************************************************************)
(* Instances of HostPendingUsage for TLC.                                  *)
(***************************************************************************)
EXTENDS HostPendingUsage

CONSTANTS h1, s1, w1, w2

\* One session for all the guests.
OneForAll == [g \in Guest |-> s1]

RoomForTwo == [h \in Host |-> 2]
=============================================================================
