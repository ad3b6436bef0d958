------------------------------ MODULE MCTaskMan ------------------------------
(***************************************************************************)
(* Instances of TaskMan for TLC.                                           *)
(***************************************************************************)
EXTENDS TaskManChain, TLC

CONSTANTS p, c1, c2, w1, w2

\* Task p starts c1 and c2.
BatchParent == [t \in Task |-> IF t \in {c1, c2} /\ p \in Task THEN p ELSE None]

\* Task p starts c1, which starts c2.
ChainParent == [t \in Task |-> CASE t = c1 -> p [] t = c2 -> c1 [] OTHER -> None]

\* p is a batch over two objects, of which c1 and c2 have one each.
BatchObjs == [t \in Task |-> CASE t = c1 -> {1} [] t = c2 -> {2} [] OTHER -> {1, 2}]

\* Every task has an object of its own.
OwnObjs == [t \in Task |-> CASE t = p -> {1} [] t = c1 -> {2} [] t = c2 -> {3}]

WorkersAlike == Permutations(Worker)
=============================================================================
