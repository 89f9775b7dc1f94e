--------------------------- MODULE MCWorkerFleet ---------------------------
(* Instances of WorkerFleet for TLC. *)
EXTENDS WorkerFleet, TLC

CONSTANTS p1, p2, n1, n2

\* Every process has a hostname-PID of its own: the processes stand for them.
OwnId    == [p \in Proc |-> p]

\* All processes are configured with the same name, or each with its own.
SameName == [p \in Proc |-> n1]
OwnName  == [p \in Proc |-> IF p = p1 THEN n1 ELSE n2]

\* All processes have the same machines in their config.
SameMachines == [p \in Proc |-> Machine]

Symmetry == Permutations(Proc)

=============================================================================
