---------------------------- MODULE MCHostRecovery ----------------------------
(* Instances of HostRecovery for TLC. *)
EXTENDS HostRecovery, TLC

CONSTANTS f1, f2, i1

\* i1 runs on f1, every other instance on f2 when that host failed too
Homes == [i \in Instances |-> IF i = i1 \/ f2 \notin Failed THEN f1 ELSE f2]

Symmetry == Permutations(Reserved)
=============================================================================
