----------------------------- MODULE MCFencing -----------------------------
(* Instances of Fencing for TLC. *)
EXTENDS Fencing

CONSTANTS e1, e2

\* both events about one host, or each about its own
Placed == { [e \in Events |-> 1], [e \in Events |-> IF e = e1 THEN 1 ELSE 2] }

\* the first event is retried
Twice == [e \in Events |-> IF e = e1 THEN 2 ELSE 1]
=============================================================================
