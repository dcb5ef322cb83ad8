---------------------------- MODULE MCStartLimiter ----------------------------
(* Servers of StartLimiter for TLC. *)
EXTENDS StartLimiter, TLC

CONSTANTS a1, a2, a3, i1, i2, i3

\* the first two attempts start the same instance, in two engines
Starts ==
  [a \in Attempts |->
     CASE a \in {a1, a2} -> i1
       [] a = a3          -> i2
       [] OTHER           -> i3]
=============================================================================
