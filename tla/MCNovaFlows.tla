----------------------------- MODULE MCNovaFlows -----------------------------
(* Two notifications of an instance or a compute host, each on an engine.  *)
EXTENDS NovaFlows

CONSTANTS n1, n2

TwoNotifications == { n1, n2 }
=============================================================================
