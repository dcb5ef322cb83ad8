------------------------ MODULE MCNotificationEngine ------------------------
(* Instances of NotificationEngine for TLC. *)
EXTENDS NotificationEngine

CONSTANTS e1, e2, rpc1, per1    \* the engines, and the workers of engine e1

OneEngine  == [w \in Workers |-> e1]
TwoEngines == [w \in Workers |-> IF w \in {rpc1, per1} THEN e1 ELSE e2]
=============================================================================
