------------------------ MODULE NotificationLifecycle ------------------------
(***************************************************************************)
(* What a failure notification promises to whoever reported it, without    *)
(* engines, threads, casts or copies: the life of its status column.       *)
(*                                                                         *)
(*   absent -> new -> running -> finished | ignored | error                *)
(*                    error -> running (one retry), error -> failed        *)
(*                                                                         *)
(* FINISHED, IGNORED and FAILED are final; one that failed is FAILED only  *)
(* from ERROR; a notification is recovered at most twice, once more for    *)
(* each time it was set back, which no step of its own does.               *)
(***************************************************************************)
EXTENDS Naturals

CONSTANTS Notifs, MaxAttempts

VARIABLES status, attempts, setbacks

vars == <<status, attempts, setbacks>>

Init ==
  /\ status = [n \in Notifs |-> "absent"]
  /\ attempts = [n \in Notifs |-> 0]
  /\ setbacks = [n \in Notifs |-> 0]

Report(n) ==
  /\ status[n] = "absent"
  /\ status' = [status EXCEPT ![n] = "new"]
  /\ UNCHANGED <<attempts, setbacks>>

Attempt(n) ==
  /\ status[n] \in {"new", "error"}
  /\ attempts[n] < MaxAttempts + setbacks[n]
  /\ status' = [status EXCEPT ![n] = "running"]
  /\ attempts' = [attempts EXCEPT ![n] = @ + 1]
  /\ UNCHANGED setbacks

Settle(n) ==
  /\ status[n] = "running"
  /\ \E o \in {"finished", "ignored", "error"} : status' = [status EXCEPT ![n] = o]
  /\ UNCHANGED <<attempts, setbacks>>

GiveUp(n) ==
  /\ status[n] = "error"
  /\ status' = [status EXCEPT ![n] = "failed"]
  /\ UNCHANGED <<attempts, setbacks>>

\* Whoever was to say how a recovery ended was stopped before.
Disturb ==
  /\ \E N \in SUBSET Notifs :
       setbacks' = [n \in Notifs |-> IF n \in N THEN setbacks[n] + 1 ELSE setbacks[n]]
  /\ UNCHANGED <<status, attempts>>

Next ==
  \/ \E n \in Notifs : Report(n) \/ Attempt(n) \/ Settle(n) \/ GiveUp(n)
  \/ Disturb

Spec == Init /\ [][Next]_vars
=============================================================================
