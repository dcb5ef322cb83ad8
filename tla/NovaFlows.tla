------------------------------ MODULE NovaFlows ------------------------------
(***************************************************************************)
(* The recoveries of one instance (drivers/taskflow/instance_failure.py)   *)
(* and of one compute service (process_failure.py) through nova, from the  *)
(* handlers of engine/manager.py over the driver to the tasks.             *)
(*                                                                         *)
(* Every notification is of that instance or of that host, and each may be *)
(* worked on at the same time as the others: the lock on the source host   *)
(* is one of the process, and several engines take notifications.  Nova is *)
(* the environment: it accepts a call or answers 409, does what it         *)
(* accepted some time later or fails to, and serves users meanwhile.  The  *)
(* other dangers of a notification (lost casts, copies, crashes) are those *)
(* of NotificationEngine.                                                  *)
(***************************************************************************)
EXTENDS Naturals, FiniteSets

CONSTANTS
  Notifications,
  Kinds,                 \* what the notifications may be about
  process_all_instances, \* CONF.instance_failure.process_all_instances
  MaxMoves,              \* bound: what users and operators do
  MaxFaults              \* bound: failing calls to nova, operations nova gives up

AllKinds == { "vm", "other vm event", "nova-compute stopped", "other process stopped",
              "process started", "invalid process event" }

User == "user"

ASSUME NovaFlowsAssumption ==
  /\ IsFiniteSet(Notifications) /\ User \notin Notifications /\ Kinds \subseteq AllKinds
  /\ process_all_instances \in BOOLEAN
  /\ MaxMoves \in Nat /\ MaxFaults \in Nat

VARIABLES
  kind,         \* per notification: one of Kinds
  status,       \* per notification: its status
  last,         \* per notification: the periodic task took it, an ERROR is final
  pc,           \* per notification: the next step of its recovery
  skipped,      \* notifications FINISHED without a recovery
  server,       \* nova's instance: its vm_state, what nova is doing with it, who
                \* asked for that, and who asked for the last stop it has seen done
  ha_enabled,   \* the instance's metadata
  disabled,     \* nova's compute service is disabled
  on_maintenance, \* the host's row
  moves, faults

vars == <<kind, status, last, pc, skipped, server, ha_enabled, disabled,
          on_maintenance, moves, faults>>
nova == <<server, ha_enabled, disabled, on_maintenance, moves, faults>>

VmStates == { "active", "stopped", "paused", "rescued", "resized", "error" }

Init ==
  /\ kind \in [Notifications -> Kinds]
  /\ status = [n \in Notifications |-> "new"]
  /\ last = [n \in Notifications |-> FALSE]
  /\ pc = [n \in Notifications |-> "idle"]
  /\ skipped = {}
  /\ server \in [state : VmStates, doing : {"nothing"}, asked : {User}, stopped_by : {User}]
  /\ ha_enabled \in BOOLEAN
  /\ disabled \in BOOLEAN
  /\ on_maintenance = FALSE
  /\ moves = 0 /\ faults = 0

-----------------------------------------------------------------------------
(* The handlers *)

\* What a handler begins with, by the kind of its notification; the recovery
\* of an instance begins with get_server.
FirstStep(k) ==
  CASE k = "vm" -> "get"
    [] k \in { "nova-compute stopped", "other process stopped" } -> "maintain"
    [] k = "process started" -> "finished"
    [] OTHER -> "ignored"

\* The notification arrives (by_rpc), or the periodic task takes it: an old NEW
\* one that nobody took, or an ERROR one for its only retry.
Take(n, by_rpc) ==
  /\ pc[n] = "idle"
  /\ status[n] \in (IF by_rpc THEN { "new" } ELSE { "new", "error" })
  /\ ~last[n]
  /\ last' = [last EXCEPT ![n] = ~by_rpc]
  /\ LET first == FirstStep(kind[n])
         over  == first \in { "finished", "ignored" }
     IN  /\ status' = [status EXCEPT ![n] = IF over THEN first ELSE "running"]
         /\ pc' = [pc EXCEPT ![n] = IF over THEN "idle" ELSE first]
  /\ UNCHANGED <<kind, skipped, nova>>

Goto(n, step) == pc' = [pc EXCEPT ![n] = step] /\ UNCHANGED <<status, skipped>>

\* The periodic task turns the ERROR of its retry into FAILED.
Settled(n, verdict) == IF verdict = "error" /\ last[n] THEN "failed" ELSE verdict

\* The flow ends, normally or by an exception, and the handler returns a verdict.
Returns(n, verdict) ==
  /\ pc' = [pc EXCEPT ![n] = "idle"]
  /\ status' = [status EXCEPT ![n] = Settled(n, verdict)]
  /\ UNCHANGED skipped

\* SkipInstanceRecoveryException, SkipProcessRecoveryException
Skips(n) ==
  /\ pc' = [pc EXCEPT ![n] = "idle"]
  /\ status' = [status EXCEPT ![n] = "finished"]
  /\ skipped' = skipped \cup { n }

-----------------------------------------------------------------------------
(* Nova *)

Idle == server.doing = "nothing"

CanStop  == Idle /\ server.state \in { "active", "error" }
CanStart == Idle /\ server.state = "stopped"

Asked(operation, by) == server' = [server EXCEPT !.doing = operation, !.asked = by]

\* Nova ends what it is doing, or gives it up.
Completes ==
  /\ ~Idle
  /\ server' = IF server.doing = "stopping"
               THEN [server EXCEPT !.doing = "nothing", !.state = "stopped",
                                   !.stopped_by = server.asked]
               ELSE [server EXCEPT !.doing = "nothing", !.state = "active"]
  /\ UNCHANGED <<kind, status, last, pc, skipped, ha_enabled, disabled, on_maintenance,
                 moves, faults>>

GivesUp ==
  /\ ~Idle /\ faults < MaxFaults
  /\ faults' = faults + 1
  /\ \E state \in { server.state, "error" } :
       server' = [server EXCEPT !.doing = "nothing", !.state = state]
  /\ UNCHANGED <<kind, status, last, pc, skipped, ha_enabled, disabled, on_maintenance, moves>>

\* The states users bring an instance to in one call.
UserChanges ==
  { <<"active", "paused">>, <<"paused", "active">>, <<"active", "resized">>,
    <<"resized", "active">>, <<"active", "rescued">>, <<"stopped", "rescued">>,
    <<"rescued", "active">> }

UserActs ==
  /\ moves < MaxMoves /\ moves' = moves + 1
  /\ \/ /\ Idle
        /\ \E to \in VmStates :
             <<server.state, to>> \in UserChanges /\ server' = [server EXCEPT !.state = to]
        /\ UNCHANGED ha_enabled
     \/ (CanStop /\ Asked("stopping", User)) /\ UNCHANGED ha_enabled
     \/ (CanStart /\ Asked("starting", User)) /\ UNCHANGED ha_enabled
     \/ ha_enabled' = ~ha_enabled /\ UNCHANGED server
  /\ UNCHANGED <<kind, status, last, pc, skipped, disabled, on_maintenance, faults>>

OperatorActs ==
  /\ moves < MaxMoves /\ moves' = moves + 1
  /\ \/ disabled' = ~disabled /\ UNCHANGED on_maintenance
     \/ on_maintenance' = ~on_maintenance /\ UNCHANGED disabled
  /\ UNCHANGED <<kind, status, last, pc, skipped, server, ha_enabled, faults>>

-----------------------------------------------------------------------------
(* StopInstanceTask *)

Get(n) ==
  /\ pc[n] = "get"
  /\ IF ~process_all_instances /\ ~ha_enabled THEN Skips(n)
     ELSE CASE server.state \in { "paused", "rescued" } -> Returns(n, "ignored")
            [] server.state = "stopped" -> Goto(n, "power_off")
            [] server.state = "resized" -> Goto(n, "reset")
            [] OTHER                    -> Goto(n, "stop")
  /\ UNCHANGED <<kind, last, nova>>

\* reset_instance_state is an administrator's call, nova refuses it in no state.
Reset(n) ==
  /\ pc[n] = "reset"
  /\ server' = [server EXCEPT !.state = "active"]
  /\ Goto(n, "stop")
  /\ UNCHANGED <<kind, last, ha_enabled, disabled, on_maintenance, moves, faults>>

Stop(n) ==
  /\ pc[n] = "stop"
  /\ \/ CanStop /\ Asked("stopping", n) /\ Goto(n, "power_off")
     \/ ~CanStop /\ UNCHANGED server /\ Goto(n, "conflict")
  /\ UNCHANGED <<kind, last, ha_enabled, disabled, on_maintenance, moves, faults>>

\* After a Conflict only an instance that has stopped meanwhile will do.
AfterConflict(n) == IF server.state = "stopped" THEN Goto(n, "power_off") ELSE Returns(n, "error")

GetAgain(n) ==
  /\ pc[n] = "conflict"
  /\ AfterConflict(n)
  /\ UNCHANGED <<kind, last, nova>>

\* Mutants: a timeout that is not raised; a wait without a timeout.
PollEndsAnyway(n, reached, next) == next

PollNeverTimesOut(n, reached, next) == reached /\ next

\* A periodic call that ends when nova shows `reached', or, after a poll that
\* did not, with a timeout.  Polls in between change nothing.
PollEnds(n, reached, next) ==
  \/ reached /\ next
  \/ ~reached /\ Returns(n, "error")

WaitForPowerOff(n) ==
  /\ pc[n] = "power_off"
  /\ PollEnds(n, server.state = "stopped", Goto(n, "check"))
  /\ UNCHANGED <<kind, last, nova>>

(* StartInstanceTask *)

Check(n) ==
  /\ pc[n] = "check"
  /\ IF server.state = "stopped" THEN Goto(n, "start") ELSE Returns(n, "error")
  /\ UNCHANGED <<kind, last, nova>>

Start(n) ==
  /\ pc[n] = "start"
  /\ \/ CanStart /\ Asked("starting", n) /\ Goto(n, "active")
     \/ ~CanStart /\ UNCHANGED server /\ Returns(n, "error")
  /\ UNCHANGED <<kind, last, ha_enabled, disabled, on_maintenance, moves, faults>>

(* ConfirmInstanceActiveTask *)

WaitForActive(n) ==
  /\ pc[n] = "active"
  /\ PollEnds(n, server.state = "active", Returns(n, "finished"))
  /\ UNCHANGED <<kind, last, nova>>

-----------------------------------------------------------------------------
(* The handler and the tasks of a process *)

\* Only nova-compute has a flow.
ExecuteProcessFailure(n) ==
  IF kind[n] = "nova-compute stopped" THEN Goto(n, "service") ELSE Skips(n)

Maintain(n) ==
  /\ pc[n] = "maintain"
  /\ on_maintenance' = TRUE
  /\ ExecuteProcessFailure(n)
  /\ UNCHANGED <<kind, last, server, ha_enabled, disabled, moves, faults>>

\* DisableComputeNodeTask: look, then disable
LookAtService(n) ==
  /\ pc[n] = "service"
  /\ Goto(n, IF disabled THEN "confirm" ELSE "disable")
  /\ UNCHANGED <<kind, last, nova>>

Disable(n) ==
  /\ pc[n] = "disable"
  /\ disabled' = TRUE
  /\ Goto(n, "confirm")
  /\ UNCHANGED <<kind, last, server, ha_enabled, on_maintenance, moves, faults>>

\* ConfirmComputeNodeDisabledTask
Confirm(n) ==
  /\ pc[n] = "confirm"
  /\ PollEnds(n, disabled, Returns(n, "finished"))
  /\ UNCHANGED <<kind, last, nova>>

\* Any other exception of a call to nova (no connection, no such server, no
\* service of that name) leaves the driver as a MasakariException.
CallFails(n) ==
  /\ pc[n] \notin { "idle", "maintain" }
  /\ faults < MaxFaults /\ faults' = faults + 1
  /\ Returns(n, "error")
  /\ UNCHANGED <<kind, last, server, ha_enabled, disabled, on_maintenance, moves>>

-----------------------------------------------------------------------------

Step(n) ==
  \/ Get(n) \/ Reset(n) \/ Stop(n) \/ GetAgain(n) \/ WaitForPowerOff(n)
  \/ Check(n) \/ Start(n) \/ WaitForActive(n)
  \/ Maintain(n) \/ LookAtService(n) \/ Disable(n) \/ Confirm(n)

Next ==
  \/ \E n \in Notifications, by_rpc \in BOOLEAN : Take(n, by_rpc)
  \/ \E n \in Notifications : Step(n) \/ CallFails(n)
  \/ Completes \/ GivesUp \/ UserActs \/ OperatorActs

\* The engine's threads go on and its periodic task runs.  Nova need never do
\* what it accepted: the waits have timeouts.
Fairness ==
  \A n \in Notifications : WF_vars(Step(n)) /\ WF_vars(Take(n, FALSE))

Spec == Init /\ [][Next]_vars /\ Fairness

-----------------------------------------------------------------------------

\* An instance that is stopped because a recovery stopped it is not passed over:
\* the notification of that recovery is still at work, waits for its retry or
\* is FAILED.  It is about stops that nova does after the task gave them up, two
\* recoveries of one instance at once, and users between the tasks.  The
\* exception is the code's: a retry that finds HA_Enabled taken away ends as
\* FINISHED though the first attempt stopped the instance.
LeftStoppedIsReported ==
  server.state = "stopped" /\ server.stopped_by # User =>
    \/ status[server.stopped_by] \in { "running", "error", "failed" }
    \/ server.stopped_by \in skipped

\* Whatever nova, users and other recoveries do, every notification comes to a
\* verdict: no wait of the tasks is without a timeout, and no ERROR is retried
\* without end.
EveryRecoveryEnds ==
  \A n \in Notifications : <>[](status[n] \in { "finished", "ignored", "failed" })
=============================================================================
