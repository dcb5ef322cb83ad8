--------------------------- MODULE NovaFlowsProofs ---------------------------
(***************************************************************************)
(* A theorem about NovaFlows, for every number of notifications of every   *)
(* kind and whatever users, operators and nova do: an instance that a      *)
(* recovery stopped and did not start again is reported.                   *)
(*                                                                         *)
(* The argument: a recovery ends well only when it sees the instance       *)
(* ACTIVE, or turns away when it sees it paused or rescued, and an         *)
(* instance that is stopped is none of these; the stop that nova still has *)
(* to do is the difficulty: it may come when its recovery has long given   *)
(* up.  But nova does one thing at a time, while it stops an instance the  *)
(* instance is ACTIVE or in ERROR (OneAtATime), and a recovery that gets   *)
(* beyond its wait for the power to be off has seen the stop done          *)
(* (StopPending), so the recovery has not ended well meanwhile.            *)
(***************************************************************************)
EXTENDS NovaFlows, TLAPS

Verdicts == { "new", "running", "finished", "ignored", "error", "failed" }

InstanceSteps == { "get", "reset", "stop", "conflict", "power_off", "check", "start", "active" }
ProcessSteps  == { "maintain", "service", "disable", "confirm" }

Server == [state : VmStates, doing : { "nothing", "stopping", "starting" },
           asked : Notifications \cup {User}, stopped_by : Notifications \cup {User}]

TypeInv ==
  /\ kind \in [Notifications -> Kinds]
  /\ status \in [Notifications -> Verdicts]
  /\ last \in [Notifications -> BOOLEAN]
  /\ pc \in [Notifications -> { "idle" } \cup InstanceSteps \cup ProcessSteps]
  /\ skipped \in SUBSET Notifications
  /\ server \in Server

\* A recovery at work is RUNNING, in the tasks of its kind.
AtWork(n) ==
  /\ pc[n] # "idle" => status[n] = "running"
  /\ pc[n] \in InstanceSteps => kind[n] = "vm"
  /\ pc[n] \in ProcessSteps => kind[n] # "vm"

Working == \A n \in Notifications : AtWork(n)

\* Whoever reads the notification sees that the recovery has not succeeded.
Reported(n) == kind[n] = "vm" /\ (status[n] \in { "running", "error", "failed" } \/ n \in skipped)

OneAtATime == server.doing = "stopping" => server.state \in { "active", "error" }

StopPending ==
  server.doing = "stopping" /\ server.asked # User =>
    Reported(server.asked) /\ pc[server.asked] \notin { "check", "start", "active" }

LeftStopped == server.state = "stopped" /\ server.stopped_by # User => Reported(server.stopped_by)

\* The inductive invariant.
IInv == TypeInv /\ Working /\ OneAtATime /\ StopPending /\ LeftStopped

-----------------------------------------------------------------------------
LEMMA InitIInv == Init => IInv
<1> SUFFICES ASSUME Init PROVE IInv
  OBVIOUS
<1>1. server \in Server /\ server.doing = "nothing" /\ server.stopped_by = User
  BY DEF Init, Server
<1>2. last \in [Notifications -> BOOLEAN]
  BY Zenon DEF Init
<1>3. TypeInv /\ Working
  BY <1>1, <1>2 DEF Init, TypeInv, Working, AtWork, Verdicts, InstanceSteps, ProcessSteps
<1> QED
  BY <1>1, <1>3 DEF IInv, OneAtATime, StopPending, LeftStopped

\* a recovery goes to its next step
LEMMA Going ==
  ASSUME TypeInv, Working, NEW n \in Notifications, pc[n] # "idle",
         NEW p \in InstanceSteps \cup ProcessSteps, p \in InstanceSteps <=> pc[n] \in InstanceSteps,
         Goto(n, p), UNCHANGED <<kind, last>>, server' \in Server
  PROVE  /\ TypeInv' /\ Working'
         /\ \A m \in Notifications : Reported(m) => Reported(m)'
         /\ \A m \in Notifications : pc'[m] = IF m = n THEN p ELSE pc[m]
<1>1. InstanceSteps \cap ProcessSteps = {} /\ "idle" \notin InstanceSteps \cup ProcessSteps
  BY DEF InstanceSteps, ProcessSteps
<1>2. pc' = [pc EXCEPT ![n] = p] /\ UNCHANGED <<status, skipped, kind, last>>
  BY DEF Goto
<1>3. pc \in [Notifications -> { "idle" } \cup InstanceSteps \cup ProcessSteps]
  BY DEF TypeInv
<1>4. TypeInv'
  BY <1>2 DEF TypeInv
<1>5. Working'
  BY <1>1, <1>2, <1>3 DEF Working, AtWork
<1> QED
  BY <1>2, <1>3, <1>4, <1>5 DEF Reported

\* a recovery ends with a verdict
LEMMA Returning ==
  ASSUME TypeInv, Working, NEW n \in Notifications, pc[n] # "idle",
         NEW v \in { "error", "finished", "ignored" },
         Returns(n, v), UNCHANGED <<kind, last>>, server' \in Server
  PROVE  /\ TypeInv' /\ Working'
         /\ \A m \in Notifications : (m # n \/ v = "error") /\ Reported(m) => Reported(m)'
         /\ \A m \in Notifications : pc'[m] = IF m = n THEN "idle" ELSE pc[m]
<1>1. "idle" \notin InstanceSteps \cup ProcessSteps
  BY DEF InstanceSteps, ProcessSteps
<1>2. /\ pc' = [pc EXCEPT ![n] = "idle"] /\ status' = [status EXCEPT ![n] = Settled(n, v)]
      /\ UNCHANGED <<skipped, kind, last>>
  BY DEF Returns
<1>3. /\ pc \in [Notifications -> { "idle" } \cup InstanceSteps \cup ProcessSteps]
      /\ status \in [Notifications -> Verdicts]
  BY DEF TypeInv
<1>4. Settled(n, v) \in Verdicts /\ (v = "error" => Settled(n, v) \in { "error", "failed" })
  BY DEF Settled, Verdicts
<1>5. TypeInv'
  BY <1>2, <1>4 DEF TypeInv
<1>6. Working'
  BY <1>1, <1>2, <1>3 DEF Working, AtWork
<1> QED
  BY <1>2, <1>3, <1>4, <1>5, <1>6 DEF Reported

\* a recovery is skipped
LEMMA Skipping ==
  ASSUME TypeInv, Working, NEW n \in Notifications, pc[n] # "idle",
         Skips(n), UNCHANGED <<kind, last>>, server' \in Server
  PROVE  /\ TypeInv' /\ Working'
         /\ \A m \in Notifications : Reported(m) => Reported(m)'
         /\ \A m \in Notifications : pc'[m] = IF m = n THEN "idle" ELSE pc[m]
<1>1. "idle" \notin InstanceSteps \cup ProcessSteps
  BY DEF InstanceSteps, ProcessSteps
<1>2. /\ pc' = [pc EXCEPT ![n] = "idle"] /\ status' = [status EXCEPT ![n] = "finished"]
      /\ skipped' = skipped \cup {n} /\ UNCHANGED <<kind, last>>
  BY DEF Skips
<1>3. /\ pc \in [Notifications -> { "idle" } \cup InstanceSteps \cup ProcessSteps]
      /\ status \in [Notifications -> Verdicts]
  BY DEF TypeInv
<1>4. TypeInv'
  BY <1>2 DEF TypeInv, Verdicts
<1>5. Working'
  BY <1>1, <1>2, <1>3 DEF Working, AtWork
<1> QED
  BY <1>2, <1>3, <1>4, <1>5 DEF Reported

\* Steps that leave the instance alone.
LEMMA Beside ==
  ASSUME IInv, TypeInv', Working', server' = server,
         \A m \in Notifications : Reported(m) =>
           \/ Reported(m)'
           \/ server.state # "stopped" /\ (server.doing = "stopping" => server.asked # m),
         \A m \in Notifications : pc'[m] \in { "check", "start", "active" } =>
           pc[m] \in { "check", "start", "active" } \/ server.doing # "stopping"
  PROVE  IInv'
<1>1. server.asked \in Notifications \cup {User} /\ server.stopped_by \in Notifications \cup {User}
  BY DEF IInv, TypeInv, Server
<1>2. OneAtATime'
  BY DEF IInv, OneAtATime
<1>3. StopPending'
  BY <1>1 DEF IInv, StopPending, Reported
<1>4. LeftStopped'
  BY <1>1 DEF IInv, LeftStopped, Reported
<1> QED
  BY <1>2, <1>3, <1>4 DEF IInv

\* Steps that leave the recoveries alone.
LEMMA Around ==
  ASSUME IInv, UNCHANGED <<kind, status, last, pc, skipped>>, server' \in Server,
         server'.doing = "stopping" =>
           /\ server'.state \in { "active", "error" }
           /\ \/ server'.asked = User
              \/ server.doing = "stopping" /\ server'.asked = server.asked,
         server'.state = "stopped" =>
           \/ server'.stopped_by = User
           \/ server.state = "stopped" /\ server'.stopped_by = server.stopped_by
           \/ server.doing = "stopping" /\ server'.stopped_by = server.asked
  PROVE  IInv'
<1>1. TypeInv' /\ Working'
  BY DEF IInv, TypeInv, Working, AtWork
<1>2. \A m : Reported(m)' <=> Reported(m)
  BY DEF Reported
<1>3. OneAtATime'
  BY DEF OneAtATime
<1>4. StopPending'
  BY <1>2 DEF IInv, StopPending
<1>5. LeftStopped'
  BY <1>2 DEF IInv, LeftStopped, StopPending
<1> QED
  BY <1>1, <1>3, <1>4, <1>5 DEF IInv

-----------------------------------------------------------------------------
LEMMA Taking ==
  ASSUME IInv, NEW n \in Notifications, NEW by_rpc \in BOOLEAN, Take(n, by_rpc)
  PROVE  IInv'
<1> DEFINE first == FirstStep(kind[n])
           over  == first \in { "finished", "ignored" }
<1>0. TypeInv /\ Working /\ kind[n] \in AllKinds
  BY NovaFlowsAssumption DEF IInv, TypeInv
<1>1. /\ first \in { "get", "maintain", "finished", "ignored" }
      /\ first = "get" <=> kind[n] = "vm"
  BY <1>0 DEF FirstStep, AllKinds
<1>2. /\ status' = [status EXCEPT ![n] = IF over THEN first ELSE "running"]
      /\ pc' = [pc EXCEPT ![n] = IF over THEN "idle" ELSE first]
      /\ UNCHANGED <<kind, skipped, server>>
      /\ status[n] \in { "new", "error" } /\ pc[n] = "idle"
  BY DEF Take, nova
<1>3. last' \in [Notifications -> BOOLEAN]
  <2>1. last' = [last EXCEPT ![n] = ~by_rpc] /\ last \in [Notifications -> BOOLEAN]
    BY DEF Take, IInv, TypeInv
  <2> QED
    BY <2>1, Zenon
<1> HIDE DEF first
<1>4. TypeInv'
  BY <1>0, <1>1, <1>2, <1>3 DEF TypeInv, Verdicts, InstanceSteps, ProcessSteps
<1>5. Working'
  BY <1>0, <1>1, <1>2 DEF TypeInv, Working, AtWork, InstanceSteps, ProcessSteps
<1>6. \A m \in Notifications : Reported(m) => Reported(m)'
  BY <1>0, <1>1, <1>2 DEF TypeInv, Reported
<1>7. \A m \in Notifications : pc'[m] \in { "check", "start", "active" } => pc[m] \in { "check", "start", "active" }
  BY <1>0, <1>1, <1>2 DEF TypeInv
<1> QED
  BY <1>2, <1>4, <1>5, <1>6, <1>7, Beside

\* Steps in which a recovery of an instance goes on, and only looks at it.
LEMMA GoesOn ==
  ASSUME IInv, NEW n \in Notifications, pc[n] # "idle",
         NEW p \in InstanceSteps \cup ProcessSteps, p \in InstanceSteps <=> pc[n] \in InstanceSteps,
         p \in { "check", "start", "active" } => pc[n] \in { "check", "start", "active" } \/ server.doing # "stopping",
         Goto(n, p), UNCHANGED <<kind, last, server>>
  PROVE  IInv'
<1>1. TypeInv /\ Working /\ server' \in Server
  BY DEF IInv, TypeInv
<1>2. /\ TypeInv' /\ Working'
      /\ \A m \in Notifications : Reported(m) => Reported(m)'
      /\ \A m \in Notifications : pc'[m] = IF m = n THEN p ELSE pc[m]
  BY <1>1, Going
<1> QED
  BY <1>2, Beside

\* ... and in which it ends.
LEMMA GivesAVerdict ==
  ASSUME IInv, NEW n \in Notifications, pc[n] # "idle",
         NEW v \in { "error", "finished", "ignored" },
         v # "error" =>
           \/ pc[n] \in ProcessSteps
           \/ server.state # "stopped" /\ (server.doing = "stopping" => server.asked # n),
         Returns(n, v), UNCHANGED <<kind, last, server>>
  PROVE  IInv'
<1>1. TypeInv /\ Working /\ server' \in Server /\ AtWork(n)
  BY DEF IInv, TypeInv, Working
<1>2. /\ TypeInv' /\ Working'
      /\ \A m \in Notifications : (m # n \/ v = "error") /\ Reported(m) => Reported(m)'
      /\ \A m \in Notifications : pc'[m] = IF m = n THEN "idle" ELSE pc[m]
  BY <1>1, Returning
<1>3. pc[n] \in ProcessSteps => ~Reported(n)
  BY <1>1 DEF AtWork, Reported
<1> QED
  BY <1>2, <1>3, Beside

LEMMA IsSkipped ==
  ASSUME IInv, NEW n \in Notifications, pc[n] # "idle", Skips(n), UNCHANGED <<kind, last, server>>
  PROVE  IInv'
<1>1. TypeInv /\ Working /\ server' \in Server
  BY DEF IInv, TypeInv
<1>2. /\ TypeInv' /\ Working'
      /\ \A m \in Notifications : Reported(m) => Reported(m)'
      /\ \A m \in Notifications : pc'[m] = IF m = n THEN "idle" ELSE pc[m]
  BY <1>1, Skipping
<1> QED
  BY <1>2, Beside

\* the tasks of an instance that only look at it
LEMMA Looking ==
  ASSUME IInv, NEW n \in Notifications,
         Get(n) \/ GetAgain(n) \/ WaitForPowerOff(n) \/ Check(n) \/ WaitForActive(n)
  PROVE  IInv'
<1> USE DEF nova, InstanceSteps, ProcessSteps
<1>0. OneAtATime /\ StopPending
  BY DEF IInv
<1>1. CASE Get(n)
  <2>1. pc[n] = "get" /\ UNCHANGED <<kind, last, server>>
    BY <1>1 DEF Get
  <2>2. CASE Skips(n)
    BY <2>1, <2>2, IsSkipped
  <2>3. CASE Returns(n, "ignored") /\ server.state \in { "paused", "rescued" }
    BY <1>0, <2>1, <2>3, GivesAVerdict DEF OneAtATime
  <2>4. ASSUME NEW p \in { "power_off", "reset", "stop" }, Goto(n, p) PROVE IInv'
    BY <2>1, <2>4, GoesOn
  <2> QED
    BY <1>1, <2>2, <2>3, <2>4 DEF Get
<1>2. CASE GetAgain(n)
  <2>1. pc[n] = "conflict" /\ UNCHANGED <<kind, last, server>>
    BY <1>2 DEF GetAgain
  <2>2. CASE Goto(n, "power_off")
    BY <2>1, <2>2, GoesOn
  <2>3. CASE Returns(n, "error")
    BY <2>1, <2>3, GivesAVerdict
  <2> QED
    BY <1>2, <2>2, <2>3 DEF GetAgain, AfterConflict
<1>3. CASE WaitForPowerOff(n)
  <2>1. pc[n] = "power_off" /\ UNCHANGED <<kind, last, server>>
    BY <1>3 DEF WaitForPowerOff
  <2>2. CASE server.state = "stopped" /\ Goto(n, "check")
    BY <1>0, <2>1, <2>2, GoesOn DEF OneAtATime
  <2>3. CASE Returns(n, "error")
    BY <2>1, <2>3, GivesAVerdict
  <2> QED
    BY <1>3, <2>2, <2>3 DEF WaitForPowerOff, PollEnds
<1>4. CASE Check(n)
  <2>1. pc[n] = "check" /\ UNCHANGED <<kind, last, server>>
    BY <1>4 DEF Check
  <2>2. CASE Goto(n, "start")
    BY <2>1, <2>2, GoesOn
  <2>3. CASE Returns(n, "error")
    BY <2>1, <2>3, GivesAVerdict
  <2> QED
    BY <1>4, <2>2, <2>3 DEF Check
<1>5. CASE WaitForActive(n)
  <2>1. pc[n] = "active" /\ UNCHANGED <<kind, last, server>>
    BY <1>5 DEF WaitForActive
  <2>2. CASE server.state = "active" /\ Returns(n, "finished")
    <3>1. server.doing = "stopping" => server.asked # n
      <4>1. n # User
        BY NovaFlowsAssumption
      <4> QED
        BY <1>0, <2>1, <4>1 DEF StopPending
    <3> QED
      BY <2>1, <2>2, <3>1, GivesAVerdict
  <2>3. CASE Returns(n, "error")
    BY <2>1, <2>3, GivesAVerdict
  <2> QED
    BY <1>5, <2>2, <2>3 DEF WaitForActive, PollEnds
<1> QED
  BY <1>1, <1>2, <1>3, <1>4, <1>5

\* the steps of the tasks that ask nova for something
LEMMA Asking ==
  ASSUME IInv, NEW n \in Notifications, Reset(n) \/ Stop(n) \/ Start(n)
  PROVE  IInv'
<1> USE DEF InstanceSteps, ProcessSteps
<1>0. /\ TypeInv /\ Working /\ OneAtATime /\ StopPending /\ LeftStopped /\ AtWork(n)
      /\ server \in Server /\ n # User
  BY NovaFlowsAssumption DEF IInv, TypeInv, Working
<1>1. CASE Reset(n)
  <2>1. /\ pc[n] = "reset" /\ Goto(n, "stop") /\ UNCHANGED <<kind, last>>
        /\ server' = [server EXCEPT !.state = "active"]
    BY <1>1 DEF Reset
  <2>2. server' \in Server /\ server'.state = "active" /\ server'.doing = server.doing /\ server'.asked = server.asked
    BY <1>0, <2>1 DEF Server, VmStates
  <2>3. /\ TypeInv' /\ Working'
        /\ \A m \in Notifications : Reported(m) => Reported(m)'
        /\ \A m \in Notifications : pc'[m] = IF m = n THEN "stop" ELSE pc[m]
    BY <1>0, <2>1, <2>2, Going
  <2>4. server.asked \in Notifications \cup {User}
    BY <1>0 DEF Server
  <2>5. StopPending'
    BY <1>0, <2>2, <2>3, <2>4 DEF StopPending, Reported
  <2> QED
    BY <2>2, <2>3, <2>5 DEF IInv, OneAtATime, LeftStopped
<1>2. CASE Stop(n)
  <2>1. pc[n] = "stop" /\ UNCHANGED <<kind, last>>
    BY <1>2 DEF Stop
  <2>2. CASE UNCHANGED server /\ Goto(n, "conflict")
    BY <2>1, <2>2, GoesOn
  <2>3. CASE CanStop /\ Asked("stopping", n) /\ Goto(n, "power_off")
    <3>1. /\ server' = [server EXCEPT !.doing = "stopping", !.asked = n]
          /\ server.state \in { "active", "error" }
      BY <2>3 DEF Asked, CanStop
    <3>2. server' \in Server /\ server'.state = server.state /\ server'.asked = n
      BY <1>0, <3>1 DEF Server
    <3>3. /\ TypeInv' /\ Working'
          /\ \A m \in Notifications : Reported(m) => Reported(m)'
          /\ \A m \in Notifications : pc'[m] = IF m = n THEN "power_off" ELSE pc[m]
      BY <1>0, <2>1, <2>3, <3>2, Going
    <3>4. Reported(n)
      BY <1>0, <2>1 DEF AtWork, Reported
    <3>5. StopPending'
      BY <3>2, <3>3, <3>4 DEF StopPending, Reported
    <3> QED
      BY <3>1, <3>2, <3>3, <3>5 DEF IInv, OneAtATime, LeftStopped
  <2> QED
    BY <1>2, <2>2, <2>3 DEF Stop
<1>3. CASE Start(n)
  <2>1. pc[n] = "start" /\ UNCHANGED <<kind, last>>
    BY <1>3 DEF Start
  <2>2. CASE UNCHANGED server /\ Returns(n, "error")
    BY <2>1, <2>2, GivesAVerdict
  <2>3. CASE CanStart /\ Asked("starting", n) /\ Goto(n, "active")
    <3>1. server' = [server EXCEPT !.doing = "starting", !.asked = n]
      BY <2>3 DEF Asked
    <3>2. /\ server' \in Server /\ server'.doing = "starting"
          /\ server'.state = server.state /\ server'.stopped_by = server.stopped_by
      BY <1>0, <3>1 DEF Server
    <3>3. /\ TypeInv' /\ Working'
          /\ \A m \in Notifications : Reported(m) => Reported(m)'
      BY <1>0, <2>1, <2>3, <3>2, Going
    <3>4. server.stopped_by \in Notifications \cup {User}
      BY <1>0 DEF Server
    <3>5. LeftStopped'
      BY <1>0, <3>2, <3>3, <3>4 DEF LeftStopped, Reported
    <3> QED
      BY <3>2, <3>3, <3>5 DEF IInv, OneAtATime, StopPending
  <2> QED
    BY <1>3, <2>2, <2>3 DEF Start
<1> QED
  BY <1>1, <1>2, <1>3

\* the handler and the tasks of a process, and calls to nova that fail
LEMMA OfAProcess ==
  ASSUME IInv, NEW n \in Notifications,
         Maintain(n) \/ LookAtService(n) \/ Disable(n) \/ Confirm(n) \/ CallFails(n)
  PROVE  IInv'
<1> USE DEF nova, InstanceSteps, ProcessSteps
<1>1. CASE Maintain(n)
  <2>1. pc[n] = "maintain" /\ UNCHANGED <<kind, last, server>>
    BY <1>1 DEF Maintain
  <2>2. CASE Goto(n, "service")
    BY <2>1, <2>2, GoesOn
  <2>3. CASE Skips(n)
    BY <2>1, <2>3, IsSkipped
  <2> QED
    BY <1>1, <2>2, <2>3 DEF Maintain, ExecuteProcessFailure
<1>2. CASE LookAtService(n)
  <2>1. /\ pc[n] = "service" /\ UNCHANGED <<kind, last, server>>
        /\ \E p \in { "confirm", "disable" } : Goto(n, p)
    BY <1>2 DEF LookAtService
  <2> QED
    BY <2>1, GoesOn
<1>3. CASE Disable(n)
  <2>1. pc[n] = "disable" /\ UNCHANGED <<kind, last, server>> /\ Goto(n, "confirm")
    BY <1>3 DEF Disable
  <2> QED
    BY <2>1, GoesOn
<1>4. CASE Confirm(n)
  <2>1. /\ pc[n] = "confirm" /\ UNCHANGED <<kind, last, server>>
        /\ Returns(n, "finished") \/ Returns(n, "error")
    BY <1>4 DEF Confirm, PollEnds
  <2> QED
    BY <2>1, GivesAVerdict
<1>5. CASE CallFails(n)
  <2>1. pc[n] # "idle" /\ UNCHANGED <<kind, last, server>> /\ Returns(n, "error")
    BY <1>5 DEF CallFails
  <2> QED
    BY <2>1, GivesAVerdict
<1> QED
  BY <1>1, <1>2, <1>3, <1>4, <1>5

\* nova, users and operators
LEMMA Outside ==
  ASSUME IInv, Completes \/ GivesUp \/ UserActs \/ OperatorActs
  PROVE  IInv'
<1>0. OneAtATime /\ server \in Server
  BY DEF IInv, TypeInv
<1>1. CASE Completes
  <2>1. UNCHANGED <<kind, status, last, pc, skipped>>
    BY <1>1 DEF Completes
  <2>2. CASE /\ server.doing = "stopping"
             /\ server' = [server EXCEPT !.doing = "nothing", !.state = "stopped", !.stopped_by = server.asked]
    <3>1. server' \in Server /\ server'.doing = "nothing" /\ server'.stopped_by = server.asked
      BY <1>0, <2>2 DEF Server, VmStates
    <3> QED
      BY <2>1, <2>2, <3>1, Around
  <2>3. CASE server' = [server EXCEPT !.doing = "nothing", !.state = "active"]
    <3>1. server' \in Server /\ server'.doing = "nothing" /\ server'.state = "active"
      BY <1>0, <2>3 DEF Server, VmStates
    <3> QED
      BY <2>1, <3>1, Around
  <2> QED
    BY <1>1, <2>2, <2>3 DEF Completes
<1>2. CASE GivesUp
  <2>1. UNCHANGED <<kind, status, last, pc, skipped>>
    BY <1>2 DEF GivesUp
  <2>2. PICK state \in { server.state, "error" } : server' = [server EXCEPT !.doing = "nothing", !.state = state]
    BY <1>2 DEF GivesUp
  <2>3. /\ server' \in Server /\ server'.doing = "nothing" /\ server'.state = state
        /\ server'.stopped_by = server.stopped_by
    BY <1>0, <2>2 DEF Server, VmStates
  <2> QED
    BY <2>1, <2>3, Around
<1>3. CASE UserActs
  <2>1. UNCHANGED <<kind, status, last, pc, skipped>>
    BY <1>3 DEF UserActs
  <2>2. CASE UNCHANGED server
    BY <1>0, <2>1, <2>2, Around DEF OneAtATime
  <2>3. ASSUME NEW to \in VmStates, Idle, <<server.state, to>> \in UserChanges,
               server' = [server EXCEPT !.state = to]
        PROVE  IInv'
    <3>1. to # "stopped" /\ server.doing = "nothing"
      BY <2>3 DEF UserChanges, Idle
    <3>2. server' \in Server /\ server'.state = to /\ server'.doing = "nothing"
      BY <1>0, <2>3, <3>1 DEF Server
    <3> QED
      BY <2>1, <3>1, <3>2, Around
  <2>4. CASE CanStop /\ Asked("stopping", User)
    <3>1. /\ server' = [server EXCEPT !.doing = "stopping", !.asked = User]
          /\ server.state \in { "active", "error" }
      BY <2>4 DEF Asked, CanStop
    <3>2. server' \in Server /\ server'.state = server.state /\ server'.asked = User
      BY <1>0, <3>1 DEF Server
    <3> QED
      BY <2>1, <3>1, <3>2, Around
  <2>5. CASE CanStart /\ Asked("starting", User)
    <3>1. server' = [server EXCEPT !.doing = "starting", !.asked = User]
      BY <2>5 DEF Asked
    <3>2. /\ server' \in Server /\ server'.doing = "starting"
          /\ server'.state = server.state /\ server'.stopped_by = server.stopped_by
      BY <1>0, <3>1 DEF Server
    <3> QED
      BY <2>1, <3>2, Around
  <2> QED
    BY <1>3, <2>2, <2>3, <2>4, <2>5 DEF UserActs
<1>4. CASE OperatorActs
  <2>1. UNCHANGED <<kind, status, last, pc, skipped, server>>
    BY <1>4 DEF OperatorActs
  <2> QED
    BY <1>0, <2>1, Around DEF OneAtATime
<1> QED
  BY <1>1, <1>2, <1>3, <1>4

LEMMA NextIInv == IInv /\ [Next]_vars => IInv'
<1> SUFFICES ASSUME IInv, [Next]_vars PROVE IInv'
  OBVIOUS
<1>1. CASE UNCHANGED vars
  <2>1. UNCHANGED <<kind, status, last, pc, skipped, server>> /\ server \in Server /\ OneAtATime
    BY <1>1 DEF vars, IInv, TypeInv
  <2> QED
    BY <2>1, Around DEF OneAtATime
<1>2. ASSUME NEW n \in Notifications, Step(n) PROVE IInv'
  BY <1>2, Looking, Asking, OfAProcess DEF Step
<1> QED
  BY <1>1, <1>2, Taking, OfAProcess, Outside DEF Next

\* Whatever users, other recoveries and nova do in between, an instance that a
\* recovery stopped and that is still stopped has a notification at work,
\* waiting for its retry or FAILED, or it was skipped at its retry.
THEOREM StopsAreReported == Spec => []LeftStoppedIsReported
<1>1. IInv => LeftStoppedIsReported
  BY DEF IInv, LeftStopped, Reported, LeftStoppedIsReported
<1> QED
  BY <1>1, InitIInv, NextIInv, PTL DEF Spec
=============================================================================
