----------------------------- MODULE HostRecovery -----------------------------
(***************************************************************************)
(* Recovery of failed compute hosts inside one masakari-engine: the        *)
(* taskflow driver (execute_host_failure of engine/drivers/taskflow/       *)
(* driver.py) and the host failure flows (host_failure.py).                *)
(*                                                                         *)
(* Each failed host has one notification, and one engine thread at a time  *)
(* recovers it; threads of different hosts run concurrently.  They share   *)
(* the reserved hosts of the segment, the VM move rows and nova.           *)
(***************************************************************************)
EXTENDS Naturals, FiniteSets

CONSTANTS
  Failed,      \* the failed hosts, each with its notification
  Instances,   \* the instances on the failed hosts
  home,        \* the failed host each instance runs on
  Reserved,    \* the reserved hosts of the segment
  Elsewhere,   \* any other host the nova scheduler can choose
  Methods,     \* the recovery methods the segment can have
  Threads,     \* host_failure_recovery_threads
  Excluded,    \* those without HA_Enabled, unless evacuate_all_instances is set
  IgnoreErrors, \* ignore_instances_in_error_state
  MaxRuns,     \* how often the engine processes a notification: see AtMostOneRetry
  NovaAnswers, \* TRUE: the calls of _evacuate_and_confirm outside its try succeed
  NoHost       \* "no reserved host"

AllMethods == { "auto", "reserved_host", "auto_priority", "rh_priority" }

\* A run makes at most one attempt without and one with each reserved host.
Attempts == 1 .. MaxRuns * (1 + Cardinality(Reserved))
Moves    == Instances \X Attempts

ASSUME RecoveryAssumption ==
  /\ home \in [Instances -> Failed]
  /\ Methods \subseteq AllMethods /\ Methods # {}
  /\ Threads \in Nat \ {0} /\ MaxRuns \in Nat \ {0}
  /\ NovaAnswers \in BOOLEAN /\ IgnoreErrors \in BOOLEAN
  /\ IsFiniteSet(Reserved)
  /\ Elsewhere \notin Reserved \cup Failed /\ Reserved \cap Failed = {}
  /\ NoHost \notin Reserved

VARIABLES
  method,    \* recovery_method of the segment
  reserved,  \* the hosts whose reserved column says True
  vmove,     \* status of the VM move row of an instance, per attempt
  flow,      \* per failed host: the thread that recovers it, see Flow
  runs,      \* per failed host: how often recovery was begun
  verdict,   \* per failed host: what the driver told the engine last
  \* nova
  serving,   \* reserved hosts whose compute service is enabled
  place,     \* the host of each instance
  moving,    \* the host an instance is being rebuilt on, NoHost when it is not
  locker,    \* the VM move whose thread locked the instance, NoMove when none
  inError     \* the instances in vm_state error, followed if IgnoreErrors

vars == <<method, reserved, vmove, flow, runs, verdict, serving,
          place, moving, locker, inError>>
nova == <<serving, place, moving, locker, inError>>

NoMove  == <<>>
VStatus == { "absent", "pending", "ongoing", "succeeded", "failed" }
PCs     == { "idle", "disable", "prepare", "evacuate", "enable", "unreserve",
             "move", "raised" }
\* Why a flow failed: Skip*, ReservedHostsUnavailable, LockAlreadyAcquired,
\* failed VM moves, any other exception.
Errors  == { "skip", "unavailable", "lock", "moves", "failure" }
None    == "none"

\* kind and fellBack: the flow, and whether it is the second of a priority
\* method; list: reserved_host_list, read once by the engine; left: what the
\* retry of the flow has not tried; host: the reserved host of this attempt;
\* todo: the VM moves the attempt read whose thread has not ended.
Flow == [pc : PCs, kind : {"auto", "rh"}, fellBack : BOOLEAN,
         list : SUBSET Reserved, left : SUBSET Reserved,
         host : Reserved \cup {NoHost}, error : Errors \cup {None},
         attempt : 0 .. Cardinality(Attempts),
         todo : SUBSET Moves]

Idle(k) == [pc |-> "idle", kind |-> "auto", fellBack |-> FALSE, list |-> {},
            left |-> {}, host |-> NoHost, error |-> None, attempt |-> k,
            todo |-> {}]

Init ==
  /\ method \in Methods
  /\ reserved = Reserved
  /\ vmove = [v \in Moves |-> "absent"]
  /\ flow = [f \in Failed |-> Idle(0)]
  /\ runs = [f \in Failed |-> 0]
  /\ verdict = [f \in Failed |-> None]
  /\ serving = {}
  /\ place = home
  /\ moving = [i \in Instances |-> NoHost]
  /\ locker = [i \in Instances |-> NoMove]
  /\ inError \in IF IgnoreErrors THEN SUBSET Instances ELSE { {} }

-----------------------------------------------------------------------------
(* The driver: which flow runs. *)

Goto(f, p)  == flow' = [flow EXCEPT ![f].pc = p]
Raise(f, e) == flow' = [flow EXCEPT ![f].pc = "raised", ![f].error = e]

\* _execute_rh_workflow raises ReservedHostsUnavailable when the list is empty.
Entered(fl, k) ==
  IF k = "rh" /\ fl.list = {}
    THEN [fl EXCEPT !.pc = "raised", !.kind = k, !.left = {}, !.error = "unavailable"]
    ELSE [fl EXCEPT !.pc = "disable", !.kind = k, !.left = {}, !.host = NoHost,
                    !.error = None]

FirstFlow == IF method \in {"auto", "auto_priority"} THEN "auto" ELSE "rh"
OtherFlow == IF FirstFlow = "auto" THEN "rh" ELSE "auto"

\* The engine (re)processes the notification: it reads the reserved hosts and
\* calls the driver.  A retry follows an ERROR, nothing else.
Start(f) ==
  /\ flow[f].pc = "idle"
  /\ runs[f] < MaxRuns
  /\ verdict[f] \in {None, "error"}
  /\ runs' = [runs EXCEPT ![f] = @ + 1]
  /\ verdict' = [verdict EXCEPT ![f] = None]
  /\ LET list == IF method = "auto" THEN {} ELSE reserved
     IN  flow' = [flow EXCEPT ![f] =
                    Entered([Idle(flow[f].attempt) EXCEPT !.list = list], FirstFlow)]
  /\ UNCHANGED <<method, reserved, vmove, nova>>

\* mutant: a host whose evacuation failed stays in the list
LeftForever(f) == flow[f].left

\* what ParameterizedForEach has not tried, the host being tried excluded
Left(f) == flow[f].left \ {flow[f].host}

\* A failure of the main tasks of the reserved host flow is retried with the
\* next host of the list, whatever the failure was.
Retry(f) ==
  /\ flow[f].pc = "raised"
  /\ flow[f].kind = "rh"
  /\ \E r \in Left(f) :
       flow' = [flow EXCEPT ![f].pc = "prepare", ![f].host = r, ![f].left = Left(f),
                            ![f].error = None]
  /\ UNCHANGED <<method, reserved, vmove, runs, verdict, nova>>

Exhausted(f) == flow[f].pc = "raised" /\ (flow[f].kind = "rh" => Left(f) = {})

MayFallBack(f) ==
  /\ method \in {"auto_priority", "rh_priority"}
  /\ ~flow[f].fellBack
  /\ flow[f].error # "skip"

\* The priority methods run the other flow.
FallBack(f) ==
  /\ Exhausted(f)
  /\ MayFallBack(f)
  /\ flow' = [flow EXCEPT ![f] = [Entered(@, OtherFlow) EXCEPT !.fellBack = TRUE]]
  /\ UNCHANGED <<method, reserved, vmove, runs, verdict, nova>>

\* The exception reaches the engine: a skipped recovery is FINISHED.
Conclude(f) ==
  /\ Exhausted(f)
  /\ ~MayFallBack(f)
  /\ verdict' = [verdict EXCEPT ![f] =
                   IF flow[f].error = "skip" THEN "finished" ELSE "error"]
  /\ flow' = [flow EXCEPT ![f] = Idle(@.attempt)]
  /\ UNCHANGED <<method, reserved, vmove, runs, nova>>

-----------------------------------------------------------------------------
(* The tasks of the flows. *)

\* Nova or the database does not answer a task.
TaskFails(f) ==
  /\ flow[f].pc \in {"disable", "prepare", "enable", "unreserve"}
  /\ Raise(f, "failure")
  /\ UNCHANGED <<method, reserved, vmove, runs, verdict, nova>>

\* DisableComputeServiceTask (nothing here reads that flag of nova); then the
\* reserved host flow picks its first host.
Disable(f) ==
  /\ flow[f].pc = "disable"
  /\ IF flow[f].kind = "auto"
       THEN Goto(f, "prepare")
       ELSE \E r \in flow[f].list :
              flow' = [flow EXCEPT ![f].pc = "prepare", ![f].host = r,
                                   ![f].left = flow[f].list]
  /\ UNCHANGED <<method, reserved, vmove, runs, verdict, nova>>

On(f) == { i \in Instances : place[i] = f }

\* _filter_instances: what the configuration leaves to be evacuated
Considered(f) == On(f) \ (Excluded \cup inError)

\* PrepareHAEnabledInstancesTask: a PENDING row for every instance nova still
\* lists on the host, the excluded ones aside; none left, nothing to recover.
Prepare(f) ==
  /\ flow[f].pc = "prepare"
  /\ IF Considered(f) = {}
       THEN /\ Raise(f, "skip")
            /\ UNCHANGED vmove
       ELSE LET k == flow[f].attempt + 1 IN
            /\ vmove' = [v \in Moves |-> IF v[1] \in Considered(f) /\ v[2] = k
                                         THEN "pending" ELSE vmove[v]]
            /\ flow' = [flow EXCEPT ![f].pc = "evacuate", ![f].attempt = k]
  /\ UNCHANGED <<method, reserved, runs, verdict, nova>>

MovesOf(f)    == { v \in Moves : home[v[1]] = f }
InStatus(f, s) == { v \in MovesOf(f) : vmove[v] = s }

\* mutant: nobody holds a reserved host
TakenNever(f) == FALSE

\* Another thread of the engine is inside do_evacuate_with_reserved_host of
\* the same host (utils.synchronized, not blocking).
Taken(f) ==
  \E g \in Failed \ {f} : /\ flow[g].kind = "rh"
                          /\ flow[g].host = flow[f].host
                          /\ flow[g].pc \in {"enable", "unreserve", "move"}

\* EvacuateInstancesTask.execute reads the PENDING rows of the notification,
\* those of earlier attempts included, and locks the reserved host.
Evacuate(f) ==
  /\ flow[f].pc = "evacuate"
  /\ IF flow[f].kind = "rh" /\ Taken(f)
       THEN Raise(f, "lock")
       ELSE flow' = [flow EXCEPT
                       ![f].pc = IF flow[f].kind = "rh" THEN "enable" ELSE "move",
                       ![f].todo  = InStatus(f, "pending")]
  /\ UNCHANGED <<method, reserved, vmove, runs, verdict, nova>>

\* The compute service of the reserved host is enabled ...
Enable(f) ==
  /\ flow[f].pc = "enable"
  /\ serving' = serving \cup {flow[f].host}
  /\ Goto(f, "unreserve")
  /\ UNCHANGED <<method, reserved, vmove, runs, verdict, place, moving, locker, inError>>

\* mutant: the host stays reserved
UnreserveLate(f) ==
  /\ flow[f].pc = "unreserve"
  /\ Goto(f, "move")
  /\ UNCHANGED <<method, reserved, vmove, runs, verdict, nova>>

\* ... and update_host_method clears its reserved flag.
Unreserve(f) ==
  /\ flow[f].pc = "unreserve"
  /\ reserved' = reserved \ {flow[f].host}
  /\ Goto(f, "move")
  /\ UNCHANGED <<method, vmove, runs, verdict, nova>>

-----------------------------------------------------------------------------
(* _evacuate_and_confirm: one green thread per VM move. *)

InPool(f)  == { v \in flow[f].todo : vmove[v] = "ongoing" }
Waiting(f) == IF flow[f].pc = "move"
              THEN { v \in flow[f].todo : vmove[v] = "pending" } ELSE {}

\* reset_instance_state, or an evacuation that failed, may leave an instance
\* in error.
MayErr(i) == {inError} \cup IF IgnoreErrors THEN {inError \cup {i}} ELSE {}

\* The thread locks the instance, unless it is locked already, resets its state
\* if nova would refuse it, saves ONGOING and nova accepts the evacuation.
Begin(f, v) ==
  LET i == v[1] IN
  /\ v \in Waiting(f)
  /\ Cardinality(InPool(f)) < Threads
  /\ place[i] = f
  /\ locker' = IF locker[i] = NoMove THEN [locker EXCEPT ![i] = v] ELSE locker
  /\ vmove' = [vmove EXCEPT ![v] = "ongoing"]
  /\ \E h \in IF flow[f].kind = "rh" THEN {flow[f].host} ELSE {Elsewhere} \cup serving :
       moving' = [moving EXCEPT ![i] = h]
  /\ inError' \in MayErr(i)
  /\ UNCHANGED <<method, reserved, flow, runs, verdict, serving, place>>

\* mutant: the pool waits for a thread that has ended
EndedUncounted(f, v) == UNCHANGED flow

Ended(f, v) == flow' = [flow EXCEPT ![f].todo = @ \ {v}]

\* mutant: the lock on the instance is left behind
UnlockedNever(v) == locker

Unlocked(v) == IF locker[v[1]] = v THEN [locker EXCEPT ![v[1]] = NoMove] ELSE locker

\* Nova refuses the evacuation, or resetting the state fails: FAILED.  The
\* thread's lock on the instance is gone again when it ends.
Refused(f, v) ==
  /\ v \in Waiting(f)
  /\ Cardinality(InPool(f)) < Threads
  /\ vmove' = [vmove EXCEPT ![v] = "failed"]
  /\ Ended(f, v)
  /\ inError' \in MayErr(v[1])
  /\ UNCHANGED <<method, reserved, runs, verdict, serving, place, moving, locker>>

\* get_server or lock_server raises before the try block: the pool drops the
\* exception and the row stays PENDING.
ThreadDies(f, v) ==
  /\ ~NovaAnswers
  /\ v \in Waiting(f)
  /\ Cardinality(InPool(f)) < Threads
  /\ Ended(f, v)
  /\ UNCHANGED <<method, reserved, vmove, runs, verdict, nova>>

\* Nova shows the instance on another host: SUCCEEDED.
Confirm(f, v) ==
  /\ v \in InPool(f)
  /\ place[v[1]] # f
  /\ vmove' = [vmove EXCEPT ![v] = "succeeded"]
  /\ locker' = Unlocked(v)
  /\ Ended(f, v)
  /\ UNCHANGED <<method, reserved, runs, verdict, serving, place, moving, inError>>

\* Evacuation or the stop after it timed out, or the instance is in error.
GiveUp(f, v) ==
  /\ v \in InPool(f)
  /\ vmove' = [vmove EXCEPT ![v] = "failed"]
  /\ locker' = Unlocked(v)
  /\ Ended(f, v)
  /\ UNCHANGED <<method, reserved, runs, verdict, serving, place, moving, inError>>

\* mutant: FAILED rows are not looked for
JudgedNever(f) == {}

\* The rows the attempt is judged by: all of the notification.
Judged(f) == InStatus(f, "failed")

\* waitall returned: any FAILED row of the notification fails the flow.
Join(f) ==
  /\ flow[f].pc = "move"
  /\ flow[f].todo = {}
  /\ IF Judged(f) # {}
       THEN Raise(f, "moves") /\ UNCHANGED verdict
       ELSE /\ verdict' = [verdict EXCEPT ![f] = "finished"]
            /\ flow' = [flow EXCEPT ![f] = Idle(@.attempt)]
  /\ UNCHANGED <<method, reserved, vmove, runs, nova>>

-----------------------------------------------------------------------------
(* Nova, at its own pace: a rebuild can finish long after masakari gave up. *)

Rebuilt(i) ==
  /\ moving[i] # NoHost
  /\ place' = [place EXCEPT ![i] = moving[i]]
  /\ moving' = [moving EXCEPT ![i] = NoHost]
  /\ inError' = inError \ {i}
  /\ UNCHANGED <<method, reserved, vmove, flow, runs, verdict, serving, locker>>

RebuildFails(i) ==
  /\ moving[i] # NoHost
  /\ moving' = [moving EXCEPT ![i] = NoHost]
  /\ inError' \in MayErr(i)
  /\ UNCHANGED <<method, reserved, vmove, flow, runs, verdict, serving, place,
                 locker>>

-----------------------------------------------------------------------------
EngineStep(f) ==
  \/ Start(f) \/ Retry(f) \/ FallBack(f) \/ Conclude(f) \/ TaskFails(f)
  \/ Disable(f) \/ Prepare(f) \/ Evacuate(f) \/ Enable(f) \/ Unreserve(f) \/ Join(f)
  \/ \E v \in MovesOf(f) :
       Begin(f, v) \/ Refused(f, v) \/ ThreadDies(f, v) \/ Confirm(f, v) \/ GiveUp(f, v)

NovaStep == \E i \in Instances : Rebuilt(i) \/ RebuildFails(i)

Next == NovaStep \/ \E f \in Failed : EngineStep(f)

Spec == Init /\ [][Next]_vars

\* A thread goes on: every wait in the flows has a timeout.
FairSpec == Spec /\ \A f \in Failed : WF_vars(EngineStep(f))

-----------------------------------------------------------------------------
(* Properties *)

\* Every variable has its type; the type of a flow bounds its attempts: one
\* without and one with each reserved host in each run.
TypeOK ==
  /\ method \in AllMethods
  /\ reserved \in SUBSET Reserved
  /\ vmove \in [Moves -> VStatus]
  /\ flow \in [Failed -> Flow]
  /\ runs \in [Failed -> 0 .. MaxRuns]
  /\ verdict \in [Failed -> {None, "finished", "error"}]
  /\ serving \in SUBSET Reserved
  /\ place \in [Instances -> Failed \cup Reserved \cup {Elsewhere}]
  /\ moving \in [Instances -> Reserved \cup {Elsewhere, NoHost}]
  /\ locker \in [Instances -> Moves \cup {NoMove}]
  /\ inError \in SUBSET Instances

\* A FINISHED recovery left on the failed host no instance but those the
\* configuration excludes, however many attempts, reserved hosts and fallbacks
\* it took.  With ignore_instances_in_error_state an instance whose evacuation
\* failed may be one of these: the retry skips it.
FinishedMeansEvacuated ==
  \A f \in Failed : verdict[f] = "finished" => Considered(f) = {}

\* A host that is still offered as reserved holds no instance and none is
\* being rebuilt on it: the flag is cleared before the first evacuation.
ReservedHostsAreSpare ==
  \A i \in Instances : place[i] \notin reserved /\ moving[i] \notin reserved

\* Two recoveries never evacuate to the same reserved host at the same time.
OneRecoveryPerReservedHost ==
  \A f, g \in Failed :
    /\ f # g
    /\ InPool(f) # {} /\ InPool(g) # {}
    /\ flow[f].kind = "rh" /\ flow[g].kind = "rh"
    => flow[f].host # flow[g].host

\* No instance stays locked against its user once no thread evacuates it any
\* more, also when two threads of one attempt evacuated it.
NoInstanceStaysLocked ==
  \A i \in Instances : locker[i] # NoMove =>
    locker[i] \in flow[home[i]].todo /\ flow[home[i]].pc = "move"

\* Every recovery ends with a verdict, whatever locks it finds taken and
\* however often it is retried and falls back.
EveryRecoveryEnds ==
  \A f \in Failed : (flow[f].pc # "idle") ~> (flow[f].pc = "idle")
=============================================================================
