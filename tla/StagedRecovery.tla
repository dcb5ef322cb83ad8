---------------------------- MODULE StagedRecovery ----------------------------
(***************************************************************************)
(* Staged recovery of one failed host (engine/drivers/taskflow/            *)
(* staged_host_failure.py and staged_state_etcd.py): a workflow evacuates  *)
(* the instances to stopped and then starts those that were active.  How   *)
(* far each instance got is kept in etcd, so that another engine can go on *)
(* when one dies: _process_stale_staged_recoveries (engine/manager.py)     *)
(* sets a RUNNING notification to ERROR when etcd shows a step that was    *)
(* not updated for long, and the notification is retried.                  *)
(*                                                                         *)
(* NotificationEngine models the notification's row in full, HostRecovery  *)
(* the choice between flows, StartLimiter the number of start slots.       *)
(***************************************************************************)
EXTENDS Naturals, FiniteSets

CONSTANTS
  Instances,   \* the instances on the failed host
  Running,     \* those that were active when it failed
  Excluded,    \* those without HA_Enabled, unless evacuate_all_instances is set
  IgnoreErrors, \* ignore_instances_in_error_state
  Engines,     \* masakari-engine processes
  NoEngine,    \* "nobody"
  MaxRuns,     \* bound on how often the notification is processed
  MaxCrashes   \* bound on engine crashes

ASSUME StagedAssumption ==
  /\ Running \subseteq Instances /\ Instances # {}
  /\ NoEngine \notin Engines /\ IgnoreErrors \in BOOLEAN
  /\ MaxRuns \in Nat \ {0} /\ MaxCrashes \in Nat

VARIABLES
  status,    \* of the notification
  runs,      \* how often it was processed
  vmove,     \* status of the VM move row of an instance, per run
  \* etcd: the state record of each instance
  step,      \* how far it got
  original,  \* its vm_state when it was discovered
  writer,    \* the run that updated the record last
  slot,      \* the engine that holds its start slot
  \* nova
  place, vm, moving, starting,
  \* the engines
  flow,      \* per engine: the workflow it runs, see Flow
  crashes,
  overlapped \* history: two workflows ran at once

record == <<step, original, writer>>
nova   == <<place, vm, moving, starting>>
vars   == <<status, runs, vmove, record, slot, nova, flow, crashes, overlapped>>

Runs  == 1 .. MaxRuns
Moves == Instances \X Runs

Steps == { "absent", "discovered", "evacuating", "evacuated", "waiting", "starting",
           "active", "ignored", "failed" }
VStatus == { "absent", "pending", "ongoing", "succeeded", "failed" }

\* The steps list_stale_instance_states is asked for, and those a live
\* workflow can stay in for longer than stale_recovery_timeout (300 s):
\* nothing bounds the wait for a slot, and start_timeout is 900 s.
InProgress == { "evacuating", "waiting", "starting" }
Slow       == { "waiting", "starting" }

\* A workflow: the task it is in, its run, the instances the task has still to
\* do and, per instance, the VM move its thread works on and how far it is.
Flow == [pc : { "idle", "prepare", "reconcile", "evacuate", "start" },
         run : 0 .. MaxRuns, todo : SUBSET Instances,
         move : [Instances -> 0 .. MaxRuns],
         at : [Instances -> { "wait", "call", "poll", "record", "slot" }]]

NoMoves == [i \in Instances |-> 0]
AtStart == [i \in Instances |-> "wait"]
Idle    == [pc |-> "idle", run |-> 0, todo |-> {}, move |-> NoMoves, at |-> AtStart]

Live == { w \in Engines : flow[w].pc # "idle" }

Init ==
  /\ status = "new"
  /\ runs = 0
  /\ vmove = [v \in Moves |-> "absent"]
  /\ step = [i \in Instances |-> "absent"]
  /\ original = [i \in Instances |-> "none"]
  /\ writer = [i \in Instances |-> 0]
  /\ slot = [i \in Instances |-> NoEngine]
  /\ place = [i \in Instances |-> "source"]
  /\ vm = [i \in Instances |-> IF i \in Running THEN "active" ELSE "stopped"]
  /\ moving = [i \in Instances |-> FALSE]
  /\ starting = [i \in Instances |-> FALSE]
  /\ flow = [w \in Engines |-> Idle]
  /\ crashes = 0
  /\ overlapped = FALSE

-----------------------------------------------------------------------------
(* The workflow as a whole. *)

\* An engine processes the notification, or retries it after an ERROR; its
\* host lock keeps it from doing so twice at once, other engines have their own.
Enter(w) ==
  /\ flow[w].pc = "idle"
  /\ status \in {"new", "error"}
  /\ runs < MaxRuns
  /\ status' = "running"
  /\ runs' = runs + 1
  /\ flow' = [flow EXCEPT ![w] = [Idle EXCEPT !.pc = "prepare", !.run = runs + 1]]
  /\ overlapped' = (overlapped \/ Live # {})
  /\ UNCHANGED <<vmove, record, slot, nova, crashes>>

\* The verdict is saved over whatever the row says.
Conclude(w, verdict) ==
  /\ status' = verdict
  /\ flow' = [flow EXCEPT ![w] = Idle]

\* Nova, the database or etcd fails a task outside its threads.
TaskFails(w) ==
  /\ flow[w].pc # "idle"
  /\ flow[w].pc \in {"prepare", "reconcile"} \/ flow[w].todo = {}
  /\ Conclude(w, "error")
  /\ UNCHANGED <<runs, vmove, record, slot, nova, crashes, overlapped>>

\* the engine's process dies and comes back
Crash(w) ==
  /\ flow[w].pc # "idle"
  /\ crashes < MaxCrashes
  /\ crashes' = crashes + 1
  /\ flow' = [flow EXCEPT ![w] = Idle]
  /\ UNCHANGED <<status, runs, vmove, record, slot, nova, overlapped>>

\* A record nobody has updated for stale_recovery_timeout: that of a workflow
\* that is gone, or that waits.
Stale(i) ==
  /\ step[i] \in InProgress
  /\ step[i] \in Slow \/ \A w \in Live : flow[w].run # writer[i]

\* mutant: the reconciliation does not look for interrupted evacuations
StaleStartsOnly(i) == Stale(i) /\ step[i] \in Slow

Reconciled(i) == Stale(i)

\* _process_stale_staged_recoveries
ReconcileStale ==
  /\ status = "running"
  /\ \E i \in Instances : Reconciled(i)
  /\ status' = "error"
  /\ UNCHANGED <<runs, vmove, record, slot, nova, flow, crashes, overlapped>>

-----------------------------------------------------------------------------
(* The state records. *)

\* transition_instance_state, its result ignored by every caller
Transition(w, i, expected, new) ==
  IF step[i] \in expected
    THEN /\ step' = [step EXCEPT ![i] = new]
         /\ writer' = [writer EXCEPT ![i] = flow[w].run]
    ELSE UNCHANGED <<step, writer>>

\* update_instance_state, mark_failed
Update(w, i, new) ==
  /\ step' = [step EXCEPT ![i] = new]
  /\ writer' = [writer EXCEPT ![i] = flow[w].run]

\* mutant: the record is put, not created
OriginalNow(i) == vm[i]

\* create_or_get_instance_state keeps what was discovered first.
OriginalOf(i) == IF original[i] = "none" THEN vm[i] ELSE original[i]

Done(w, i) == [flow EXCEPT ![w].todo = @ \ {i}, ![w].at[i] = "wait"]

-----------------------------------------------------------------------------
(* The tasks before the threads. *)

\* _filter_instances: the instances on the host the configuration leaves to be
\* evacuated
Considered ==
  { i \in Instances \ Excluded :
      place[i] = "source" /\ ~(IgnoreErrors /\ vm[i] = "error") }

\* PrepareHAEnabledInstancesTask; none left ends the workflow, and
\* SkipHostRecoveryException means FINISHED.
Prepare(w) ==
  /\ flow[w].pc = "prepare"
  /\ IF Considered = {}
       THEN Conclude(w, "finished") /\ UNCHANGED vmove
       ELSE /\ vmove' = [v \in Moves |-> IF v[1] \in Considered /\ v[2] = flow[w].run
                                         THEN "pending" ELSE vmove[v]]
            /\ flow' = [flow EXCEPT ![w].pc = "reconcile",
                          ![w].todo = { v[1] : v \in { u \in Moves : vmove'[u] # "absent" } }]
            /\ UNCHANGED status
  /\ UNCHANGED <<runs, record, slot, nova, crashes, overlapped>>

\* What _reconcile_state_from_server concludes from nova: an instance that is
\* on another host is ACTIVE, EVACUATED_STOPPED or IGNORED.
Observed(i) ==
  IF place[i] = "source" \/ vm[i] = "error" THEN {}
  ELSE IF vm[i] = "active" THEN {"active"}
  ELSE IF OriginalOf(i) = "active" THEN {"evacuated"} ELSE {"ignored"}

\* ReconcileStagedRecoveryTask, one VM move after the other.  A record whose
\* step stays is still written when nova's vm_state differs from it.
Reconcile(w, i) ==
  /\ flow[w].pc = "reconcile"
  /\ i \in flow[w].todo
  /\ original' = [original EXCEPT ![i] = OriginalOf(i)]
  /\ IF Observed(i) # {}
       THEN \E s \in Observed(i) : Update(w, i, s)
       ELSE \/ Transition(w, i, {"absent"}, "discovered")
            \/ step[i] # "absent" /\ Update(w, i, step[i])
  /\ flow' = Done(w, i)
  /\ UNCHANGED <<status, runs, vmove, slot, nova, crashes, overlapped>>

\* _get_target_vmoves: one row per instance, an ONGOING one rather than a
\* PENDING one.
InStatus(i, s) == { k \in Runs : vmove[i, k] = s }
Targets(i) == IF InStatus(i, "ongoing") # {} THEN InStatus(i, "ongoing") ELSE InStatus(i, "pending")

StartEvacuation(w) ==
  /\ flow[w].pc = "reconcile"
  /\ flow[w].todo = {}
  /\ \E move \in [Instances -> 0 .. MaxRuns] :
       /\ \A i \in Instances : move[i] \in IF Targets(i) # {} THEN Targets(i) ELSE {0}
       /\ flow' = [flow EXCEPT ![w].pc = "evacuate", ![w].move = move,
                               ![w].todo = { i \in Instances : move[i] # 0 }]
  /\ UNCHANGED <<status, runs, vmove, record, slot, nova, crashes, overlapped>>

-----------------------------------------------------------------------------
(* EvacuateToStoppedTask: _evacuate_and_confirm, a green thread per row. *)

Thread(w, i, task, p) ==
  /\ flow[w].pc = task
  /\ i \in flow[w].todo
  /\ flow[w].at[i] = p

Row(w, i) == <<i, flow[w].move[i]>>

\* mutant: what was started or is to be left stopped is evacuated again
FurtherIfEvacuated == { "evacuated" }

Further == { "evacuated", "active", "ignored" }

\* The record says the instance is past evacuation: the thread returns.
SkipEvacuation(w, i) ==
  /\ Thread(w, i, "evacuate", "wait")
  /\ step[i] \in Further
  /\ flow' = Done(w, i)
  /\ UNCHANGED <<status, runs, vmove, record, slot, nova, crashes, overlapped>>

\* The record is created if the reconciliation did not see the row; an instance
\* nova is busy with is reset to ERROR first.
BeginEvacuation(w, i) ==
  /\ Thread(w, i, "evacuate", "wait")
  /\ step[i] \notin Further
  /\ \E s \in IF place[i] = "source" \/ starting[i] THEN {vm[i], "error"} ELSE {vm[i]} :
       vm' = [vm EXCEPT ![i] = s]
  /\ original' = [original EXCEPT ![i] = OriginalOf(i)]
  /\ Transition(w, i, {"absent", "discovered", "evacuating"}, "evacuating")
  /\ vmove' = [vmove EXCEPT ![Row(w, i)] = "ongoing"]
  /\ flow' = [flow EXCEPT ![w].at[i] = "call"]
  /\ UNCHANGED <<status, runs, slot, place, moving, starting, crashes, overlapped>>

\* Nova evacuates an instance of a host that is down, once at a time.
Evacuable(i) == place[i] = "source" /\ ~moving[i]

CallEvacuate(w, i) ==
  /\ Thread(w, i, "evacuate", "call")
  /\ Evacuable(i)
  /\ moving' = [moving EXCEPT ![i] = TRUE]
  /\ flow' = [flow EXCEPT ![w].at[i] = "poll"]
  /\ UNCHANGED <<status, runs, vmove, record, slot, place, vm, starting, crashes, overlapped>>

ConfirmEvacuation(w, i) ==
  /\ Thread(w, i, "evacuate", "poll")
  /\ place[i] = "dest" /\ vm[i] \in {"stopped", "active"}
  /\ vmove' = [vmove EXCEPT ![Row(w, i)] = "succeeded"]
  /\ flow' = [flow EXCEPT ![w].at[i] = "record"]
  /\ UNCHANGED <<status, runs, record, slot, nova, crashes, overlapped>>

RecordEvacuation(w, i) ==
  /\ Thread(w, i, "evacuate", "record")
  /\ Update(w, i, IF vm[i] = "active" THEN "active" ELSE "evacuated")
  /\ flow' = Done(w, i)
  /\ UNCHANGED <<status, runs, vmove, original, slot, nova, crashes, overlapped>>

\* Nova refused, the evacuation failed or took too long, or a record could not
\* be written; mark_failed may fail too.
FailEvacuation(w, i) ==
  /\ \E p \in {"call", "poll", "record"} : Thread(w, i, "evacuate", p)
  /\ vmove' = [vmove EXCEPT ![Row(w, i)] = "failed"]
  /\ Update(w, i, "failed") \/ UNCHANGED <<step, writer>>
  /\ flow' = Done(w, i)
  /\ UNCHANGED <<status, runs, original, slot, nova, crashes, overlapped>>

\* A call before the try block or one in the handler raises: spawn_n drops it.
EvacuationDies(w, i) ==
  /\ \E p \in {"wait", "call", "poll", "record"} : Thread(w, i, "evacuate", p)
  /\ flow' = Done(w, i)
  /\ UNCHANGED <<status, runs, vmove, record, slot, nova, crashes, overlapped>>

\* mutant: FAILED rows are not looked for
FailedNever == {}

FailedMoves == { v \in Moves : vmove[v] = "failed" }

\* mutant: start_only_originally_active is not respected
ToStartAll(i) == step[i] = "evacuated"

\* what BatchedStartInstancesTask starts, and what it ignores
ToStart(i)  == step[i] = "evacuated" /\ original[i] = "active"
ToIgnore(i) == step[i] = "evacuated" /\ ~ToStart(i)

\* waitall returned; the next task lists the records.
StartInstances(w) ==
  /\ flow[w].pc = "evacuate"
  /\ flow[w].todo = {}
  /\ IF FailedMoves # {}
       THEN Conclude(w, "error") /\ UNCHANGED <<step, writer>>
       ELSE /\ step' = [i \in Instances |-> IF ToIgnore(i) THEN "ignored" ELSE step[i]]
            /\ writer' = [i \in Instances |-> IF ToIgnore(i) THEN flow[w].run ELSE writer[i]]
            /\ flow' = [flow EXCEPT ![w].pc = "start",
                                    ![w].todo = { i \in Instances : ToStart(i) }]
            /\ UNCHANGED status
  /\ UNCHANGED <<runs, vmove, original, slot, nova, crashes, overlapped>>

-----------------------------------------------------------------------------
(* BatchedStartInstancesTask: _start_one, a green thread per instance. *)

WaitForSlot(w, i) ==
  /\ Thread(w, i, "start", "wait")
  /\ Transition(w, i, {"evacuated", "waiting"}, "waiting")
  /\ flow' = [flow EXCEPT ![w].at[i] = "slot"]
  /\ UNCHANGED <<status, runs, vmove, original, slot, nova, crashes, overlapped>>

GetSlot(w, i) ==
  /\ Thread(w, i, "start", "slot")
  /\ slot[i] = NoEngine
  /\ slot' = [slot EXCEPT ![i] = w]
  /\ Transition(w, i, {"waiting"}, "starting")
  /\ flow' = [flow EXCEPT ![w].at[i] = "call"]
  /\ UNCHANGED <<status, runs, vmove, original, nova, crashes, overlapped>>

\* Nova starts a stopped instance; for any other it raises Conflict.
CallStart(w, i) ==
  /\ Thread(w, i, "start", "call")
  /\ vm[i] = "stopped" /\ ~starting[i]
  /\ starting' = [starting EXCEPT ![i] = TRUE]
  /\ flow' = [flow EXCEPT ![w].at[i] = "poll"]
  /\ UNCHANGED <<status, runs, vmove, record, slot, place, vm, moving, crashes, overlapped>>

ConfirmStart(w, i) ==
  /\ Thread(w, i, "start", "poll")
  /\ vm[i] = "active"
  /\ Update(w, i, "active")
  /\ slot' = [slot EXCEPT ![i] = NoEngine]
  /\ flow' = Done(w, i)
  /\ UNCHANGED <<status, runs, vmove, original, nova, crashes, overlapped>>

\* Etcd, the limiter or nova raises, nova reports ERROR or start_timeout is
\* over; mark_failed may fail too.
FailStart(w, i) ==
  /\ \E p \in {"wait", "slot", "call", "poll"} : Thread(w, i, "start", p)
  /\ Update(w, i, "failed") \/ UNCHANGED <<step, writer>>
  /\ slot' = [slot EXCEPT ![i] = IF flow[w].at[i] \in {"wait", "slot"} THEN @ ELSE NoEngine]
  /\ flow' = Done(w, i)
  /\ UNCHANGED <<status, runs, vmove, original, nova, crashes, overlapped>>

Finish(w) ==
  /\ flow[w].pc = "start"
  /\ flow[w].todo = {}
  /\ Conclude(w, IF \E i \in Instances : original[i] = "active" /\ step[i] = "failed"
                 THEN "error" ELSE "finished")
  /\ UNCHANGED <<runs, vmove, record, slot, nova, crashes, overlapped>>

\* The TTL of a slot ends after its holder died.
ExpireSlot(i) ==
  /\ slot[i] # NoEngine
  /\ \A p \in {"call", "poll"} : ~Thread(slot[i], i, "start", p)
  /\ slot' = [slot EXCEPT ![i] = NoEngine]
  /\ UNCHANGED <<status, runs, vmove, record, nova, flow, crashes, overlapped>>

-----------------------------------------------------------------------------
(* Nova, at its own pace: from microversion 2.95 on an evacuated instance is *)
(* stopped; an evacuation that fails leaves it in error or as it was.      *)

Evacuated(i) ==
  /\ moving[i]
  /\ moving' = [moving EXCEPT ![i] = FALSE]
  /\ \/ place' = [place EXCEPT ![i] = "dest"] /\ vm' = [vm EXCEPT ![i] = "stopped"]
     \/ UNCHANGED place /\ \E s \in {vm[i], "error"} : vm' = [vm EXCEPT ![i] = s]
  /\ UNCHANGED <<status, runs, vmove, record, slot, starting, flow, crashes, overlapped>>

Started(i) ==
  /\ starting[i]
  /\ starting' = [starting EXCEPT ![i] = FALSE]
  /\ \E s \in {"active", "error"} : vm' = [vm EXCEPT ![i] = s]
  /\ UNCHANGED <<status, runs, vmove, record, slot, place, moving, flow, crashes, overlapped>>

-----------------------------------------------------------------------------
WorkflowStep(w) ==
  \/ TaskFails(w) \/ Prepare(w) \/ StartEvacuation(w) \/ StartInstances(w) \/ Finish(w)
  \/ \E i \in Instances :
       \/ Reconcile(w, i)
       \/ SkipEvacuation(w, i) \/ BeginEvacuation(w, i) \/ CallEvacuate(w, i)
       \/ ConfirmEvacuation(w, i) \/ RecordEvacuation(w, i)
       \/ FailEvacuation(w, i) \/ EvacuationDies(w, i)
       \/ WaitForSlot(w, i) \/ GetSlot(w, i) \/ CallStart(w, i)
       \/ ConfirmStart(w, i) \/ FailStart(w, i)

Next ==
  \/ \E w \in Engines : Enter(w) \/ WorkflowStep(w) \/ Crash(w)
  \/ ReconcileStale
  \/ \E i \in Instances : ExpireSlot(i) \/ Evacuated(i) \/ Started(i)

Spec == Init /\ [][Next]_vars

\* Workflows go on, every wait in them has a timeout; the periodic tasks come
\* round again and leases expire.
FairSpec ==
  /\ Spec
  /\ \A w \in Engines : WF_vars(WorkflowStep(w))
  /\ WF_vars(\E w \in Engines : Enter(w))
  /\ WF_vars(ReconcileStale)
  /\ \A i \in Instances : WF_vars(ExpireSlot(i))

-----------------------------------------------------------------------------
(* Properties *)

TypeOK ==
  /\ status \in { "new", "running", "finished", "error" }
  /\ runs \in 0 .. MaxRuns
  /\ vmove \in [Moves -> VStatus]
  /\ step \in [Instances -> Steps]
  /\ original \in [Instances -> { "none", "active", "stopped", "error" }]
  /\ writer \in [Instances -> 0 .. MaxRuns]
  /\ slot \in [Instances -> Engines \cup {NoEngine}]
  /\ place \in [Instances -> { "source", "dest" }]
  /\ vm \in [Instances -> { "active", "stopped", "error" }]
  /\ moving \in [Instances -> BOOLEAN]
  /\ starting \in [Instances -> BOOLEAN]
  /\ flow \in [Engines -> Flow]
  /\ crashes \in 0 .. MaxCrashes
  /\ overlapped \in BOOLEAN

\* The record remembers what the instance was before the failure, whoever
\* discovers it again after whatever nova did to it meanwhile.
OriginalIsKept ==
  \A i \in Instances : original[i] # "none" =>
    original[i] = IF i \in Running THEN "active" ELSE "stopped"

\* Nothing is started that was stopped before the failure, or that has not
\* left the failed host.
StartsAreSafe ==
  \A i \in Instances :
    /\ starting[i] => place[i] = "dest"
    /\ starting[i] \/ (vm[i] = "active" /\ place[i] = "dest") => i \in Running

\* An evacuation that is known to have failed is not passed over, unless two
\* workflows ran at once: the notification may be FINISHED only when nothing is
\* left on the failed host but what the configuration excludes.  (With
\* ignore_instances_in_error_state that may be the very instance whose
\* evacuation failed.)
NoFailedMoveIsForgotten ==
  status = "finished" /\ ~overlapped =>
    Considered = {} \/ \A v \in Moves : vmove[v] # "failed"

\* A workflow that goes on where another stopped never turns what that one
\* achieved into a failure, provided they did not run at once.
AchievedStaysAchieved ==
  [][\A i \in Instances :
       ~overlapped /\ step[i] \in {"active", "ignored"} => step'[i] # "failed"]_vars

\* A workflow that died in the middle of a step does not leave its
\* notification RUNNING for ever.
InterruptedIsRetried ==
  (status = "running" /\ Live = {} /\ \E i \in Instances : step[i] \in InProgress)
    ~> (status # "running")

\* Nor is an instance that was active and whose record says FAILED.
NoInstanceIsForgotten ==
  status = "finished" => \A i \in Instances : original[i] = "active" => step[i] # "failed"

\* There is one workflow at a time for a notification.
OneWorkflowAtATime == Cardinality(Live) <= 1
=============================================================================
