------------------------- MODULE StagedRecoveryProofs -------------------------
(***************************************************************************)
(* Theorems about StagedRecovery, for every number of instances, engines,  *)
(* runs of the workflow and crashes: what the records in etcd say of an    *)
(* instance's state before the failure is right, and nothing is started    *)
(* that was stopped before it or that is still on the failed host.         *)
(*                                                                         *)
(* The argument: nothing happens to an instance before its record exists   *)
(* (Untouched), so the vm_state recorded first is the one before the       *)
(* failure (Kept), and create keeps it; a record says EVACUATED_STOPPED    *)
(* only of an instance that left the host (Placed, Recorded), and no       *)
(* instance goes back; so whatever a thread is to start left the host and  *)
(* was active (Chosen).                                                    *)
(*                                                                         *)
(* Of workflows that run in turn: no thread works on an instance whose     *)
(* record says it is done (Unachieved), the workflow that starts instances *)
(* has found no failed move (NoneFailed), and a FINISHED notification has  *)
(* no workflow left that could make one (Settled).                         *)
(***************************************************************************)
EXTENDS StagedRecovery, StartLimiter, FiniteSetTheorems, TLAPS

USE StagedAssumption

Was(i) == IF i \in Running THEN "active" ELSE "stopped"

Kept == \A i \in Instances : original[i] \in {"none", Was(i)}

Untouched ==
  \A i \in Instances : original[i] = "none" =>
    /\ vm[i] = Was(i) /\ ~moving[i] /\ ~starting[i]
    /\ \A w \in Engines : flow[w].at[i] = "wait"

Chosen ==
  \A w \in Engines, i \in Instances :
    flow[w].pc = "start" /\ i \in flow[w].todo => original[i] = "active" /\ place[i] = "dest"

Placed == \A i \in Instances : step[i] = "evacuated" => place[i] = "dest"

Recorded == \A w \in Engines, i \in Instances : flow[w].at[i] = "record" => place[i] = "dest"

\* The inductive invariant.
IInv == TypeOK /\ Kept /\ Untouched /\ Chosen /\ Placed /\ Recorded /\ StartsAreSafe

-----------------------------------------------------------------------------
LEMMA IdleType == Idle \in Flow /\ Idle.todo = {} /\ \A i \in Instances : Idle.at[i] = "wait"
BY DEF Idle, Flow, NoMoves, AtStart

LEMMA NoMovesType == NoMoves \in [Instances -> 0 .. MaxRuns]
BY DEF NoMoves

LEMMA InitIInv == Init => IInv
<1> SUFFICES ASSUME Init PROVE IInv
  OBVIOUS
<1>1. vmove \in [Moves -> VStatus] /\ step \in [Instances -> Steps]
  BY DEF Init, VStatus, Steps
<1>2. flow \in [Engines -> Flow]
  BY IdleType DEF Init
<1>3. /\ original \in [Instances -> { "none", "active", "stopped", "error" }]
      /\ slot \in [Instances -> Engines \cup {NoEngine}]
      /\ place \in [Instances -> { "source", "dest" }]
      /\ vm \in [Instances -> { "active", "stopped", "error" }]
  BY DEF Init
<1>4. /\ writer \in [Instances -> 0 .. MaxRuns]
      /\ runs \in 0 .. MaxRuns /\ crashes \in 0 .. MaxCrashes
      /\ status \in { "new", "running", "finished", "error" }
  BY DEF Init
<1>5. /\ moving \in [Instances -> BOOLEAN] /\ starting \in [Instances -> BOOLEAN]
      /\ overlapped \in BOOLEAN
  BY Zenon DEF Init
<1>6. TypeOK
  BY <1>1, <1>2, <1>3, <1>4, <1>5 DEF TypeOK
<1>7. Kept /\ Placed /\ StartsAreSafe
  BY DEF Init, Kept, Placed, StartsAreSafe
<1>8. \A w \in Engines, i \in Instances : flow[w].at[i] = "wait" /\ flow[w].todo = {}
  BY IdleType DEF Init
<1>9. Untouched /\ Chosen /\ Recorded
  BY <1>8 DEF Init, Untouched, Was, Chosen, Recorded
<1> QED
  BY <1>6, <1>7, <1>9 DEF IInv

-----------------------------------------------------------------------------
(* What the steps do to the workflows. *)

\* a thread goes on to its next call
LEMMA AtType ==
  ASSUME TypeOK, NEW w \in Engines, NEW i \in Instances,
         NEW p \in { "wait", "call", "poll", "record", "slot" },
         flow' = [flow EXCEPT ![w].at[i] = p]
  PROVE  /\ flow' \in [Engines -> Flow]
         /\ \A u \in Engines : flow'[u].pc = flow[u].pc /\ flow'[u].todo = flow[u].todo
         /\ flow'[w].at[i] = p
         /\ \A u \in Engines, j \in Instances :
              u # w \/ j # i => flow'[u].at[j] = flow[u].at[j]
<1>1. flow[w] \in Flow /\ flow \in [Engines -> Flow]
  BY DEF TypeOK
<1> DEFINE fl == [flow[w] EXCEPT !.at[i] = p]
<1>2. /\ fl \in Flow /\ fl.pc = flow[w].pc /\ fl.todo = flow[w].todo /\ fl.at[i] = p
      /\ \A j \in Instances \ {i} : fl.at[j] = flow[w].at[j]
  BY <1>1 DEF Flow
<1>3. flow' = [flow EXCEPT ![w] = fl]
  OBVIOUS
<1> QED
  BY <1>1, <1>2, <1>3

\* a thread ends
LEMMA DoneType ==
  ASSUME TypeOK, NEW w \in Engines, NEW i \in Instances, flow' = Done(w, i)
  PROVE  /\ flow' \in [Engines -> Flow]
         /\ \A u \in Engines : flow'[u].pc = flow[u].pc /\ flow'[u].todo \subseteq flow[u].todo
         /\ \A u \in Engines, j \in Instances : flow'[u].at[j] \in {flow[u].at[j], "wait"}
<1>1. flow[w] \in Flow /\ flow \in [Engines -> Flow]
  BY DEF TypeOK
<1> DEFINE fl == [flow[w] EXCEPT !.todo = @ \ {i}, !.at[i] = "wait"]
<1>2. /\ fl \in Flow /\ fl.pc = flow[w].pc /\ fl.todo = flow[w].todo \ {i} /\ fl.at[i] = "wait"
      /\ \A j \in Instances \ {i} : fl.at[j] = flow[w].at[j]
  BY <1>1 DEF Flow
<1>3. flow' = [flow EXCEPT ![w] = fl]
  BY DEF Done
<1> QED
  BY <1>1, <1>2, <1>3

\* the workflow is over, or dead
LEMMA IdleAgain ==
  ASSUME TypeOK, NEW w \in Engines, flow' = [flow EXCEPT ![w] = Idle]
  PROVE  /\ flow' \in [Engines -> Flow]
         /\ flow'[w].todo = {} /\ \A j \in Instances : flow'[w].at[j] = "wait"
         /\ \A u \in Engines \ {w} : flow'[u] = flow[u]
BY IdleType DEF TypeOK

\* the workflow enters its next task
LEMMA TaskType ==
  ASSUME TypeOK, NEW w \in Engines, NEW p \in { "reconcile", "evacuate", "start" },
         NEW T \in SUBSET Instances, NEW move \in [Instances -> 0 .. MaxRuns],
         \/ flow' = [flow EXCEPT ![w].pc = p, ![w].todo = T]
         \/ flow' = [flow EXCEPT ![w].pc = p, ![w].move = move, ![w].todo = T]
  PROVE  /\ flow' \in [Engines -> Flow]
         /\ flow'[w].pc = p /\ flow'[w].todo = T /\ flow'[w].at = flow[w].at
         /\ \A u \in Engines \ {w} : flow'[u] = flow[u]
<1>1. flow[w] \in Flow /\ flow \in [Engines -> Flow]
  BY DEF TypeOK
<1> DEFINE f1 == [flow[w] EXCEPT !.pc = p, !.todo = T]
           f2 == [flow[w] EXCEPT !.pc = p, !.move = move, !.todo = T]
<1>2. f1 \in Flow /\ f1.pc = p /\ f1.todo = T /\ f1.at = flow[w].at
  BY <1>1 DEF Flow
<1>3. f2 \in Flow /\ f2.pc = p /\ f2.todo = T /\ f2.at = flow[w].at
  BY <1>1 DEF Flow
<1>4. flow' = [flow EXCEPT ![w] = f1] \/ flow' = [flow EXCEPT ![w] = f2]
  OBVIOUS
<1> HIDE DEF f1, f2
<1> QED
  BY <1>1, <1>2, <1>3, <1>4

-----------------------------------------------------------------------------
(* TypeOK *)

\* the types of what is not Boolean and not a workflow
LEMMA RecordType ==
  ASSUME TypeOK, NEW w \in Engines, NEW i \in Instances, NEW s \in Steps, NEW e,
         Transition(w, i, e, s) \/ Update(w, i, s)
  PROVE  /\ step' \in [Instances -> Steps] /\ writer' \in [Instances -> 0 .. MaxRuns]
         /\ step'[i] \in {step[i], s} /\ \A j \in Instances \ {i} : step'[j] = step[j]
<1>1. flow[w].run \in 0 .. MaxRuns
  BY DEF TypeOK, Flow
<1> QED
  BY <1>1 DEF TypeOK, Transition, Update

LEMMA OriginalType ==
  ASSUME TypeOK, NEW i \in Instances,
         original' = [original EXCEPT ![i] = OriginalOf(i)]
  PROVE  /\ original' \in [Instances -> { "none", "active", "stopped", "error" }]
         /\ original'[i] = IF original[i] = "none" THEN vm[i] ELSE original[i]
         /\ original'[i] # "none"
         /\ \A j \in Instances \ {i} : original'[j] = original[j]
BY DEF TypeOK, OriginalOf

LEMMA MoveType ==
  ASSUME TypeOK, NEW r, NEW s \in VStatus, vmove' = [vmove EXCEPT ![r] = s]
  PROVE  vmove' \in [Moves -> VStatus]
BY DEF TypeOK

\* the workflow as a whole
LEMMA WorkflowType ==
  ASSUME TypeOK, NEW w \in Engines,
         Enter(w) \/ TaskFails(w) \/ Crash(w) \/ Prepare(w) \/ StartEvacuation(w)
           \/ StartInstances(w) \/ Finish(w)
  PROVE  TypeOK'
<1> USE DEF TypeOK, record, nova
<1>1. CASE Enter(w)
  <2>1. runs + 1 \in 0 .. MaxRuns
    BY <1>1 DEF Enter
  <2>2. [Idle EXCEPT !.pc = "prepare", !.run = runs + 1] \in Flow
    BY <2>1, IdleType DEF Flow
  <2>3. flow' \in [Engines -> Flow]
    BY <1>1, <2>2 DEF Enter
  <2>4. overlapped' \in BOOLEAN
    BY <1>1, Zenon DEF Enter
  <2> QED
    BY <1>1, <2>1, <2>3, <2>4 DEF Enter
<1>2. CASE TaskFails(w)
  BY <1>2, IdleAgain DEF TaskFails, Conclude
<1>3. CASE Crash(w)
  <2>1. crashes' \in 0 .. MaxCrashes
    BY <1>3 DEF Crash
  <2> QED
    BY <1>3, <2>1, IdleAgain DEF Crash
<1>4. CASE Prepare(w)
  <2>1. CASE Considered = {}
    BY <1>4, <2>1, IdleAgain DEF Prepare, Conclude
  <2>2. CASE Considered # {}
    <3>1. vmove' \in [Moves -> VStatus]
      BY <1>4, <2>2 DEF Prepare, VStatus
    <3> DEFINE T == { v[1] : v \in { u \in Moves : vmove'[u] # "absent" } }
    <3>2. T \in SUBSET Instances
      BY DEF Moves
    <3>3. flow' = [flow EXCEPT ![w].pc = "reconcile", ![w].todo = T]
      BY <1>4, <2>2 DEF Prepare
    <3>4. flow' \in [Engines -> Flow]
      BY <3>2, <3>3, TaskType, NoMovesType
    <3> QED
      BY <1>4, <2>2, <3>1, <3>4 DEF Prepare
  <2> QED
    BY <2>1, <2>2
<1>5. CASE StartEvacuation(w)
  <2>1. PICK move \in [Instances -> 0 .. MaxRuns] :
          flow' = [flow EXCEPT ![w].pc = "evacuate", ![w].move = move,
                               ![w].todo = { i \in Instances : move[i] # 0 }]
    BY <1>5 DEF StartEvacuation
  <2>2. { i \in Instances : move[i] # 0 } \in SUBSET Instances
    OBVIOUS
  <2>3. flow' \in [Engines -> Flow]
    BY <2>1, <2>2, TaskType
  <2> QED
    BY <1>5, <2>3 DEF StartEvacuation
<1>6. CASE StartInstances(w)
  <2>1. CASE FailedMoves # {}
    BY <1>6, <2>1, IdleAgain DEF StartInstances, Conclude
  <2>2. CASE FailedMoves = {}
    <3> DEFINE T == { i \in Instances : ToStart(i) }
    <3>1. T \in SUBSET Instances
      OBVIOUS
    <3>2. flow' = [flow EXCEPT ![w].pc = "start", ![w].todo = T]
      BY <1>6, <2>2 DEF StartInstances
    <3>3. flow' \in [Engines -> Flow]
      BY <3>1, <3>2, TaskType, NoMovesType
    <3>4. flow[w].run \in 0 .. MaxRuns
      BY DEF Flow
    <3>5. step' \in [Instances -> Steps] /\ writer' \in [Instances -> 0 .. MaxRuns]
      BY <1>6, <2>2, <3>4 DEF StartInstances, Steps
    <3> QED
      BY <1>6, <2>2, <3>3, <3>5 DEF StartInstances
  <2> QED
    BY <2>1, <2>2
<1>7. CASE Finish(w)
  BY <1>7, IdleAgain DEF Finish, Conclude
<1> QED
  BY <1>1, <1>2, <1>3, <1>4, <1>5, <1>6, <1>7

\* the tasks' threads, and the reconciliation of one row
LEMMA ThreadType ==
  ASSUME TypeOK, NEW w \in Engines, NEW i \in Instances,
         Reconcile(w, i) \/ SkipEvacuation(w, i) \/ BeginEvacuation(w, i)
           \/ CallEvacuate(w, i) \/ ConfirmEvacuation(w, i) \/ RecordEvacuation(w, i)
           \/ FailEvacuation(w, i) \/ EvacuationDies(w, i) \/ WaitForSlot(w, i)
           \/ GetSlot(w, i) \/ CallStart(w, i) \/ ConfirmStart(w, i) \/ FailStart(w, i)
  PROVE  TypeOK'
<1> USE DEF TypeOK, record, nova
<1>1. CASE Reconcile(w, i)
  <2>1. \A s \in Observed(i) : s \in Steps
    BY DEF Observed, Steps
  <2>2. step' \in [Instances -> Steps] /\ writer' \in [Instances -> 0 .. MaxRuns]
    <3>1. step[i] \in Steps /\ "discovered" \in Steps
      BY DEF Steps
    <3> QED
      BY <1>1, <2>1, <3>1, RecordType DEF Reconcile
  <2> QED
    BY <1>1, <2>2, DoneType, OriginalType DEF Reconcile
<1>2. CASE SkipEvacuation(w, i)
  BY <1>2, DoneType DEF SkipEvacuation
<1>3. CASE BeginEvacuation(w, i)
  <2>1. step' \in [Instances -> Steps] /\ writer' \in [Instances -> 0 .. MaxRuns]
    BY <1>3, RecordType DEF BeginEvacuation, Steps
  <2>2. vm' \in [Instances -> { "active", "stopped", "error" }]
    BY <1>3 DEF BeginEvacuation
  <2>3. vmove' \in [Moves -> VStatus]
    BY <1>3, MoveType DEF BeginEvacuation, VStatus
  <2> QED
    BY <1>3, <2>1, <2>2, <2>3, AtType, OriginalType DEF BeginEvacuation
<1>4. CASE CallEvacuate(w, i)
  BY <1>4, AtType DEF CallEvacuate
<1>5. CASE ConfirmEvacuation(w, i)
  BY <1>5, AtType, MoveType DEF ConfirmEvacuation, VStatus
<1>6. CASE RecordEvacuation(w, i)
  <2>1. step' \in [Instances -> Steps] /\ writer' \in [Instances -> 0 .. MaxRuns]
    BY <1>6, RecordType DEF RecordEvacuation, Steps
  <2> QED
    BY <1>6, <2>1, DoneType DEF RecordEvacuation
<1>7. CASE FailEvacuation(w, i)
  <2>1. step' \in [Instances -> Steps] /\ writer' \in [Instances -> 0 .. MaxRuns]
    BY <1>7, RecordType DEF FailEvacuation, Steps
  <2> QED
    BY <1>7, <2>1, DoneType, MoveType DEF FailEvacuation, VStatus
<1>8. CASE EvacuationDies(w, i)
  BY <1>8, DoneType DEF EvacuationDies
<1>9. CASE WaitForSlot(w, i)
  <2>1. step' \in [Instances -> Steps] /\ writer' \in [Instances -> 0 .. MaxRuns]
    BY <1>9, RecordType DEF WaitForSlot, Steps
  <2> QED
    BY <1>9, <2>1, AtType DEF WaitForSlot
<1>10. CASE GetSlot(w, i)
  <2>1. step' \in [Instances -> Steps] /\ writer' \in [Instances -> 0 .. MaxRuns]
    BY <1>10, RecordType DEF GetSlot, Steps
  <2> QED
    BY <1>10, <2>1, AtType DEF GetSlot
<1>11. CASE CallStart(w, i)
  BY <1>11, AtType DEF CallStart
<1>12. CASE ConfirmStart(w, i)
  <2>1. step' \in [Instances -> Steps] /\ writer' \in [Instances -> 0 .. MaxRuns]
    BY <1>12, RecordType DEF ConfirmStart, Steps
  <2> QED
    BY <1>12, <2>1, DoneType DEF ConfirmStart
<1>13. CASE FailStart(w, i)
  <2>1. step' \in [Instances -> Steps] /\ writer' \in [Instances -> 0 .. MaxRuns]
    BY <1>13, RecordType DEF FailStart, Steps
  <2> QED
    BY <1>13, <2>1, DoneType DEF FailStart
<1> QED
  BY <1>1, <1>2, <1>3, <1>4, <1>5, <1>6, <1>7, <1>8, <1>9, <1>10, <1>11, <1>12, <1>13

LEMMA NextType == TypeOK /\ [Next]_vars => TypeOK'
<1> SUFFICES ASSUME TypeOK, [Next]_vars PROVE TypeOK'
  OBVIOUS
<1>1. CASE ReconcileStale
  BY <1>1 DEF ReconcileStale, TypeOK, record, nova
<1>2. ASSUME NEW i \in Instances, ExpireSlot(i) PROVE TypeOK'
  BY <1>2 DEF ExpireSlot, TypeOK, record, nova
<1>3. ASSUME NEW i \in Instances, Evacuated(i) PROVE TypeOK'
  BY <1>3 DEF Evacuated, TypeOK, record, nova
<1>4. ASSUME NEW i \in Instances, Started(i) PROVE TypeOK'
  BY <1>4 DEF Started, TypeOK, record, nova
<1>5. CASE UNCHANGED vars
  BY <1>5 DEF vars, TypeOK, record, nova
<1> QED
  BY <1>1, <1>2, <1>3, <1>4, <1>5, WorkflowType, ThreadType DEF Next, WorkflowStep

-----------------------------------------------------------------------------
(* The records and the instances *)

\* Steps that leave nova's instances and the recorded vm_state alone.
LEMMA Quiet ==
  ASSUME IInv, UNCHANGED <<original, place, vm, moving, starting>>,
         \A w \in Engines, i \in Instances :
           \/ flow'[w].at[i] \in {flow[w].at[i], "wait"}
           \/ /\ original[i] # "none"
              /\ flow'[w].at[i] = "record" => place[i] = "dest",
         \A w \in Engines, i \in Instances : flow'[w].pc = "start" /\ i \in flow'[w].todo =>
           \/ flow[w].pc = "start" /\ i \in flow[w].todo
           \/ original[i] = "active" /\ place[i] = "dest",
         \A i \in Instances : step'[i] = "evacuated" => step[i] = "evacuated" \/ place[i] = "dest",
         TypeOK'
  PROVE  IInv'
<1>1. Kept' /\ StartsAreSafe'
  BY DEF IInv, Kept, StartsAreSafe
<1>2. Placed'
  BY DEF IInv, Placed
<1>3. Untouched'
  BY DEF IInv, Untouched
<1>4. Chosen'
  BY DEF IInv, Chosen
<1>5. Recorded'
  BY DEF IInv, Recorded
<1> QED
  BY <1>1, <1>2, <1>3, <1>4, <1>5 DEF IInv

LEMMA WorkflowQuiet ==
  ASSUME IInv, TypeOK', NEW w \in Engines,
         Enter(w) \/ TaskFails(w) \/ Crash(w) \/ Prepare(w) \/ StartEvacuation(w)
           \/ StartInstances(w) \/ Finish(w)
  PROVE  IInv'
<1> USE DEF record, nova
<1>1. TypeOK /\ Placed
  BY DEF IInv
<1>2. ASSUME \A i \in Instances : step'[i] \in {step[i], "ignored"},
             \/ flow' = [flow EXCEPT ![w] = Idle]
             \/ /\ flow'[w].pc # "start"
                /\ \A i \in Instances : flow'[w].at[i] \in {flow[w].at[i], "wait"},
             \A u \in Engines \ {w} : flow'[u] = flow[u],
             UNCHANGED <<original, nova>>
      PROVE  IInv'
  <2>1. flow'[w].pc # "start" \/ flow'[w].todo = {}
    BY <1>1, <1>2, IdleAgain
  <2>2. \A i \in Instances : flow'[w].at[i] \in {flow[w].at[i], "wait"}
    BY <1>1, <1>2, IdleAgain
  <2> QED
    BY <1>2, <2>1, <2>2, Quiet
<1>3. CASE Enter(w)
  <2>1. /\ flow'[w].pc = "prepare" /\ \A i \in Instances : flow'[w].at[i] = "wait"
        /\ \A u \in Engines \ {w} : flow'[u] = flow[u]
    BY <1>1, <1>3, IdleType DEF Enter, TypeOK, Flow
  <2> QED
    BY <1>2, <1>3, <2>1 DEF Enter
<1>4. CASE TaskFails(w)
  BY <1>1, <1>2, <1>4, IdleAgain DEF TaskFails, Conclude
<1>5. CASE Crash(w)
  BY <1>1, <1>2, <1>5, IdleAgain DEF Crash
<1>6. CASE Finish(w)
  BY <1>1, <1>2, <1>6, IdleAgain DEF Finish, Conclude
<1>7. CASE Prepare(w)
  <2>1. CASE Considered = {}
    BY <1>1, <1>2, <1>7, <2>1, IdleAgain DEF Prepare, Conclude
  <2>2. CASE Considered # {}
    <3> DEFINE T == { v[1] : v \in { u \in Moves : vmove'[u] # "absent" } }
    <3>1. T \in SUBSET Instances
      BY DEF Moves
    <3>2. flow' = [flow EXCEPT ![w].pc = "reconcile", ![w].todo = T]
      BY <1>7, <2>2 DEF Prepare
    <3>3. /\ flow'[w].pc = "reconcile" /\ flow'[w].at = flow[w].at
          /\ \A u \in Engines \ {w} : flow'[u] = flow[u]
      BY <1>1, <3>1, <3>2, TaskType, NoMovesType
    <3> QED
      BY <1>2, <1>7, <2>2, <3>3 DEF Prepare
  <2> QED
    BY <2>1, <2>2
<1>8. CASE StartEvacuation(w)
  <2>1. PICK move \in [Instances -> 0 .. MaxRuns] :
          flow' = [flow EXCEPT ![w].pc = "evacuate", ![w].move = move,
                               ![w].todo = { i \in Instances : move[i] # 0 }]
    BY <1>8 DEF StartEvacuation
  <2>2. { i \in Instances : move[i] # 0 } \in SUBSET Instances
    OBVIOUS
  <2>3. /\ flow'[w].pc = "evacuate" /\ flow'[w].at = flow[w].at
        /\ \A u \in Engines \ {w} : flow'[u] = flow[u]
    BY <1>1, <2>1, <2>2, TaskType
  <2> QED
    BY <1>2, <1>8, <2>3 DEF StartEvacuation
<1>9. CASE StartInstances(w)
  <2>1. CASE FailedMoves # {}
    BY <1>1, <1>2, <1>9, <2>1, IdleAgain DEF StartInstances, Conclude
  <2>2. CASE FailedMoves = {}
    <3> DEFINE T == { i \in Instances : ToStart(i) }
    <3>1. flow' = [flow EXCEPT ![w].pc = "start", ![w].todo = T]
      BY <1>9, <2>2 DEF StartInstances
    <3>2. /\ flow'[w].pc = "start" /\ flow'[w].todo = T /\ flow'[w].at = flow[w].at
          /\ \A u \in Engines \ {w} : flow'[u] = flow[u]
      BY <1>1, <3>1, TaskType, NoMovesType
    <3>3. \A i \in T : original[i] = "active" /\ place[i] = "dest"
      BY <1>1 DEF ToStart, Placed
    <3>4. /\ UNCHANGED <<original, place, vm, moving, starting>>
          /\ \A i \in Instances : step'[i] \in {step[i], "ignored"}
      BY <1>1, <1>9, <2>2 DEF StartInstances, TypeOK
    <3> HIDE DEF T
    <3> QED
      BY <3>2, <3>3, <3>4, Quiet
  <2> QED
    BY <2>1, <2>2
<1> QED
  BY <1>3, <1>4, <1>5, <1>6, <1>7, <1>8, <1>9

\* The threads that leave nova's instances alone.
LEMMA ThreadQuiet ==
  ASSUME IInv, TypeOK', NEW w \in Engines, NEW i \in Instances,
         SkipEvacuation(w, i) \/ ConfirmEvacuation(w, i) \/ RecordEvacuation(w, i)
           \/ FailEvacuation(w, i) \/ EvacuationDies(w, i) \/ WaitForSlot(w, i)
           \/ GetSlot(w, i) \/ ConfirmStart(w, i) \/ FailStart(w, i)
  PROVE  IInv'
<1> USE DEF record, nova
<1>1. TypeOK /\ (flow[w].at[i] # "wait" => original[i] # "none")
  BY DEF IInv, Untouched
<1>2. ASSUME flow' = Done(w, i), UNCHANGED <<original, nova>>,
             \A j \in Instances : step'[j] = "evacuated" => step[j] = "evacuated" \/ place[j] = "dest"
      PROVE  IInv'
  BY <1>1, <1>2, DoneType, Quiet
<1>3. ASSUME NEW p \in { "record", "slot", "call" }, flow' = [flow EXCEPT ![w].at[i] = p],
             UNCHANGED <<original, nova>>, original[i] # "none",
             p = "record" => place[i] = "dest",
             \A j \in Instances : step'[j] = "evacuated" => step[j] = "evacuated" \/ place[j] = "dest"
      PROVE  IInv'
  BY <1>1, <1>3, AtType, Quiet
<1>4. CASE SkipEvacuation(w, i)
  BY <1>2, <1>4 DEF SkipEvacuation
<1>5. CASE ConfirmEvacuation(w, i)
  BY <1>1, <1>3, <1>5 DEF ConfirmEvacuation, Thread
<1>6. CASE RecordEvacuation(w, i)
  <2>1. place[i] = "dest"
    BY <1>6 DEF RecordEvacuation, Thread, IInv, Recorded
  <2>2. \A j \in Instances \ {i} : step'[j] = step[j]
    BY <1>1, <1>6, RecordType DEF RecordEvacuation, Steps
  <2> QED
    BY <1>2, <1>6, <2>1, <2>2 DEF RecordEvacuation
<1>7. CASE FailEvacuation(w, i)
  <2>1. \A j \in Instances : step'[j] \in {step[j], "failed"}
    BY <1>1, <1>7, RecordType DEF FailEvacuation, Steps
  <2> QED
    BY <1>2, <1>7, <2>1 DEF FailEvacuation
<1>8. CASE EvacuationDies(w, i)
  BY <1>2, <1>8 DEF EvacuationDies
<1>9. CASE WaitForSlot(w, i)
  <2>1. \A j \in Instances : step'[j] \in {step[j], "waiting"}
    BY <1>1, <1>9, RecordType DEF WaitForSlot, Steps
  <2>2. original[i] # "none"
    BY <1>9 DEF WaitForSlot, Thread, IInv, Chosen
  <2> QED
    BY <1>3, <1>9, <2>1, <2>2 DEF WaitForSlot
<1>10. CASE GetSlot(w, i)
  <2>1. \A j \in Instances : step'[j] \in {step[j], "starting"}
    BY <1>1, <1>10, RecordType DEF GetSlot, Steps
  <2>2. original[i] # "none"
    BY <1>1, <1>10 DEF GetSlot, Thread
  <2> QED
    BY <1>3, <1>10, <2>1, <2>2 DEF GetSlot
<1>11. CASE ConfirmStart(w, i)
  <2>1. \A j \in Instances : step'[j] \in {step[j], "active"}
    BY <1>1, <1>11, RecordType DEF ConfirmStart, Steps
  <2> QED
    BY <1>2, <1>11, <2>1 DEF ConfirmStart
<1>12. CASE FailStart(w, i)
  <2>1. \A j \in Instances : step'[j] \in {step[j], "failed"}
    BY <1>1, <1>12, RecordType DEF FailStart, Steps
  <2> QED
    BY <1>2, <1>12, <2>1 DEF FailStart
<1> QED
  BY <1>4, <1>5, <1>6, <1>7, <1>8, <1>9, <1>10, <1>11, <1>12

\* An instance is discovered: what nova says of it was true before the failure.
LEMMA ReconcileKeeps ==
  ASSUME IInv, TypeOK', NEW w \in Engines, NEW i \in Instances, Reconcile(w, i)
  PROVE  IInv'
<1> USE DEF record, nova
<1>1. TypeOK /\ (original[i] = "none" => vm[i] = Was(i))
  BY DEF IInv, Untouched
<1>2. /\ original'[i] = IF original[i] = "none" THEN Was(i) ELSE original[i]
      /\ original'[i] # "none"
      /\ \A j \in Instances \ {i} : original'[j] = original[j]
  BY <1>1, OriginalType DEF Reconcile
<1>3. Kept'
  BY <1>2 DEF IInv, Kept, Was
<1>4. /\ UNCHANGED nova
      /\ \A u \in Engines : flow'[u].pc = flow[u].pc /\ flow'[u].todo \subseteq flow[u].todo
      /\ \A u \in Engines, j \in Instances : flow'[u].at[j] \in {flow[u].at[j], "wait"}
  BY <1>1, DoneType DEF Reconcile
<1>5. Untouched'
  BY <1>2, <1>4 DEF IInv, Untouched, Was
<1>6. Chosen'
  BY <1>2, <1>4 DEF IInv, Chosen
<1>7. Placed'
  <2>1. step[i] \in Steps /\ "discovered" \in Steps /\ \A s \in Observed(i) : s \in Steps
    BY <1>1 DEF Observed, Steps, TypeOK
  <2>2. /\ \A j \in Instances \ {i} : step'[j] = step[j]
        /\ step'[i] \in Observed(i) \cup {step[i], "discovered"}
    BY <1>1, <2>1, RecordType DEF Reconcile
  <2>3. "evacuated" \in Observed(i) => place[i] = "dest"
    BY <1>1 DEF Observed, TypeOK
  <2> QED
    BY <1>4, <2>2, <2>3 DEF IInv, Placed
<1>8. Recorded'
  BY <1>4 DEF IInv, Recorded
<1>9. StartsAreSafe'
  BY <1>4 DEF IInv, StartsAreSafe
<1> QED
  BY <1>3, <1>5, <1>6, <1>7, <1>8, <1>9 DEF IInv

\* Requests to nova: of instances that have a record, and starts only of those
\* that were active and left the host.
LEMMA NovaCalls ==
  ASSUME IInv, TypeOK', NEW w \in Engines, NEW i \in Instances,
         BeginEvacuation(w, i) \/ CallEvacuate(w, i) \/ CallStart(w, i)
  PROVE  IInv'
<1> USE DEF record, nova
<1>1. /\ TypeOK /\ (original[i] = "none" => vm[i] = Was(i))
      /\ flow[w].at[i] # "wait" => original[i] # "none"
  BY DEF IInv, Untouched
<1>2. PICK p \in { "call", "poll" } : flow' = [flow EXCEPT ![w].at[i] = p]
  BY DEF BeginEvacuation, CallEvacuate, CallStart
<1>3. /\ \A u \in Engines : flow'[u].pc = flow[u].pc /\ flow'[u].todo = flow[u].todo
      /\ flow'[w].at[i] # "record"
      /\ \A u \in Engines, j \in Instances :
           u # w \/ j # i => flow'[u].at[j] = flow[u].at[j]
  BY <1>1, <1>2, AtType
<1>4. /\ original'[i] # "none"
      /\ original'[i] \in IF original[i] = "none" THEN {Was(i)} ELSE {original[i]}
      /\ \A j \in Instances \ {i} : original'[j] = original[j]
  BY <1>1, OriginalType DEF BeginEvacuation, CallEvacuate, CallStart, Thread
<1>5. place' = place
  BY DEF BeginEvacuation, CallEvacuate, CallStart
<1>6. \A j \in Instances \ {i} : vm'[j] = vm[j] /\ moving'[j] = moving[j] /\ starting'[j] = starting[j]
  BY <1>1 DEF BeginEvacuation, CallEvacuate, CallStart, TypeOK
<1>7. Kept'
  BY <1>4 DEF IInv, Kept, Was
<1>8. Untouched'
  BY <1>3, <1>4, <1>6 DEF IInv, Untouched, Was
<1>9. Chosen'
  BY <1>3, <1>4, <1>5 DEF IInv, Chosen
<1>10. Placed'
  <2>1. \A j \in Instances : step'[j] \in {step[j], "evacuating"}
    BY <1>1, RecordType DEF BeginEvacuation, CallEvacuate, CallStart, Steps
  <2> QED
    BY <1>5, <2>1 DEF IInv, Placed
<1>11. Recorded'
  BY <1>3, <1>5 DEF IInv, Recorded
<1>12. StartsAreSafe'
  <2>1. CASE CallStart(w, i)
    <3>1. original[i] = "active" /\ place[i] = "dest"
      BY <2>1 DEF CallStart, Thread, IInv, Chosen
    <3>2. i \in Running
      BY <3>1 DEF IInv, Kept, Was
    <3>3. vm' = vm /\ \A j \in Instances : starting'[j] => starting[j] \/ j = i
      BY <1>1, <2>1 DEF CallStart, TypeOK
    <3> QED
      BY <1>5, <3>1, <3>2, <3>3 DEF IInv, StartsAreSafe
  <2>2. CASE BeginEvacuation(w, i) \/ CallEvacuate(w, i)
    <3>1. starting' = starting /\ \A j \in Instances : vm'[j] \in {vm[j], "error"}
      BY <1>1, <2>2 DEF BeginEvacuation, CallEvacuate, TypeOK
    <3> QED
      BY <1>5, <3>1 DEF IInv, StartsAreSafe
  <2> QED
    BY <2>1, <2>2
<1> QED
  BY <1>7, <1>8, <1>9, <1>10, <1>11, <1>12 DEF IInv

\* Nova ends what it was asked to do.
LEMMA NovaSteps ==
  ASSUME IInv, TypeOK', NEW i \in Instances, Evacuated(i) \/ Started(i)
  PROVE  IInv'
<1>1. /\ TypeOK /\ original[i] # "none"
  BY DEF IInv, Untouched, Evacuated, Started
<1>2. /\ UNCHANGED <<original, step, flow>>
      /\ \A j \in Instances : place'[j] \in {place[j], "dest"}
      /\ \A j \in Instances \ {i} : vm'[j] = vm[j] /\ moving'[j] = moving[j] /\ starting'[j] = starting[j]
  BY <1>1 DEF Evacuated, Started, TypeOK, record
<1>3. Kept' /\ Placed' /\ Chosen' /\ Recorded'
  BY <1>2 DEF IInv, Kept, Placed, Chosen, Recorded
<1>4. Untouched'
  BY <1>1, <1>2 DEF IInv, Untouched
<1>5. StartsAreSafe'
  <2>1. CASE Evacuated(i)
    <3>1. /\ starting' = starting /\ \A j \in Instances \ {i} : place'[j] = place[j]
          /\ vm'[i] # "active" \/ (vm'[i] = vm[i] /\ place'[i] = place[i])
      BY <1>1, <2>1 DEF Evacuated, TypeOK
    <3> QED
      BY <1>2, <3>1 DEF IInv, StartsAreSafe
  <2>2. CASE Started(i)
    <3>1. place' = place /\ starting[i] /\ \A j \in Instances : starting'[j] => starting[j]
      BY <1>1, <2>2 DEF Started, TypeOK
    <3> QED
      BY <1>2, <3>1 DEF IInv, StartsAreSafe
  <2> QED
    BY <2>1, <2>2
<1> QED
  BY <1>3, <1>4, <1>5 DEF IInv

-----------------------------------------------------------------------------
LEMMA NextIInv == IInv /\ [Next]_vars => IInv'
<1> SUFFICES ASSUME IInv, [Next]_vars PROVE IInv'
  OBVIOUS
<1>1. TypeOK'
  BY NextType DEF IInv
<1>2. CASE ReconcileStale
  BY <1>1, <1>2, Quiet DEF ReconcileStale, record, nova
<1>3. ASSUME NEW i \in Instances, ExpireSlot(i) PROVE IInv'
  BY <1>1, <1>3, Quiet DEF ExpireSlot, record, nova
<1>4. CASE UNCHANGED vars
  BY <1>1, <1>4, Quiet DEF vars, record, nova
<1>5. ASSUME NEW w \in Engines, Enter(w) \/ Crash(w) \/ WorkflowStep(w) PROVE IInv'
  BY <1>1, <1>5, WorkflowQuiet, ThreadQuiet, ReconcileKeeps, NovaCalls DEF WorkflowStep
<1> QED
  BY <1>1, <1>2, <1>3, <1>4, <1>5, NovaSteps DEF Next

\* The invariant the theorems below follow from.
THEOREM InductiveInvariant == Spec => []IInv
BY InitIInv, NextIInv, PTL DEF Spec

\* Every variable keeps its type: in particular a record only ever says one of
\* the steps of staged_state_etcd.py, whoever writes it.
THEOREM TypeCorrect == Spec => []TypeOK
<1>1. IInv => TypeOK
  BY DEF IInv
<1> QED
  BY <1>1, InductiveInvariant, PTL

\* The record of an instance keeps its vm_state from before the failure
\* (create_or_get_instance_state), whichever workflow finds it afterwards.
THEOREM OriginalsAreKept == Spec => []OriginalIsKept
<1>1. IInv => OriginalIsKept
  BY DEF IInv, Kept, Was, OriginalIsKept
<1> QED
  BY <1>1, InductiveInvariant, PTL

\* BatchedStartInstancesTask starts only instances that were active before the
\* failure, and none that is still on the failed host, however many workflows
\* run, in turn or at once.
THEOREM StartsAlwaysSafe == Spec => []StartsAreSafe
<1>1. IInv => StartsAreSafe
  BY DEF IInv
<1> QED
  BY <1>1, InductiveInvariant, PTL

-----------------------------------------------------------------------------
(* One workflow after the other: what it finds, it keeps.                   *)

\* A thread is under way only in its task and while its instance is to do.
Waiting ==
  \A w \in Engines, i \in Instances :
    flow[w].pc \notin { "evacuate", "start" } \/ i \notin flow[w].todo => flow[w].at[i] = "wait"

OneLive == \A u, w \in Engines : u = w \/ flow[u].pc = "idle" \/ flow[w].pc = "idle"

Settled ==
  status = "finished" => /\ \A w \in Engines : flow[w].pc = "idle"
                         /\ Considered = {} \/ FailedMoves = {}

NoneFailed == \A w \in Engines : flow[w].pc = "start" => FailedMoves = {}

\* No thread works on an instance that is ACTIVE or to be left alone.
Unachieved ==
  \A w \in Engines, i \in Instances :
    /\ flow[w].pc = "start" /\ i \in flow[w].todo => step[i] \notin { "active", "ignored" }
    /\ flow[w].pc = "evacuate" /\ flow[w].at[i] # "wait" => step[i] \notin { "active", "ignored" }

InTurn   == ~overlapped => OneLive /\ Settled /\ NoneFailed /\ Unachieved
ResumeInv == Waiting /\ InTurn

\* what a thread's step does to its workflow
LEMMA ThreadMoves ==
  ASSUME TypeOK, NEW w \in Engines, NEW i \in Instances,
         Reconcile(w, i) \/ SkipEvacuation(w, i) \/ BeginEvacuation(w, i)
           \/ CallEvacuate(w, i) \/ ConfirmEvacuation(w, i) \/ RecordEvacuation(w, i)
           \/ FailEvacuation(w, i) \/ EvacuationDies(w, i) \/ WaitForSlot(w, i)
           \/ GetSlot(w, i) \/ CallStart(w, i) \/ ConfirmStart(w, i) \/ FailStart(w, i)
  PROVE  /\ UNCHANGED <<status, overlapped>>
         /\ flow[w].pc \in { "reconcile", "evacuate", "start" } /\ i \in flow[w].todo
         /\ flow'[w].pc = flow[w].pc /\ \A u \in Engines \ {w} : flow'[u] = flow[u]
         /\ \A j \in Instances \ {i} :
              flow'[w].at[j] = flow[w].at[j] /\ (j \in flow'[w].todo <=> j \in flow[w].todo)
         /\ \/ flow' = Done(w, i) /\ i \notin flow'[w].todo /\ flow'[w].at[i] = "wait"
            \/ i \in flow'[w].todo /\ flow[w].pc # "reconcile" /\ flow'[w].at[i] # "wait"
<1>1. /\ UNCHANGED <<status, overlapped>>
      /\ flow[w].pc \in { "reconcile", "evacuate", "start" } /\ i \in flow[w].todo
      /\ \/ flow' = Done(w, i)
         \/ /\ flow[w].pc # "reconcile"
            /\ \E p \in { "call", "poll", "record", "slot" } : flow' = [flow EXCEPT ![w].at[i] = p]
  BY DEF Reconcile, SkipEvacuation, BeginEvacuation, CallEvacuate, ConfirmEvacuation, RecordEvacuation,
    FailEvacuation, EvacuationDies, WaitForSlot, GetSlot, CallStart, ConfirmStart, FailStart, Thread
<1>2. flow[w] \in Flow /\ flow \in [Engines -> Flow]
  BY DEF TypeOK
<1>3. CASE flow' = Done(w, i)
  <2> DEFINE fl == [flow[w] EXCEPT !.todo = @ \ {i}, !.at[i] = "wait"]
  <2>1. /\ fl.pc = flow[w].pc /\ fl.todo = flow[w].todo \ {i} /\ fl.at[i] = "wait"
        /\ \A j \in Instances \ {i} : fl.at[j] = flow[w].at[j]
    BY <1>2 DEF Flow
  <2>2. flow' = [flow EXCEPT ![w] = fl]
    BY <1>3 DEF Done
  <2> HIDE DEF fl
  <2>3. flow'[w] = fl /\ \A u \in Engines \ {w} : flow'[u] = flow[u]
    BY <1>2, <2>2
  <2> QED
    BY <1>1, <1>3, <2>1, <2>3
<1>4. CASE flow[w].pc # "reconcile" /\ \E p \in { "call", "poll", "record", "slot" } : flow' = [flow EXCEPT ![w].at[i] = p]
  <2>1. PICK p \in { "call", "poll", "record", "slot" } : flow' = [flow EXCEPT ![w].at[i] = p]
    BY <1>4
  <2> DEFINE fl == [flow[w] EXCEPT !.at[i] = p]
  <2>2. /\ fl.pc = flow[w].pc /\ fl.todo = flow[w].todo /\ fl.at[i] = p
        /\ \A j \in Instances \ {i} : fl.at[j] = flow[w].at[j]
    BY <1>2 DEF Flow
  <2>3. flow' = [flow EXCEPT ![w] = fl]
    BY <2>1
  <2> HIDE DEF fl
  <2>4. flow'[w] = fl /\ \A u \in Engines \ {w} : flow'[u] = flow[u]
    BY <1>2, <2>3
  <2> QED
    BY <1>1, <1>4, <2>1, <2>2, <2>4
<1> QED
  BY <1>1, <1>3, <1>4

\* what a step of the workflow as a whole does to it
LEMMA WorkflowMoves ==
  ASSUME TypeOK, NEW w \in Engines,
         TaskFails(w) \/ Crash(w) \/ Prepare(w) \/ StartEvacuation(w) \/ StartInstances(w) \/ Finish(w)
  PROVE  /\ overlapped' = overlapped /\ flow[w].pc # "idle"
         /\ \A u \in Engines \ {w} : flow'[u] = flow[u]
         /\ \/ /\ flow'[w] = Idle /\ UNCHANGED <<vmove, step, place, vm>>
               /\ \/ status' # "finished"
                  \/ Crash(w) /\ status' = status
                  \/ Considered = {} \/ flow[w].pc = "start"
            \/ /\ status' = status /\ flow'[w].at = flow[w].at /\ place' = place
               /\ \/ flow[w].pc = "prepare" /\ flow'[w].pc = "reconcile" /\ step' = step
                  \/ flow[w].pc = "reconcile" /\ flow'[w].pc = "evacuate" /\ step' = step
                  \/ /\ flow[w].pc = "evacuate" /\ flow[w].todo = {}
                     /\ flow'[w].pc = "start" /\ flow'[w].todo = { i \in Instances : ToStart(i) }
                     /\ FailedMoves = {} /\ vmove' = vmove
                     /\ step' = [i \in Instances |-> IF ToIgnore(i) THEN "ignored" ELSE step[i]]
<1> USE DEF record, nova
<1>1. CASE TaskFails(w)
  BY <1>1, IdleAgain DEF TaskFails, Conclude, TypeOK
<1>2. CASE Crash(w)
  BY <1>2, IdleAgain DEF Crash, TypeOK
<1>3. CASE Finish(w)
  BY <1>3, IdleAgain DEF Finish, Conclude, TypeOK
<1>4. CASE Prepare(w)
  <2>1. CASE Considered = {}
    BY <1>4, <2>1, IdleAgain DEF Prepare, Conclude, TypeOK
  <2>2. CASE Considered # {}
    <3> DEFINE T == { v[1] : v \in { u \in Moves : vmove'[u] # "absent" } }
    <3>1. T \in SUBSET Instances
      BY DEF Moves
    <3>2. flow' = [flow EXCEPT ![w].pc = "reconcile", ![w].todo = T]
      BY <1>4, <2>2 DEF Prepare
    <3>3. /\ flow'[w].pc = "reconcile" /\ flow'[w].at = flow[w].at
          /\ \A u \in Engines \ {w} : flow'[u] = flow[u]
      BY <3>1, <3>2, TaskType, NoMovesType
    <3> QED
      BY <1>4, <2>2, <3>3 DEF Prepare
  <2> QED
    BY <2>1, <2>2
<1>5. CASE StartEvacuation(w)
  <2>1. PICK move \in [Instances -> 0 .. MaxRuns] :
          flow' = [flow EXCEPT ![w].pc = "evacuate", ![w].move = move,
                               ![w].todo = { i \in Instances : move[i] # 0 }]
    BY <1>5 DEF StartEvacuation
  <2>2. { i \in Instances : move[i] # 0 } \in SUBSET Instances
    OBVIOUS
  <2>3. /\ flow'[w].pc = "evacuate" /\ flow'[w].at = flow[w].at
        /\ \A u \in Engines \ {w} : flow'[u] = flow[u]
    BY <2>1, <2>2, TaskType
  <2> QED
    BY <1>5, <2>3 DEF StartEvacuation
<1>6. CASE StartInstances(w)
  <2>1. CASE FailedMoves # {}
    BY <1>6, <2>1, IdleAgain DEF StartInstances, Conclude, TypeOK
  <2>2. CASE FailedMoves = {}
    <3> DEFINE T == { i \in Instances : ToStart(i) }
    <3>1. T \in SUBSET Instances
      OBVIOUS
    <3>2. flow' = [flow EXCEPT ![w].pc = "start", ![w].todo = T]
      BY <1>6, <2>2 DEF StartInstances
    <3>3. /\ flow'[w].pc = "start" /\ flow'[w].todo = T /\ flow'[w].at = flow[w].at
          /\ \A u \in Engines \ {w} : flow'[u] = flow[u]
      BY <3>1, <3>2, TaskType, NoMovesType
    <3> QED
      BY <1>6, <2>2, <3>3 DEF StartInstances
  <2> QED
    BY <2>1, <2>2
<1> QED
  BY <1>1, <1>2, <1>3, <1>4, <1>5, <1>6

LEMMA IdleWaits == Idle.pc = "idle" /\ Idle.todo = {} /\ \A i \in Instances : Idle.at[i] = "wait"
BY DEF Idle, AtStart

\* a workflow begins
LEMMA Entered ==
  ASSUME TypeOK, NEW w \in Engines, Enter(w)
  PROVE  /\ flow'[w].pc = "prepare" /\ \A i \in Instances : flow'[w].at[i] = "wait"
         /\ \A u \in Engines \ {w} : flow'[u] = flow[u]
         /\ status' = "running" /\ overlapped' = (overlapped \/ Live # {}) /\ step' = step
BY IdleType DEF Enter, TypeOK, Flow, record, Idle, AtStart

\* the environment leaves the workflows alone
LEMMA Elsewhere ==
  ASSUME ReconcileStale \/ UNCHANGED vars
           \/ \E i \in Instances : ExpireSlot(i) \/ Evacuated(i) \/ Started(i)
  PROVE  UNCHANGED <<flow, vmove, step, overlapped>> /\ status' \in {status, "error"}
BY DEF ReconcileStale, ExpireSlot, Evacuated, Started, vars, record

\* ... and puts nothing before them that they passed over
LEMMA Staying ==
  ASSUME TypeOK, StartsAreSafe, ReconcileStale \/ UNCHANGED vars
           \/ \E i \in Instances : ExpireSlot(i) \/ Evacuated(i) \/ Started(i)
  PROVE  Considered' \subseteq Considered
<1>1. \A i \in Instances : place'[i] = "source" => place[i] = "source" /\ vm'[i] \in { vm[i], "error" }
  <2>1. CASE UNCHANGED <<place, vm>>
    BY <2>1
  <2>2. ASSUME NEW i \in Instances, Evacuated(i)
        PROVE  \A j \in Instances : place'[j] = "source" => place[j] = "source" /\ vm'[j] \in { vm[j], "error" }
    BY <2>2 DEF Evacuated, TypeOK
  <2>3. ASSUME NEW i \in Instances, Started(i)
        PROVE  \A j \in Instances : place'[j] = "source" => place[j] = "source" /\ vm'[j] \in { vm[j], "error" }
    <3>1. place' = place /\ place[i] # "source" /\ \E s : vm' = [vm EXCEPT ![i] = s]
      BY <2>3 DEF Started, StartsAreSafe
    <3> QED
      BY <3>1 DEF TypeOK
  <2> QED
    BY <2>1, <2>2, <2>3 DEF ReconcileStale, ExpireSlot, vars, nova
<1> QED
  BY <1>1 DEF Considered

\* what a thread's step does to the records
LEMMA ThreadRecords ==
  ASSUME TypeOK, NEW w \in Engines, NEW i \in Instances,
         Reconcile(w, i) \/ SkipEvacuation(w, i) \/ BeginEvacuation(w, i)
           \/ CallEvacuate(w, i) \/ ConfirmEvacuation(w, i) \/ RecordEvacuation(w, i)
           \/ FailEvacuation(w, i) \/ EvacuationDies(w, i) \/ WaitForSlot(w, i)
           \/ GetSlot(w, i) \/ CallStart(w, i) \/ ConfirmStart(w, i) \/ FailStart(w, i)
  PROVE  /\ \A j \in Instances \ {i} : step'[j] = step[j]
         /\ \/ step'[i] = step[i]
            \/ step'[i] # "failed" /\ (step'[i] \in { "active", "ignored" } => flow' = Done(w, i))
            \/ /\ step'[i] = "failed" /\ i \in flow[w].todo
               /\ flow[w].pc = "start" \/ (flow[w].pc = "evacuate" /\ flow[w].at[i] # "wait")
         /\ \/ flow' = Done(w, i) \/ flow[w].at[i] # "wait" \/ flow[w].pc # "evacuate"
            \/ step[i] \notin { "active", "ignored" }
         /\ flow[w].pc = "start" => vmove' = vmove
         /\ place' = place
<1> USE DEF record, nova
<1>0. step \in [Instances -> Steps]
  BY DEF TypeOK
<1>1. ASSUME NEW s, NEW e, Transition(w, i, e, s) \/ Update(w, i, s)
      PROVE  step'[i] \in { step[i], s } /\ \A j \in Instances \ {i} : step'[j] = step[j]
  BY <1>0, <1>1 DEF Transition, Update
<1>2. CASE Reconcile(w, i)
  <2>1. \A s \in Observed(i) : s # "failed"
    BY DEF Observed
  <2>2. flow' = Done(w, i) /\ flow[w].pc = "reconcile" /\ UNCHANGED <<vmove, place>>
    BY <1>2 DEF Reconcile
  <2>3. \E s : s \in Observed(i) \cup { "discovered", step[i] } /\ \E e : Transition(w, i, e, s) \/ Update(w, i, s)
    BY <1>2 DEF Reconcile
  <2> QED
    BY <1>1, <2>1, <2>2, <2>3
<1>3. CASE FailEvacuation(w, i)
  <2>1. flow' = Done(w, i) /\ flow[w].pc = "evacuate" /\ flow[w].at[i] # "wait" /\ i \in flow[w].todo /\ place' = place
    BY <1>3 DEF FailEvacuation, Thread
  <2>2. Update(w, i, "failed") \/ UNCHANGED step
    BY <1>3 DEF FailEvacuation
  <2> QED
    BY <1>0, <1>1, <2>1, <2>2
<1>4. CASE FailStart(w, i)
  <2>1. flow' = Done(w, i) /\ flow[w].pc = "start" /\ i \in flow[w].todo /\ UNCHANGED <<vmove, place>>
    BY <1>4 DEF FailStart, Thread
  <2>2. Update(w, i, "failed") \/ UNCHANGED step
    BY <1>4 DEF FailStart
  <2> QED
    BY <1>0, <1>1, <2>1, <2>2
<1>5. CASE RecordEvacuation(w, i)
  <2>1. flow' = Done(w, i) /\ flow[w].pc = "evacuate" /\ place' = place
    BY <1>5 DEF RecordEvacuation, Thread
  <2>2. \E s \in { "active", "evacuated" } : Update(w, i, s)
    BY <1>5 DEF RecordEvacuation
  <2> QED
    BY <1>1, <2>1, <2>2
<1>6. CASE ConfirmStart(w, i)
  BY <1>1, <1>6 DEF ConfirmStart
<1>7. CASE BeginEvacuation(w, i)
  <2>1. step[i] \notin { "active", "ignored" } /\ flow[w].pc = "evacuate" /\ place' = place
    BY <1>7 DEF BeginEvacuation, Thread, Further
  <2>2. \E e : Transition(w, i, e, "evacuating")
    BY <1>7 DEF BeginEvacuation
  <2> QED
    BY <1>1, <2>1, <2>2
<1>8. CASE WaitForSlot(w, i)
  <2>1. flow[w].pc = "start" /\ UNCHANGED <<vmove, place>>
    BY <1>8 DEF WaitForSlot, Thread
  <2>2. \E e : Transition(w, i, e, "waiting")
    BY <1>8 DEF WaitForSlot
  <2> QED
    BY <1>1, <2>1, <2>2
<1>9. CASE GetSlot(w, i)
  <2>1. flow[w].pc = "start" /\ UNCHANGED <<vmove, place>>
    BY <1>9 DEF GetSlot, Thread
  <2>2. \E e : Transition(w, i, e, "starting")
    BY <1>9 DEF GetSlot
  <2> QED
    BY <1>1, <2>1, <2>2
<1>10. CASE SkipEvacuation(w, i) \/ EvacuationDies(w, i)
  BY <1>0, <1>10 DEF SkipEvacuation, EvacuationDies, Thread
<1>11. CASE CallEvacuate(w, i) \/ ConfirmEvacuation(w, i) \/ CallStart(w, i)
  BY <1>0, <1>11 DEF CallEvacuate, ConfirmEvacuation, CallStart, Thread
<1> QED
  BY <1>2, <1>3, <1>4, <1>5, <1>6, <1>7, <1>8, <1>9, <1>10, <1>11

LEMMA NextWaiting == ASSUME TypeOK, Waiting, [Next]_vars PROVE Waiting'
<1>1. ASSUME NEW w \in Engines, \A u \in Engines \ {w} : flow'[u] = flow[u],
             \A i \in Instances :
               flow'[w].pc \notin { "evacuate", "start" } \/ i \notin flow'[w].todo => flow'[w].at[i] = "wait"
      PROVE  Waiting'
  BY <1>1 DEF Waiting
<1>2. ASSUME NEW w \in Engines, Enter(w) PROVE Waiting'
  BY <1>1, <1>2, Entered
<1>3. ASSUME NEW w \in Engines,
             TaskFails(w) \/ Crash(w) \/ Prepare(w) \/ StartEvacuation(w) \/ StartInstances(w) \/ Finish(w)
      PROVE  Waiting'
  <2>1. /\ \A u \in Engines \ {w} : flow'[u] = flow[u]
        /\ \/ flow'[w] = Idle
           \/ /\ flow'[w].at = flow[w].at
              /\ flow[w].pc \in { "prepare", "reconcile" } \/ flow[w].todo = {}
    BY <1>3, WorkflowMoves
  <2>2. \A i \in Instances : flow'[w].at[i] = "wait"
    BY <2>1, IdleWaits DEF Waiting
  <2> QED
    BY <1>1, <2>1, <2>2
<1>4. ASSUME NEW w \in Engines, NEW i \in Instances,
             Reconcile(w, i) \/ SkipEvacuation(w, i) \/ BeginEvacuation(w, i)
               \/ CallEvacuate(w, i) \/ ConfirmEvacuation(w, i) \/ RecordEvacuation(w, i)
               \/ FailEvacuation(w, i) \/ EvacuationDies(w, i) \/ WaitForSlot(w, i)
               \/ GetSlot(w, i) \/ CallStart(w, i) \/ ConfirmStart(w, i) \/ FailStart(w, i)
      PROVE  Waiting'
  <2>1. /\ flow'[w].pc = flow[w].pc /\ \A u \in Engines \ {w} : flow'[u] = flow[u]
        /\ flow[w].pc \in { "reconcile", "evacuate", "start" }
        /\ \A j \in Instances \ {i} :
             flow'[w].at[j] = flow[w].at[j] /\ (j \in flow'[w].todo <=> j \in flow[w].todo)
        /\ flow'[w].at[i] = "wait" \/ (i \in flow'[w].todo /\ flow[w].pc # "reconcile")
    BY <1>4, ThreadMoves
  <2>2. ASSUME NEW j \in Instances,
               flow'[w].pc \notin { "evacuate", "start" } \/ j \notin flow'[w].todo
        PROVE  flow'[w].at[j] = "wait"
    BY <2>1, <2>2 DEF Waiting
  <2> QED
    BY <1>1, <2>1, <2>2
<1>5. ASSUME ReconcileStale \/ UNCHANGED vars
               \/ \E i \in Instances : ExpireSlot(i) \/ Evacuated(i) \/ Started(i)
      PROVE  Waiting'
  BY <1>5, Elsewhere DEF Waiting
<1> QED
  BY <1>2, <1>3, <1>4, <1>5 DEF Next, WorkflowStep

LEMMA NextInTurn ==
  ASSUME TypeOK, TypeOK', StartsAreSafe, Waiting, Waiting', InTurn, [Next]_vars
  PROVE  InTurn'
<1> SUFFICES ASSUME ~overlapped' PROVE OneLive' /\ Settled' /\ NoneFailed' /\ Unachieved'
  BY DEF InTurn
<1>1. ASSUME NEW w \in Engines, flow[w].pc # "idle", ~overlapped
      PROVE  \A u \in Engines \ {w} : flow[u].pc = "idle"
  BY <1>1 DEF InTurn, OneLive
<1>2. ASSUME NEW w \in Engines, Enter(w) PROVE OneLive' /\ Settled' /\ NoneFailed' /\ Unachieved'
  <2>1. /\ flow'[w].pc = "prepare" /\ \A u \in Engines \ {w} : flow'[u].pc = "idle"
        /\ status' = "running"
    BY <1>2, Entered DEF Live
  <2> QED
    BY <2>1 DEF OneLive, Settled, NoneFailed, Unachieved
<1>3. ASSUME NEW w \in Engines,
             TaskFails(w) \/ Crash(w) \/ Prepare(w) \/ StartEvacuation(w) \/ StartInstances(w) \/ Finish(w)
      PROVE  OneLive' /\ Settled' /\ NoneFailed' /\ Unachieved'
  <2>1. ~overlapped /\ flow[w].pc # "idle"
    BY <1>3, WorkflowMoves
  <2>2. \A u \in Engines \ {w} : flow'[u].pc = "idle"
    BY <1>1, <1>3, <2>1, WorkflowMoves
  <2>3. OneLive'
    BY <2>2 DEF OneLive
  <2>4. status # "finished" /\ Settled /\ NoneFailed /\ Unachieved
    BY <2>1 DEF InTurn, Settled
  <2>5. CASE /\ flow'[w] = Idle /\ UNCHANGED <<vmove, step, place, vm>>
             /\ \/ status' # "finished"
                \/ Crash(w) /\ status' = status
                \/ Considered = {} \/ flow[w].pc = "start"
    <3>1. \A u \in Engines : flow'[u].pc = "idle"
      BY <2>2, <2>5, IdleWaits
    <3>2. status' = "finished" => Considered = {} \/ FailedMoves = {}
      BY <2>4, <2>5 DEF NoneFailed
    <3>3. Considered' = Considered /\ FailedMoves' = FailedMoves
      BY <2>5 DEF Considered, FailedMoves
    <3> QED
      BY <2>3, <3>1, <3>2, <3>3 DEF Settled, NoneFailed, Unachieved
  <2>6. CASE /\ status' = status /\ flow'[w].at = flow[w].at /\ place' = place
             /\ \/ flow[w].pc = "prepare" /\ flow'[w].pc = "reconcile" /\ step' = step
                \/ flow[w].pc = "reconcile" /\ flow'[w].pc = "evacuate" /\ step' = step
                \/ /\ flow[w].pc = "evacuate" /\ flow[w].todo = {}
                   /\ flow'[w].pc = "start" /\ flow'[w].todo = { i \in Instances : ToStart(i) }
                   /\ FailedMoves = {} /\ vmove' = vmove
                   /\ step' = [i \in Instances |-> IF ToIgnore(i) THEN "ignored" ELSE step[i]]
    <3>1. NoneFailed'
      BY <2>2, <2>6 DEF NoneFailed, FailedMoves
    <3>2. Settled'
      BY <2>4, <2>6 DEF Settled
    <3>3. \A i \in Instances : flow'[w].at[i] = "wait"
      BY <2>6 DEF Waiting
    <3>4. Unachieved'
      <4> SUFFICES ASSUME NEW i \in Instances, flow'[w].pc = "start", i \in flow'[w].todo
                   PROVE  step'[i] \notin { "active", "ignored" }
        BY <2>2, <3>3 DEF Unachieved
      <4> QED
        BY <2>6 DEF ToStart, ToIgnore
    <3> QED
      BY <2>3, <3>1, <3>2, <3>4
  <2> QED
    BY <1>3, <2>5, <2>6, WorkflowMoves
<1>4. ASSUME NEW w \in Engines, NEW i \in Instances,
             Reconcile(w, i) \/ SkipEvacuation(w, i) \/ BeginEvacuation(w, i)
               \/ CallEvacuate(w, i) \/ ConfirmEvacuation(w, i) \/ RecordEvacuation(w, i)
               \/ FailEvacuation(w, i) \/ EvacuationDies(w, i) \/ WaitForSlot(w, i)
               \/ GetSlot(w, i) \/ CallStart(w, i) \/ ConfirmStart(w, i) \/ FailStart(w, i)
      PROVE  OneLive' /\ Settled' /\ NoneFailed' /\ Unachieved'
  <2>1. /\ ~overlapped /\ status' = status /\ flow[w].pc # "idle" /\ i \in flow[w].todo
        /\ flow'[w].pc = flow[w].pc /\ \A u \in Engines \ {w} : flow'[u] = flow[u]
        /\ \A j \in Instances \ {i} :
             flow'[w].at[j] = flow[w].at[j] /\ (j \in flow'[w].todo <=> j \in flow[w].todo)
        /\ \/ flow' = Done(w, i) /\ i \notin flow'[w].todo /\ flow'[w].at[i] = "wait"
           \/ i \in flow'[w].todo /\ flow[w].pc # "reconcile" /\ flow'[w].at[i] # "wait"
    BY <1>4, ThreadMoves
  <2>2. \A u \in Engines \ {w} : flow'[u].pc = "idle"
    BY <1>1, <2>1
  <2>3. OneLive'
    BY <2>2 DEF OneLive
  <2>4. status # "finished" /\ NoneFailed /\ Unachieved
    BY <2>1 DEF InTurn, Settled
  <2>5. /\ \A j \in Instances \ {i} : step'[j] = step[j]
        /\ \/ step'[i] = step[i]
           \/ step'[i] # "failed" /\ (step'[i] \in { "active", "ignored" } => flow' = Done(w, i))
           \/ step'[i] = "failed"
        /\ \/ flow' = Done(w, i) \/ flow[w].at[i] # "wait" \/ flow[w].pc # "evacuate"
           \/ step[i] \notin { "active", "ignored" }
        /\ flow[w].pc = "start" => vmove' = vmove
    BY <1>4, ThreadRecords
  <2>6. NoneFailed'
    BY <2>1, <2>2, <2>4, <2>5 DEF NoneFailed, FailedMoves
  <2>7. Settled'
    BY <2>1, <2>4 DEF Settled
  <2>8. flow' = Done(w, i) => i \notin flow'[w].todo /\ flow'[w].at[i] = "wait"
    <3>1. flow[w] \in Flow /\ flow \in [Engines -> Flow]
      BY DEF TypeOK
    <3> QED
      BY <3>1 DEF Done, Flow
  <2>9. Unachieved'
    <3> SUFFICES ASSUME NEW j \in Instances,
                        \/ flow'[w].pc = "start" /\ j \in flow'[w].todo
                        \/ flow'[w].pc = "evacuate" /\ flow'[w].at[j] # "wait"
                 PROVE  step'[j] \notin { "active", "ignored" }
      BY <2>2 DEF Unachieved
    <3>1. CASE j # i
      BY <2>1, <2>4, <2>5, <3>1 DEF Unachieved
    <3>2. CASE j = i
      <4>1. flow' # Done(w, i)
        BY <2>8, <3>2
      <4>2. step[i] \notin { "active", "ignored" }
        BY <2>1, <2>4, <2>5, <3>2, <4>1 DEF Unachieved
      <4> QED
        BY <2>5, <3>2, <4>1, <4>2
    <3> QED
      BY <3>1, <3>2
  <2> QED
    BY <2>3, <2>6, <2>7, <2>9
<1>5. ASSUME ReconcileStale \/ UNCHANGED vars
               \/ \E i \in Instances : ExpireSlot(i) \/ Evacuated(i) \/ Started(i)
      PROVE  OneLive' /\ Settled' /\ NoneFailed' /\ Unachieved'
  <2>1. /\ UNCHANGED <<flow, vmove, step, overlapped>>
        /\ status' \in {status, "error"} /\ Considered' \subseteq Considered
    BY <1>5, Elsewhere, Staying
  <2>2. OneLive /\ Settled /\ NoneFailed /\ Unachieved
    BY <2>1 DEF InTurn
  <2> QED
    BY <2>1, <2>2 DEF OneLive, Settled, NoneFailed, Unachieved, FailedMoves
<1> QED
  BY <1>2, <1>3, <1>4, <1>5 DEF Next, WorkflowStep

LEMMA ResumeInvariant == Spec => []ResumeInv
<1>1. Init => ResumeInv
  BY IdleWaits DEF Init, ResumeInv, Waiting, InTurn, OneLive, Settled, NoneFailed, Unachieved
<1>2. TypeOK /\ TypeOK' /\ StartsAreSafe /\ ResumeInv /\ [Next]_vars => ResumeInv'
  BY NextWaiting, NextInTurn DEF ResumeInv
<1> QED
  BY <1>1, <1>2, TypeCorrect, StartsAlwaysSafe, PTL DEF Spec

\* A failed evacuation is not passed over: of workflows that run in turn the
\* last one makes the notification FINISHED only when no VM move has failed or
\* nothing is left on the failed host but what the configuration excludes.
THEOREM FailedMovesCount == Spec => []NoFailedMoveIsForgotten
<1>1. ResumeInv => NoFailedMoveIsForgotten
  <2> SUFFICES ASSUME ResumeInv, status = "finished", ~overlapped, Considered # {}, NEW v \in Moves
               PROVE  vmove[v] # "failed"
    BY DEF NoFailedMoveIsForgotten
  <2>1. FailedMoves = {}
    BY DEF ResumeInv, InTurn, Settled
  <2> QED
    BY <2>1 DEF FailedMoves
<1> QED
  BY <1>1, ResumeInvariant, PTL

\* A workflow that resumes never makes a failure of what is ACTIVE or is to be
\* left stopped.
THEOREM ResumingKeepsWhatIsAchieved == Spec => AchievedStaysAchieved
<1>1. ASSUME TypeOK, ResumeInv, [Next]_vars
      PROVE  [\A i \in Instances :
                ~overlapped /\ step[i] \in {"active", "ignored"} => step'[i] # "failed"]_vars
  <2> SUFFICES ASSUME NEW i \in Instances, ~overlapped, step[i] \in {"active", "ignored"},
                      step'[i] = "failed"
               PROVE  FALSE
    OBVIOUS
  <2>1. step'[i] # step[i]
    OBVIOUS
  <2>2. ASSUME NEW w \in Engines, Enter(w) PROVE FALSE
    BY <1>1, <2>1, <2>2, Entered
  <2>3. ASSUME NEW w \in Engines,
               TaskFails(w) \/ Crash(w) \/ Prepare(w) \/ StartEvacuation(w) \/ StartInstances(w) \/ Finish(w)
        PROVE  FALSE
    <3>1. \/ step' = step \/ step' = [k \in Instances |-> IF ToIgnore(k) THEN "ignored" ELSE step[k]]
      BY <1>1, <2>3, WorkflowMoves
    <3> QED
      BY <2>1, <3>1
  <2>4. ASSUME NEW w \in Engines, NEW j \in Instances,
               Reconcile(w, j) \/ SkipEvacuation(w, j) \/ BeginEvacuation(w, j)
                 \/ CallEvacuate(w, j) \/ ConfirmEvacuation(w, j) \/ RecordEvacuation(w, j)
                 \/ FailEvacuation(w, j) \/ EvacuationDies(w, j) \/ WaitForSlot(w, j)
                 \/ GetSlot(w, j) \/ CallStart(w, j) \/ ConfirmStart(w, j) \/ FailStart(w, j)
        PROVE  FALSE
    <3>1. /\ \A k \in Instances \ {j} : step'[k] = step[k]
          /\ \/ step'[j] = step[j]
             \/ step'[j] # "failed"
             \/ /\ j \in flow[w].todo
                /\ flow[w].pc = "start" \/ (flow[w].pc = "evacuate" /\ flow[w].at[j] # "wait")
      BY <1>1, <2>4, ThreadRecords
    <3>2. /\ i = j /\ i \in flow[w].todo
          /\ flow[w].pc = "start" \/ (flow[w].pc = "evacuate" /\ flow[w].at[i] # "wait")
      BY <2>1, <3>1
    <3> QED
      BY <1>1, <3>2 DEF ResumeInv, InTurn, Unachieved
  <2>5. ASSUME ReconcileStale \/ UNCHANGED vars
                 \/ \E k \in Instances : ExpireSlot(k) \/ Evacuated(k) \/ Started(k)
        PROVE  FALSE
    BY <1>1, <2>1, <2>5, Elsewhere
  <2> QED
    BY <1>1, <2>2, <2>3, <2>4, <2>5 DEF Next, WorkflowStep
<1> QED
  BY <1>1, TypeCorrect, ResumeInvariant, PTL DEF Spec, AchievedStaysAchieved

-----------------------------------------------------------------------------
(***************************************************************************)
(* The start slots (StartLimiter), for every number of attempts, engines   *)
(* and instances and every setting of the options: when the lease of a     *)
(* slot outlives the calls before the polling as well as start_timeout and *)
(* batch_delay (RoomForCalls), no slot is taken over from a live attempt   *)
(* and no more instances start on a host than the limit allows: what the   *)
(* workflows above take for granted when they hold a slot.                 *)
(* _validate_ttl of staged_limiter.py demands less than RoomForCalls.      *)
(*                                                                         *)
(* The argument: an attempt's lease is never older than the time its       *)
(* phases have taken (Owned), so it expires after its attempt ended; the   *)
(* count under the lock (Serial) is still right when the key is created    *)
(* (Counted), so there are never more leases than the limit, and every     *)
(* starting attempt has one of its own.                                    *)
(***************************************************************************)
USE LimiterAssumption

RoomForCalls == TTL > CallTime + StartTimeout + BatchDelay

\* the longest an attempt in its phase can have held its lease
Held(a) ==
  CASE pc[a] = "call"    -> spent[a]
    [] pc[a] = "poll"    -> CallTime + spent[a]
    [] pc[a] = "delay"   -> CallTime + StartTimeout + spent[a]
    [] OTHER             -> CallTime + StartTimeout + BatchDelay

\* A live attempt owns the key of its instance, and its lease is no older than
\* the attempt.
Owned == \A a \in Holding : lease[ServerOf[a]] = a /\ age[ServerOf[a]] <= Held(a)

\* Counting and creating happen under the tooz lock.
Serial == \A a \in Attempts : pc[a] \in {"list", "create"} => lock = a

\* No more leases than the largest limit, and fewer than some limit that was
\* in force while a key is about to be created.
Bound(n) == n \in Limits /\ \A m \in Limits : m <= n
Counted ==
  /\ \A n \in Limits : Bound(n) => Cardinality(Leased) <= n
  /\ (\E a \in Attempts : pc[a] = "create") => \E n \in Limits : Cardinality(Leased) < n

\* A lease is of its attempt's own instance, and no attempt has one before it
\* has created it.
Leases ==
  \A i \in Servers : lease[i] # NoAttempt =>
    /\ ServerOf[lease[i]] = i
    /\ pc[lease[i]] \notin { "sleep", "list", "create" }

SlotsInv == SlotsTypeOK /\ Owned /\ Serial /\ Counted /\ Leases

USE DEF PCs, Bound

-----------------------------------------------------------------------------
LEMMA LeasedFinite == IsFiniteSet(Leased) /\ Cardinality(Leased) \in Nat
<1>1. Leased \in SUBSET Servers
  BY DEF Leased
<1> QED
  BY <1>1, FS_Subset, FS_CardinalityType

LEMMA FewerLeases ==
  ASSUME Leased' \subseteq Leased
  PROVE  Cardinality(Leased') <= Cardinality(Leased) /\ Cardinality(Leased') \in Nat
BY LeasedFinite, FS_Subset, FS_CardinalityType

LEMMA InitSlotsInv == SlotsInit => SlotsInv
<1> SUFFICES ASSUME SlotsInit PROVE SlotsInv
  OBVIOUS
<1>1. Leased = {}
  BY DEF SlotsInit, Leased
<1>2. Cardinality(Leased) = 0
  BY <1>1, FS_EmptySet
<1> QED
  BY <1>2 DEF SlotsInit, SlotsInv, SlotsTypeOK, Patience, Owned, Holding, Starting, Serial, Counted, Leases

-----------------------------------------------------------------------------
LEMMA GotoType ==
  ASSUME SlotsTypeOK, NEW a \in Attempts, NEW p \in PCs, Goto(a, p)
  PROVE  /\ pc' \in [Attempts -> PCs] /\ spent' \in [Attempts -> Nat]
         /\ pc'[a] = p /\ spent'[a] = 0
         /\ \A b \in Attempts \ {a} : pc'[b] = pc[b] /\ spent'[b] = spent[b]
         /\ \A b \in Attempts : spent'[b] <= Patience(b)'
BY DEF SlotsTypeOK, Goto, Patience

LEMMA NextSlotsType == SlotsTypeOK /\ [SlotsNext]_slotVars => SlotsTypeOK'
<1> SUFFICES ASSUME SlotsTypeOK, [SlotsNext]_slotVars PROVE SlotsTypeOK'
  OBVIOUS
<1> USE DEF SlotsTypeOK
<1>1. ASSUME NEW a \in Attempts, Lock(a) PROVE SlotsTypeOK'
  BY <1>1, GotoType DEF Lock
<1>2. ASSUME NEW a \in Attempts, List(a) PROVE SlotsTypeOK'
  BY <1>2, GotoType DEF List
<1>3. ASSUME NEW a \in Attempts, Create(a) PROVE SlotsTypeOK'
  BY <1>3, GotoType DEF Create
<1>4. ASSUME NEW a \in Attempts, Call(a) PROVE SlotsTypeOK'
  BY <1>4, GotoType DEF Call
<1>5. ASSUME NEW a \in Attempts, Poll(a) PROVE SlotsTypeOK'
  BY <1>5, GotoType DEF Poll
<1>6. ASSUME NEW a \in Attempts, Delay(a) PROVE SlotsTypeOK'
  BY <1>6, GotoType DEF Delay
<1>7. ASSUME NEW a \in Attempts, Release(a) PROVE SlotsTypeOK'
  BY <1>7, GotoType DEF Release
<1>8. ASSUME NEW a \in Attempts, Die(a) PROVE SlotsTypeOK'
  BY <1>8, GotoType DEF Die
<1>9. ASSUME NEW n \in Limits, SetLimit(n) PROVE SlotsTypeOK'
  BY <1>9 DEF SetLimit, Patience
<1>10. ASSUME NEW i \in Servers, Expire(i) PROVE SlotsTypeOK'
  BY <1>10 DEF Expire, Patience
<1>11. CASE Tick
  <2>1. ASSUME NEW a \in Attempts PROVE spent'[a] \in Nat /\ spent'[a] <= Patience(a)'
    BY <1>11 DEF Tick, Timed, Patience
  <2>2. age' \in [Servers -> 0 .. TTL]
    BY <1>11 DEF Tick
  <2> QED
    BY <1>11, <2>1, <2>2 DEF Tick
<1>12. CASE UNCHANGED slotVars
  BY <1>12 DEF slotVars, Patience
<1> QED
  BY <1>1, <1>2, <1>3, <1>4, <1>5, <1>6, <1>7, <1>8, <1>9, <1>10, <1>11, <1>12
     DEF SlotsNext, Step

-----------------------------------------------------------------------------
(* A step of one attempt leaves what the others have. *)

LEMMA OwnedStep ==
  ASSUME SlotsInv, RoomForCalls, [SlotsNext]_slotVars
  PROVE  Owned'
<1> USE DEF SlotsInv, SlotsTypeOK, Owned, Holding, Starting, Held
<1>1. ASSUME NEW a \in Attempts, Lock(a) PROVE Owned'
  BY <1>1, GotoType DEF Lock
<1>2. ASSUME NEW a \in Attempts, List(a) PROVE Owned'
  BY <1>2, GotoType DEF List
<1>3. ASSUME NEW a \in Attempts, Create(a) PROVE Owned'
  <2>1. CASE KeyFree(ServerOf[a])
    <3>1. \A b \in Holding : ServerOf[b] # ServerOf[a]
      BY <2>1 DEF KeyFree
    <3> QED
      BY <1>3, <2>1, <3>1, GotoType DEF Create
  <2>2. CASE ~KeyFree(ServerOf[a])
    BY <1>3, <2>2, GotoType DEF Create
  <2> QED
    BY <2>1, <2>2
<1>4. ASSUME NEW a \in Attempts, Call(a) PROVE Owned'
  BY <1>4, GotoType DEF Call, Patience
<1>5. ASSUME NEW a \in Attempts, Poll(a) PROVE Owned'
  BY <1>5, GotoType DEF Poll, Patience
<1>6. ASSUME NEW a \in Attempts, Delay(a) PROVE Owned'
  BY <1>6, GotoType DEF Delay
<1>7. ASSUME NEW a \in Attempts, Release(a) PROVE Owned'
  <2>1. \A b \in Holding \ {a} : ServerOf[b] # ServerOf[a]
    BY <1>7 DEF Release
  <2> QED
    BY <1>7, <2>1, GotoType DEF Release
<1>8. ASSUME NEW a \in Attempts, Die(a) PROVE Owned'
  BY <1>8, GotoType DEF Die
<1>9. ASSUME NEW n \in Limits, SetLimit(n) PROVE Owned'
  BY <1>9 DEF SetLimit
<1>10. ASSUME NEW i \in Servers, Expire(i) PROVE Owned'
  <2>1. ASSUME NEW b \in Holding PROVE ServerOf[b] # i
    <3>1. Held(b) < TTL
      BY DEF RoomForCalls, Patience
    <3> QED
      BY <1>10, <3>1 DEF Expire, Expired
  <2> QED
    BY <1>10, <2>1 DEF Expire
<1>11. CASE Tick
  <2>1. ASSUME NEW b \in Holding'
        PROVE  /\ lease'[ServerOf[b]] = b
               /\ age'[ServerOf[b]] <= Held(b)'
    <3>1. b \in Holding /\ Timed(b) /\ spent'[b] = spent[b] + 1 /\ pc'[b] = pc[b]
      BY <1>11 DEF Tick, Timed
    <3>2. Held(b)' = Held(b) + 1
      BY <3>1 DEF Timed
    <3>3. age'[ServerOf[b]] <= age[ServerOf[b]] + 1 /\ age'[ServerOf[b]] \in Nat
      BY <1>11 DEF Tick
    <3>4. Held(b) \in Nat
      BY <3>1 DEF Timed
    <3> QED
      BY <1>11, <3>1, <3>2, <3>3, <3>4 DEF Tick
  <2> QED
    BY <2>1
<1>12. CASE UNCHANGED slotVars
  BY <1>12 DEF slotVars
<1> QED
  BY <1>1, <1>2, <1>3, <1>4, <1>5, <1>6, <1>7, <1>8, <1>9, <1>10, <1>11, <1>12
     DEF SlotsNext, Step

LEMMA SerialStep ==
  ASSUME SlotsInv, [SlotsNext]_slotVars
  PROVE  Serial'
<1> USE DEF SlotsInv, SlotsTypeOK, Serial
<1>1. ASSUME NEW a \in Attempts, Lock(a) PROVE Serial'
  BY <1>1, GotoType DEF Lock, LockFree
<1>2. ASSUME NEW a \in Attempts, List(a) PROVE Serial'
  BY <1>2, GotoType DEF List
<1>3. ASSUME NEW a \in Attempts, Create(a) PROVE Serial'
  BY <1>3, GotoType DEF Create
<1>4. ASSUME NEW a \in Attempts, Call(a) \/ Poll(a) \/ Delay(a) \/ Release(a) PROVE Serial'
  BY <1>4, GotoType DEF Call, Poll, Delay, Release
<1>5. ASSUME NEW a \in Attempts, Die(a) PROVE Serial'
  BY <1>5, GotoType DEF Die
<1>6. CASE \/ \E n \in Limits : SetLimit(n)
           \/ \E i \in Servers : Expire(i)
           \/ Tick
           \/ UNCHANGED slotVars
  BY <1>6 DEF SetLimit, Expire, Tick, slotVars
<1> QED
  BY <1>1, <1>2, <1>3, <1>4, <1>5, <1>6 DEF SlotsNext, Step

LEMMA CountedStep ==
  ASSUME SlotsInv, [SlotsNext]_slotVars
  PROVE  Counted'
<1> DEFINE fits(k) == /\ \A n \in Limits : Bound(n) => k <= n
           room(k) == \E n \in Limits : k < n
<1>1. /\ limit \in Limits /\ Limits \subseteq Nat
      /\ Cardinality(Leased) \in Nat /\ fits(Cardinality(Leased))
      /\ (\E a \in Attempts : pc[a] = "create") => room(Cardinality(Leased))
  BY LeasedFinite DEF SlotsInv, SlotsTypeOK, Counted
<1> USE DEF SlotsInv, SlotsTypeOK
\* Counted is safe as long as no lease is added and nobody gets to create.
<1>2. ASSUME Leased' \subseteq Leased,
             \A a \in Attempts : pc'[a] = "create" => pc[a] = "create"
      PROVE  Counted'
  <2>1. Cardinality(Leased') \in Nat /\ Cardinality(Leased') <= Cardinality(Leased)
    BY <1>2, FewerLeases
  <2>2. \A n \in Limits : Bound(n) => Cardinality(Leased') <= n
    BY <1>1, <2>1
  <2>3. room(Cardinality(Leased)) => room(Cardinality(Leased'))
    BY <1>1, <2>1
  <2> QED
    BY <1>1, <1>2, <2>2, <2>3 DEF Counted
<1>3. ASSUME NEW a \in Attempts,
             Lock(a) \/ Call(a) \/ Poll(a) \/ Delay(a) \/ Release(a) \/ Die(a)
      PROVE  /\ Leased' \subseteq Leased
             /\ \A b \in Attempts : pc'[b] = "create" => pc[b] = "create"
  BY <1>3, GotoType DEF Lock, Call, Poll, Delay, Release, Die, Leased
<1>4. ASSUME NEW a \in Attempts, List(a) PROVE Counted'
  <2>1. Leased' = Leased
    BY <1>4 DEF List, Leased
  <2>2. CASE Cardinality(Leased) < limit
    <3>1. room(Cardinality(Leased'))
      BY <1>1, <2>1, <2>2
    <3> QED
      BY <1>1, <2>1, <3>1 DEF Counted
  <2>3. CASE ~(Cardinality(Leased) < limit)
    <3>1. \A b \in Attempts : pc'[b] = "create" => pc[b] = "create"
      BY <1>4, <2>3, GotoType DEF List
    <3> QED
      BY <1>2, <2>1, <3>1
  <2> QED
    BY <2>2, <2>3
<1>5. ASSUME NEW a \in Attempts, Create(a) PROVE Counted'
  <2>1. pc[a] = "create" /\ room(Cardinality(Leased))
    BY <1>1, <1>5 DEF Create
  <2>2. \A b \in Attempts : pc'[b] # "create"
    BY <1>5, GotoType DEF Create, Serial
  <2>3. Leased' = Leased \/ Leased' = Leased \cup {ServerOf[a]}
    BY <1>5 DEF Create, Leased
  <2>4. Cardinality(Leased \cup {ServerOf[a]})
          = IF ServerOf[a] \in Leased THEN Cardinality(Leased) ELSE Cardinality(Leased) + 1
    BY LeasedFinite, FS_AddElement
  <2>5. ASSUME NEW n \in Limits, Bound(n) PROVE Cardinality(Leased') <= n
    <3> HIDE DEF SlotsInv, SlotsTypeOK
    <3>1. PICK m \in Limits : Cardinality(Leased) < m
      BY <2>1
    <3>2. m \in Nat /\ n \in Nat /\ m <= n
      BY <1>1, <2>5
    <3>3. Cardinality(Leased) <= n /\ Cardinality(Leased) + 1 <= n
      BY <1>1, <3>1, <3>2
    <3>4. Cardinality(Leased \cup {ServerOf[a]}) <= n
      BY <2>4, <3>3
    <3> QED
      BY <2>3, <3>3, <3>4
  <2> QED
    BY <2>2, <2>5 DEF Counted
<1>6. CASE \/ \E m \in Limits : SetLimit(m)
           \/ \E i \in Servers : Expire(i)
           \/ Tick
           \/ UNCHANGED slotVars
  <2>1. /\ Leased' \subseteq Leased
        /\ \A a \in Attempts : pc'[a] = "create" => pc[a] = "create"
    BY <1>6 DEF SetLimit, Expire, Tick, slotVars, Leased
  <2> QED
    BY <1>2, <2>1
<1> QED
  BY <1>2, <1>3, <1>4, <1>5, <1>6 DEF SlotsNext, Step

LEMMA LeasesStep ==
  ASSUME SlotsInv, [SlotsNext]_slotVars
  PROVE  Leases'
<1> USE DEF SlotsInv, SlotsTypeOK, Leases
<1>1. ASSUME NEW a \in Attempts, Lock(a) \/ List(a) PROVE Leases'
  BY <1>1, GotoType DEF Lock, List
<1>2. ASSUME NEW a \in Attempts, Create(a) PROVE Leases'
  BY <1>2, GotoType DEF Create
<1>3. ASSUME NEW a \in Attempts, Call(a) \/ Poll(a) \/ Delay(a) \/ Die(a) PROVE Leases'
  BY <1>3, GotoType DEF Call, Poll, Delay, Die
<1>4. ASSUME NEW a \in Attempts, Release(a) PROVE Leases'
  BY <1>4, GotoType DEF Release
<1>5. CASE \/ \E m \in Limits : SetLimit(m)
           \/ \E i \in Servers : Expire(i)
           \/ Tick
           \/ UNCHANGED slotVars
  BY <1>5 DEF SetLimit, Expire, Tick, slotVars
<1> QED
  BY <1>1, <1>2, <1>3, <1>4, <1>5 DEF SlotsNext, Step

-----------------------------------------------------------------------------
LEMMA NextSlotsInv ==
  ASSUME RoomForCalls
  PROVE  SlotsInv /\ [SlotsNext]_slotVars => SlotsInv'
BY NextSlotsType, OwnedStep, SerialStep, CountedStep, LeasesStep DEF SlotsInv

\* The strengthened invariant of the limiter, when leases outlive attempts.
THEOREM SlotsInductive ==
  ASSUME RoomForCalls
  PROVE  SlotsSpec => []SlotsInv
BY InitSlotsInv, NextSlotsInv, PTL DEF SlotsSpec

\* Every variable keeps its type and no phase outlasts its timeout, however
\* long leases live.
THEOREM SlotsTypeCorrect == SlotsSpec => []SlotsTypeOK
<1>1. SlotsInit => SlotsTypeOK
  BY InitSlotsInv DEF SlotsInv
<1> QED
  BY <1>1, NextSlotsType, PTL DEF SlotsSpec

\* A start attempt owns its slot until it frees it: no engine takes the slot
\* over, and release_start_lease never deletes the key of somebody else.
THEOREM SlotsAreOwn ==
  ASSUME RoomForCalls
  PROVE  SlotsSpec => []SlotIsOwn
<1>1. SlotsInv => SlotIsOwn
  BY DEF SlotsInv, Owned, SlotIsOwn
<1> QED
  BY <1>1, SlotsInductive, PTL

\* Never more instances start on a host than the largest limit in force
\* allows, and no instance is started by two attempts at once.
THEOREM LimitHolds ==
  ASSUME RoomForCalls
  PROVE  SlotsSpec => []StartsWithinLimit
<1>1. SlotsInv => StartsWithinLimit
  <2> SUFFICES ASSUME SlotsInv PROVE StartsWithinLimit
    OBVIOUS
  <2>1. \A a, b \in Starting : ServerOf[a] = ServerOf[b] => a = b
    BY DEF SlotsInv, Owned, Holding
  <2>2. ASSUME NEW n \in Limits, \A m \in Limits : m <= n
        PROVE  Cardinality(Starting) <= n
    <3> DEFINE own == [a \in Starting |-> ServerOf[a]]
    <3>1. own \in [Starting -> Leased]
      BY DEF SlotsInv, Owned, Holding, Starting, Leased
    <3>2. own \in Injection(Starting, Leased)
      BY <2>1, <3>1 DEF Injection, IsInjective
    <3>3. Cardinality(Starting) <= Cardinality(Leased) /\ Cardinality(Starting) \in Nat
      BY <3>2, LeasedFinite, FS_Injection, FS_CardinalityType
    <3>4. Cardinality(Leased) <= n
      BY <2>2 DEF SlotsInv, Counted
    <3> QED
      BY <3>3, <3>4, LeasedFinite
  <2> QED
    BY <2>1, <2>2 DEF StartsWithinLimit
<1> QED
  BY <1>1, SlotsInductive, PTL

-----------------------------------------------------------------------------
(* Refinement: a lease is the slot of StartSlots.  That an attempt takes   *)
(* the slot while it is free and within a limit is Counted, that it gives  *)
(* back its own is Owned, and Owned with Leases says that the attempt of   *)
(* an expired lease is over.                                               *)

LEMMA SlotStepRefines ==
  ASSUME SlotsInv, RoomForCalls, [SlotsNext]_slotVars
  PROVE  [Slots!Next]_<<lease, [a \in Attempts |-> Phase(a)]>>
<1> DEFINE phase == [a \in Attempts |-> Phase(a)]
<1> USE DEF SlotsInv, SlotsTypeOK
<1>1. ASSUME NEW a \in Attempts, Lock(a) \/ List(a) \/ Call(a) \/ Poll(a) \/ Delay(a)
      PROVE  UNCHANGED <<lease, phase>>
  <2>1. lease' = lease
    BY <1>1 DEF Lock, List, Call, Poll, Delay
  <2>2. ASSUME NEW b \in Attempts PROVE Phase(b)' = Phase(b)
    BY <1>1, GotoType DEF Lock, List, Call, Poll, Delay, Phase, Holding, Starting
  <2> QED
    BY <2>1, <2>2
<1>2. ASSUME NEW a \in Attempts, Create(a) PROVE [Slots!Next]_<<lease, phase>>
  <2>1. CASE KeyFree(ServerOf[a])
    <3>1. /\ pc[a] = "create" /\ lease[ServerOf[a]] = NoAttempt
          /\ lease' = [lease EXCEPT ![ServerOf[a]] = a] /\ Goto(a, "call")
      BY <1>2, <2>1 DEF Create, KeyFree
    <3>2. \E n \in Limits : Slots!Cardinality(Slots!Taken) < n
      <4>1. Slots!Cardinality(Leased) = Cardinality(Leased)
        BY DEF Slots!Cardinality, Cardinality, Slots!IsFiniteSet, IsFiniteSet
      <4> QED
        BY <3>1, <4>1 DEF Counted, Leased, Slots!Taken
    <3>3. Phase(a) = "waiting" /\ Phase(a)' = "holding"
      BY <3>1, GotoType DEF Phase, Holding, Starting
    <3>4. ASSUME NEW b \in Attempts \ {a} PROVE Phase(b)' = Phase(b)
      BY <3>1, GotoType DEF Phase, Holding, Starting
    <3>5. phase[a] = "waiting" /\ phase' = [phase EXCEPT ![a] = "holding"]
      BY <3>3, <3>4
    <3>6. Slots!Take(a)
      BY <3>1, <3>2, <3>5 DEF Slots!Take, Slots!Taken
    <3> QED
      BY <3>6 DEF Slots!Next
  <2>2. CASE ~KeyFree(ServerOf[a])
    <3>1. lease' = lease
      BY <1>2, <2>2 DEF Create
    <3>2. ASSUME NEW b \in Attempts PROVE Phase(b)' = Phase(b)
      BY <1>2, <2>2, GotoType DEF Create, Phase, Holding, Starting
    <3> QED
      BY <3>1, <3>2
  <2> QED
    BY <2>1, <2>2
<1>3. ASSUME NEW a \in Attempts, Release(a) PROVE Slots!Next
  <2>1. /\ pc[a] = "release" /\ lease[ServerOf[a]] = a
        /\ lease' = [lease EXCEPT ![ServerOf[a]] = NoAttempt] /\ Goto(a, "done")
    BY <1>3 DEF Release, Owned, Holding
  <2>2. Phase(a) = "holding" /\ Phase(a)' = "over"
    BY <2>1, GotoType DEF Phase, Holding, Starting
  <2>3. ASSUME NEW b \in Attempts \ {a} PROVE Phase(b)' = Phase(b)
    BY <2>1, GotoType DEF Phase, Holding, Starting
  <2>4. phase[a] = "holding" /\ phase' = [phase EXCEPT ![a] = "over"]
    BY <2>2, <2>3
  <2>5. Slots!GiveBack(a)
    BY <2>1, <2>4 DEF Slots!GiveBack
  <2> QED
    BY <2>5 DEF Slots!Next
<1>4. ASSUME NEW a \in Attempts, Die(a) PROVE Slots!Next
  <2>1. pc[a] \notin { "done", "dead" } /\ lease' = lease /\ Goto(a, "dead")
    BY <1>4 DEF Die
  <2>2. phase[a] # "over" /\ phase' = [phase EXCEPT ![a] = "over"]
    BY <2>1, GotoType DEF Phase, Holding, Starting
  <2>3. Slots!Die(a)
    BY <2>1, <2>2 DEF Slots!Die
  <2> QED
    BY <2>3 DEF Slots!Next
<1>5. ASSUME NEW i \in Servers, Expire(i) PROVE Slots!Next
  <2>1. /\ lease[i] \in Attempts /\ age[i] >= TTL
        /\ lease' = [lease EXCEPT ![i] = NoAttempt] /\ UNCHANGED <<pc, spent>>
    BY <1>5 DEF Expire, Expired
  <2>2. ServerOf[lease[i]] = i /\ pc[lease[i]] \notin { "sleep", "list", "create" }
    BY <2>1 DEF Leases
  <2>3. lease[i] \notin Holding
    <3>1. \A a \in Holding : Held(a) < TTL /\ Held(a) \in Nat
      BY DEF RoomForCalls, Patience, Held, Holding, Starting
    <3> QED
      BY <2>1, <2>2, <3>1 DEF Owned
  <2>4. phase[lease[i]] = "over" /\ phase' = phase
    BY <2>1, <2>2, <2>3 DEF Phase, Holding, Starting
  <2>5. Slots!TakeFromTheDead(i)
    BY <2>1, <2>4 DEF Slots!TakeFromTheDead
  <2> QED
    BY <2>5 DEF Slots!Next
<1>6. CASE Tick \/ (\E n \in Limits : SetLimit(n)) \/ UNCHANGED slotVars
  <2>1. lease' = lease /\ pc' = pc
    BY <1>6 DEF Tick, SetLimit, slotVars
  <2> QED
    BY <2>1 DEF Phase, Holding, Starting
<1> QED
  BY <1>1, <1>2, <1>3, <1>4, <1>5, <1>6 DEF SlotsNext, Step

\* The limiter keeps the promise of StartSlots: slots are taken within a limit,
\* are given back by those who took them, and are taken from nobody alive.
THEOREM SlotsRefinement ==
  ASSUME RoomForCalls
  PROVE  SlotsSpec => ImplementsStartSlots
<1>1. SlotsInit => Slots!Init
  BY DEF SlotsInit, Slots!Init, Phase
<1>2. SlotsInv /\ [SlotsNext]_slotVars => [Slots!Next]_<<lease, [a \in Attempts |-> Phase(a)]>>
  BY SlotStepRefines
<1> QED
  BY <1>1, <1>2, SlotsInductive, PTL DEF SlotsSpec, ImplementsStartSlots, Slots!Spec
=============================================================================
