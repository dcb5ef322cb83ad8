----------------------------- MODULE AdminConfig -----------------------------
(***************************************************************************)
(* Drafts of configuration changes and the jobs that apply them            *)
(* (api/openstack/ha/admin_config.py), over the rows of the database and   *)
(* the runtime override of max_parallel_starts_per_host in etcd, which     *)
(* the staged-recovery API and masakari-manage write too.                  *)
(*                                                                         *)
(* A request is a green thread of some API process; each read and write of *)
(* the database or etcd is a step of its own.  A draft and a job are named *)
(* after the request that made them; draft 0 is there at the start.        *)
(*                                                                         *)
(* A draft's changes are a sequence of [kind, value]: "runtime" sets the   *)
(* start limit, "reconfigure" any other known option, "bad" is malformed,  *)
(* of an unknown group or option, or of the wrong type.                    *)
(***************************************************************************)
EXTENDS Integers, FiniteSets, Sequences

CONSTANTS
  Requests,   \* the requests, as positive numbers
  Calls,      \* what they may ask for
  First,      \* the changes of draft 0
  Configured, \* CONF.staged_recovery.max_parallel_starts_per_host
  MaxFaults   \* bound: processes that die, calls of etcd and transactions that fail

Ids  == {0} \cup Requests
None == "none"

Change == [kind : { "runtime", "reconfigure", "bad" }, value : Int]

\* A call may name any draft, one that is not there (yet) included.
DraftOps == { "update", "delete", "validate", "plan", "apply" }

ASSUME AdminConfigAssumption ==
  /\ IsFiniteSet(Requests) /\ 0 \notin Requests
  /\ Configured \in Nat \ {0} /\ MaxFaults \in Nat
  /\ First \in Seq(Change)
  /\ \A c \in Calls :
       /\ c.op \in DraftOps \cup { "create", "set_limit", "clear_limit" }
       /\ c.op \in DraftOps => c.draft \in Ids
       /\ c.op = "create" \/ "values" \in DOMAIN c => c.values \in Seq(Change)
       /\ c.op = "set_limit" => c.value \in Int

VARIABLES
  drafts,   \* per draft: row, values, status, and the values that its stored
            \* validation and plan were computed of ({}: none is stored)
  jobs,     \* per request: its apply job: status, draft, plan
  runtime,  \* the override in etcd, 0 when there is none, and who wrote it
  pc,       \* per request: its next step
  call,     \* per request: what it asks for
  copy,     \* per request: the values of the draft it has read
  set,      \* per request: how many of its changes etcd has confirmed
  crossed,  \* drafts in which a request has written what it found in other values
  answer,   \* per request: the HTTP status, 0 while there is none
  faults

vars == <<drafts, jobs, runtime, pc, call, copy, set, crossed, answer, faults>>
mine == <<call, copy, set>>

NoReply == 1

\* A row of a draft whose changes are `values', as create makes it.
Fresh(values) ==
  [row |-> "live", values |-> values, status |-> "draft", validation |-> {}, plan |-> {}]

NoJob == [status |-> None]

Init ==
  /\ drafts = [d \in Ids |-> IF d = 0 THEN Fresh(First) ELSE [Fresh(<< >>) EXCEPT !.row = None]]
  /\ jobs = [r \in Requests |-> NoJob]
  /\ runtime = [value |-> 0, by |-> 0]
  /\ pc = [r \in Requests |-> "idle"]
  /\ call = [r \in Requests |-> [op |-> None]]
  /\ copy = [r \in Requests |-> << >>]
  /\ set = [r \in Requests |-> 0]
  /\ crossed = {}
  /\ answer = [r \in Requests |-> 0]
  /\ faults = 0

-----------------------------------------------------------------------------
(* What the controller computes from the changes of a draft *)

\* _validate_option_value with the minimum of the option
BadValue(change) == change.kind = "bad" \/ (change.kind = "runtime" /\ change.value < 1)

\* _validate_changes: errors make it invalid, other options only warn.
HasErrors(changes)  == \E i \in DOMAIN changes : BadValue(changes[i])
Validated(changes)  == IF HasErrors(changes) THEN "invalid" ELSE "valid"

\* _build_plan and _runtime_apply_supported: at least one step, all of them
\* updates at run time.
RuntimeApplySupported(changes) ==
  /\ ~HasErrors(changes) /\ changes # << >>
  /\ \A i \in DOMAIN changes : changes[i].kind = "runtime"

\* get_max_parallel_starts_per_host_with_source: what engines use, and what
\* the effective configuration shows.
Effective == IF runtime.value = 0 THEN Configured ELSE runtime.value

Exists(d) == drafts[d].row = "live"

-----------------------------------------------------------------------------
(* Requests *)

Ends(r, code) ==
  /\ pc' = [pc EXCEPT ![r] = "ended"]
  /\ answer' = [answer EXCEPT ![r] = code]

Goto(r, p) == pc' = [pc EXCEPT ![r] = p] /\ UNCHANGED answer

FirstStep(c) ==
  CASE c.op \in { "create", "delete" }       -> "write"
    [] c.op \in { "set_limit", "clear_limit" } -> "etcd"
    [] OTHER                                 -> "read"

Arrive(r) ==
  /\ pc[r] = "idle"
  /\ \E c \in Calls : call' = [call EXCEPT ![r] = c] /\ Goto(r, FirstStep(c))
  /\ UNCHANGED <<drafts, jobs, runtime, copy, set, crossed, faults>>

\* The answer of apply before anything is written, 0 if there is none, and
\* what it goes on with.  `applying' is a status nothing ever sets.
Objects(c, d) ==
  IF d.status \in { "applying", "applied" } THEN 409
  ELSE IF HasErrors(d.values) \/ c.wellformed THEN 0 ELSE 400

Continues(c, values) ==
  IF c.op # "apply" THEN "write"
  ELSE IF HasErrors(values) THEN "invalid"
  ELSE IF RuntimeApplySupported(values) THEN "queue" ELSE "unsupported"

\* _get, and the checks of apply on what it has read
Read(r) ==
  /\ pc[r] = "read"
  /\ LET d == drafts[call[r].draft] IN
     IF ~Exists(call[r].draft) THEN Ends(r, 404) /\ UNCHANGED copy
     ELSE IF call[r].op = "apply" /\ Objects(call[r], d) # 0
       THEN Ends(r, Objects(call[r], d)) /\ UNCHANGED copy
     ELSE copy' = [copy EXCEPT ![r] = d.values] /\ Goto(r, Continues(call[r], d.values))
  /\ UNCHANGED <<drafts, jobs, runtime, call, set, crossed, faults>>

-----------------------------------------------------------------------------
(* The writes.  admin_config_draft_update writes the columns it is given,  *)
(* whatever the others are by now; that the row is gone, nobody expects.   *)

\* mutant: new changes leave the old results
ResetNothing(d, values) == [d EXCEPT !.values = values]

\* Changed values take the results of the old ones with them.
Reset(d, values) == [d EXCEPT !.values = values, !.status = "draft", !.validation = {}, !.plan = {}]

Draft(r) == drafts[call[r].draft]

\* Request r makes its draft `found', after the values it has read.
Save(r, found, code) ==
  LET d == call[r].draft IN
  IF ~Exists(d) THEN Ends(r, 500) /\ UNCHANGED <<drafts, crossed>>
  ELSE /\ drafts' = [drafts EXCEPT ![d] = found]
       /\ crossed' = IF drafts[d].values = copy[r] THEN crossed ELSE crossed \cup {d}
       /\ Ends(r, code)

Create(r) ==
  /\ drafts' = [drafts EXCEPT ![r] = Fresh(call[r].values)]
  /\ Ends(r, 201)
  /\ UNCHANGED crossed

\* A name or a comment alone changes nothing that is modelled.
Update(r) ==
  LET d == call[r].draft IN
  IF ~Exists(d) THEN Ends(r, 500) /\ UNCHANGED <<drafts, crossed>>
  ELSE /\ drafts' = [drafts EXCEPT ![d] = IF "values" \in DOMAIN call[r] THEN Reset(@, call[r].values) ELSE @]
       /\ crossed' = IF "values" \in DOMAIN call[r] THEN crossed \ {d} ELSE crossed
       /\ Ends(r, 200)

Delete(r) ==
  LET d == call[r].draft IN
  /\ IF ~Exists(d) THEN Ends(r, 404) /\ UNCHANGED drafts
     ELSE drafts' = [drafts EXCEPT ![d].row = "deleted"] /\ Ends(r, 204)
  /\ UNCHANGED crossed

Validate(r) == Save(r, [Draft(r) EXCEPT !.status = Validated(copy[r]), !.validation = {copy[r]}], 200)

Plan(r) == Save(r, [Draft(r) EXCEPT !.plan = {copy[r]}], 200)

Write(r) ==
  /\ pc[r] = "write"
  /\ CASE call[r].op = "create"   -> Create(r)
       [] call[r].op = "update"   -> Update(r)
       [] call[r].op = "delete"   -> Delete(r)
       [] call[r].op = "validate" -> Validate(r)
       [] OTHER                   -> Plan(r)
  /\ UNCHANGED <<jobs, runtime, mine, faults>>

-----------------------------------------------------------------------------
(* apply *)

\* The changes have errors: the draft is marked, the client told so.
RefuseInvalid(r) ==
  /\ pc[r] = "invalid"
  /\ Save(r, [Draft(r) EXCEPT !.status = Validated(copy[r]), !.validation = {copy[r]}], 400)
  /\ UNCHANGED <<jobs, runtime, mine, faults>>

\* Options that only a redeployment changes: no job, the status stays.
RefuseUnsupported(r) ==
  /\ pc[r] = "unsupported"
  /\ Save(r, [Draft(r) EXCEPT !.validation = {copy[r]}, !.plan = {copy[r]}], 409)
  /\ UNCHANGED <<jobs, runtime, mine, faults>>

Queue(r) ==
  /\ pc[r] = "queue"
  /\ jobs' = [jobs EXCEPT ![r] = [status |-> "queued", draft |-> call[r].draft, plan |-> copy[r]]]
  /\ Goto(r, "set")
  /\ UNCHANGED <<drafts, runtime, mine, crossed, faults>>

AllSet(r) == set[r] = Len(copy[r])

\* set_max_parallel_starts_per_host for one change after the other
SetNext(r) ==
  /\ pc[r] = "set" /\ ~AllSet(r)
  /\ runtime' = [value |-> copy[r][set[r] + 1].value, by |-> r]
  /\ set' = [set EXCEPT ![r] = @ + 1]
  /\ UNCHANGED <<drafts, jobs, pc, call, copy, crossed, answer, faults>>

Fault == faults < MaxFaults /\ faults' = faults + 1

\* The put raises, with no effect or, when only its answer is lost, with all.
SetFails(r) ==
  /\ pc[r] = "set" /\ ~AllSet(r) /\ Fault
  /\ Goto(r, "failed")
  /\ runtime' \in { runtime, [value |-> copy[r][set[r] + 1].value, by |-> r] }
  /\ UNCHANGED <<drafts, jobs, mine, crossed>>

\* mutant: a failure is recorded like a success
SettledAlike(r, status) == jobs' = [jobs EXCEPT ![r].status = "succeeded"]

Settled(r, status) == jobs' = [jobs EXCEPT ![r].status = status]

\* _record_apply_failure; a Masakari exception, which the store raises before
\* its first put only, is a bad request, any other an internal error.
RecordFailure(r) ==
  /\ pc[r] = "failed"
  /\ Settled(r, "failed")
  /\ \E code \in { 400, 500 } : (code = 400 => set[r] = 0 /\ runtime.by # r) /\ Ends(r, code)
  /\ UNCHANGED <<drafts, runtime, mine, crossed, faults>>

RecordSuccess(r) ==
  /\ pc[r] = "set" /\ AllSet(r)
  /\ Settled(r, "succeeded")
  /\ Goto(r, "applied")
  /\ UNCHANGED <<drafts, runtime, mine, crossed, faults>>

\* The draft is marked last, whatever it has become.
MarkApplied(r) ==
  /\ pc[r] = "applied"
  /\ Save(r, [Draft(r) EXCEPT !.status = "applied", !.validation = {copy[r]}, !.plan = {copy[r]}], 202)
  /\ UNCHANGED <<jobs, runtime, mine, faults>>

-----------------------------------------------------------------------------
(* The start limit itself: PUT and DELETE of staged-recovery/start-limit,  *)
(* masakari-manage staged_recovery set_start_limit and clear_start_limit.  *)

SetLimit(r) ==
  /\ pc[r] = "etcd" /\ call[r].op = "set_limit"
  /\ IF call[r].value < 1 THEN Ends(r, 400) /\ UNCHANGED runtime
     ELSE runtime' = [value |-> call[r].value, by |-> r] /\ Ends(r, 200)
  /\ UNCHANGED <<drafts, jobs, mine, crossed, faults>>

ClearLimit(r) ==
  /\ pc[r] = "etcd" /\ call[r].op = "clear_limit"
  /\ runtime' = [value |-> 0, by |-> r] /\ Ends(r, 204)
  /\ UNCHANGED <<drafts, jobs, mine, crossed, faults>>

\* The same calls, when etcd raises.
LimitFails(r) ==
  /\ pc[r] = "etcd" /\ Fault
  /\ \/ UNCHANGED runtime
     \/ call[r].op = "set_limit" /\ call[r].value >= 1 /\ runtime' = [value |-> call[r].value, by |-> r]
     \/ call[r].op = "clear_limit" /\ runtime' = [value |-> 0, by |-> r]
  /\ Ends(r, 500)
  /\ UNCHANGED <<drafts, jobs, mine, crossed>>

\* A transaction raises and is rolled back: nobody takes it up again, and a
\* job whose record it was to be stays as it is.  (One that was committed
\* when it raised has the effect of its step, and of an answer that is lost.)
TransactionFails(r) ==
  /\ \/ pc[r] \in { "read", "write", "invalid", "unsupported", "queue", "failed", "applied" }
     \/ pc[r] = "set" /\ AllSet(r)
  /\ Fault
  /\ Ends(r, 500)
  /\ UNCHANGED <<drafts, jobs, runtime, mine, crossed>>

\* An API process dies.
Die(r) ==
  /\ pc[r] \notin { "idle", "ended" } /\ Fault
  /\ Ends(r, NoReply)
  /\ UNCHANGED <<drafts, jobs, runtime, mine, crossed>>

Step(r) ==
  \/ Read(r) \/ Write(r)
  \/ RefuseInvalid(r) \/ RefuseUnsupported(r)
  \/ Queue(r) \/ SetNext(r) \/ RecordFailure(r) \/ RecordSuccess(r) \/ MarkApplied(r)
  \/ SetLimit(r) \/ ClearLimit(r)
  \/ SetFails(r) \/ LimitFails(r) \/ TransactionFails(r)

Next == \E r \in Requests : Arrive(r) \/ Step(r) \/ Die(r)

Spec == Init /\ [][Next]_vars

-----------------------------------------------------------------------------
(* Properties *)

Job(r) == jobs[r].status # None

\* A job tells what became of the limit.  One that succeeded has written all
\* of its changes, and the limit in force is its last value until somebody
\* else writes.  Of one that failed, or is queued for ever, the limit in force
\* is the last change that etcd has confirmed or the one after it, and a job
\* that failed has confirmed less than all.  Who leaves a job queued has told
\* its client nothing, or 500; who was told of success finds it succeeded; and
\* what is in force is never less than one.
JobsTellTheTruth ==
  /\ Effective >= 1
  /\ \A r \in Requests : Job(r) =>
       LET plan == jobs[r].plan IN
       /\ jobs[r].status = "succeeded" =>
            /\ set[r] = Len(plan)
            /\ runtime.by = r => Effective = plan[Len(plan)].value
       /\ jobs[r].status = "failed" => set[r] < Len(plan)
       /\ runtime.by = r => \E i \in DOMAIN plan \cap { set[r], set[r] + 1 } : Effective = plan[i].value
       /\ jobs[r].status = "queued" /\ pc[r] = "ended" => answer[r] \in { NoReply, 500 }
       /\ answer[r] \in 200 .. 299 => jobs[r].status = "succeeded"

\* The result that _record_apply_failure stores with a failed job says that
\* nothing was changed.
FailedChangesNothing ==
  \A r \in Requests : jobs[r].status = "failed" => runtime.by # r

\* What a draft says of itself it says of the changes it has: valid and
\* invalid, the stored validation and plan, and applied, which a job has done
\* with exactly these changes.  Only requests on one draft that overlap break
\* that: one that found something of the changes before another replaced them.
DraftsSayWhatTheyAre ==
  \A d \in Ids \ crossed : Exists(d) =>
    LET now == drafts[d].values IN
    /\ drafts[d].status \in { "valid", "invalid" } => drafts[d].status = Validated(now)
    /\ drafts[d].validation \cup drafts[d].plan \subseteq {now}
    /\ drafts[d].status = "applied" =>
         \E r \in Requests : /\ Job(r) /\ jobs[r].status = "succeeded"
                             /\ jobs[r].draft = d /\ jobs[r].plan = now
=============================================================================
