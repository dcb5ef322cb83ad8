# Verification of masakari: TLA+ models, TLC checks and TLAPS proofs

Masakari keeps the instances of an OpenStack cloud running: monitors report the
failure of a compute host, of a process on it or of one instance, the API turns the
report into a *notification* row, and an engine recovers what was running there.
This directory holds TLA+ models of that program (`src/masakari`), the TLC
configurations that check them on small instances, and proofs, for every instance, of
every invariant those runs check.

## 1. Inventory

| Part | Source | State it keeps | Operations | What is hard about it | Module |
|---|---|---|---|---|---|
| Notification engine | `engine/manager.py`, `utils.py` | notification rows (shared), in-memory copies, a process-local lock per host | RPC `process_notification`; periodic tasks: unfinished, expired, stale staged recoveries | several engines and threads, stale copies, lost casts, crashes, retries | `NotificationEngine` |
| API: notifications | `ha/api.py`, `engine/rpcapi.py`, `coordination.py` | rows, casts, a tooz lock per host name | create (maintenance check, duplicate check, insert, cast), list, show | check-then-act over three transactions by several API processes, failing casts | `HaApi` |
| API: segments, hosts | `ha/api.py`, `objects/segment.py`, `objects/host.py` | segment and host rows | create, update, delete behind `is_failover_segment_under_recovery` | the check and the change are separate transactions | `HaApi` |
| Before the controllers | `api/urlmap.py`, `api/auth.py`, `api/openstack/*`, `policy.py`, `api/validation/*` | none | URL map, filters, routes, versions, body, schema, policy | which of many stages answers first | `Pipeline` |
| Taskflow driver | `engine/drivers/taskflow/driver.py`, `base.py` | none | picks the flow, falls back to the other method, translates exceptions | what an earlier flow left in the database decides the later one | `HostRecovery`, `NovaFlows` |
| Host failure flow | `host_failure.py` | VM moves (rows), nova instances, reserved hosts, process-local lock per reserved host | disable, prepare, evacuate, confirm; retry over reserved hosts | concurrent failures share reserved hosts; retries see old VM moves | `HostRecovery` |
| Instance and process failure flows | `instance_failure.py`, `process_failure.py` | nova's instance and service | stop, start, confirm; disable, confirm | nova acts late, refuses or gives up; users and a second recovery between the tasks | `NovaFlows` |
| Staged recovery | `staged_host_failure.py`, `staged_state_etcd.py`, stale reconciliation in `manager.py` | a record per instance in etcd | evacuate stopped, wait for a slot, start, confirm | etcd CAS, two workers on one notification, resuming | `StagedRecovery` |
| Start slots | `staged_limiter.py` | a lease per slot in etcd, the limit | acquire, release, change the limit | leases that expire, time | `StartLimiter`, which implements `StartSlots` |
| Fencing | `fenced_host_failure.py`, `fencing_state_etcd.py`, `redfish_fencing.py` | failure records, fence state per host, two kinds of lock in etcd | register, limit, fence through the BMC, gate the evacuation | leases under a slow BMC, retries, two engines | `Fencing` |
| Admin config | `api/openstack/ha/admin_config.py`, `staged_recovery.py` | drafts and apply jobs (rows), the run-time limit in etcd | create, update, validate, plan, delete drafts; apply | concurrent requests on one draft, half-applied changes | `AdminConfig` |
| Database layer | `db/sqlalchemy/api.py`, `objects/*` | the rows | CRUD with soft deletion, paging, purge | paging while rows change; order of purging and foreign keys | `Tables`, and the rows in the others |
| Versioned notifications, services, CLI | `notifications/*`, `cmd/*`, `service.py`, `rpc.py` | none | emit events, start processes | plumbing | partly in `HaApi`, `Tables`, `AdminConfig` |

How the parts interact: the API inserts a notification row and casts
`process_notification` to the engines' RPC topic. An engine thread reads and saves that
row, calls the taskflow driver, and the flows call nova, the VM move rows, the host rows
(a reserved host that is used stops being reserved) and, in staged and fenced recovery,
etcd. Periodic tasks in every engine list the same rows. Nothing but the database, etcd and
the tooz coordinator is shared between processes: the "locks" of `utils.synchronized` are
local to a process.

What makes each part correct, in a sentence:

- *engine*: a notification is recovered at most once and retried at most once, except after a
  crash, a database error or a stale workflow set it back; it ends in a final status, and a
  status says what was done for the row;
- *API*: a failure is accepted once, the answer and the events tell what happened, and nothing
  is changed under a recovery that was there to be seen;
- *host failure flow*: FINISHED means nothing is left on the failed host that the configuration
  lets the flow consider; a reserved host is used by
  one recovery; nothing stays locked;
- *instance flow*: an instance a recovery stopped is started or reported;
- *staged recovery*: whatever engine goes on where another stopped, no instance is started
  that was stopped before, none that is still on the failed host, and what was achieved is
  not turned into a failure;
- *start slots*: never more instances starting on a host than the limit, no slot used twice,
  none lost;
- *fencing*: nothing is evacuated from a host that is not off, no more hosts are fenced than
  allowed, and no lock keeps a recovery waiting for ever;
- *admin config*: a job says what became of its values, a draft says what was found of its own;
- *database layer*: a list shows each row that stays put once; hosts go with their segment; a
  purge is stopped by nothing but what a race left behind or its own cutoff splits.

## 2. Plan

| Order | Module | What it is | State |
|---|---|---|---|
| 1 | `NotificationLifecycle` | abstract: the life of the status column | done |
| 2 | `NotificationEngine` | implements `NotificationLifecycle` for one engine | checked, proved, the refinement included |
| 3 | `HostRecovery` | driver, host failure flow, nova | checked, proved |
| 4 | `StartSlots`, `StartLimiter` | abstract: who has the slot of an instance; and slots as leases in etcd, with time | checked, proved, the refinement included |
| 5 | `StagedRecovery` | staged flow, etcd records, stale reconciliation | checked, proved |
| 6 | `Fencing` | failure sets, locks, fence states, the gate before evacuation | checked, proved |
| 7 | `HaApi` over `Pipeline` | requests that change rows, behind the stages before a controller | checked, proved |
| 8 | `Tables` | paging and purging | checked, proved |
| 9 | `AdminConfig` | drafts, applies, jobs, the start limit | checked, proved |
| 10 | `NovaFlows` | instance and process flows against a late nova | checked, proved |

Every invariant and action property of the passing runs is now a theorem, and so are both
refinements; the liveness properties are checked only. What is left is the refinement of the
lifecycle with expiry, operators' updates and the stale reconciliation, whose own steps in the
status graph `NotificationLifecycle` does not allow. `AtMostOneRetry` is about one engine. With two there is nothing to put in its
place: two periodic tasks that list the same ERROR row can take turns in recovering it and
listing it again, without end (`MCEngine_twice.cfg` shows the first turn).

## 3. The modules

### NotificationEngine (and NotificationLifecycle)

The module is `MasakariManager` as its threads run it. A worker is an RPC handler thread or
the thread of the periodic tasks of one engine.

| In the module | In the code |
|---|---|
| `status`, `src`, `kind`, `age` | a notification row: its status, `source_host_uuid`, type and payload as far as a handler tells them apart, and its age |
| `thread[w].row`, `.copy` | the `notification` object a thread has in scope, and its in-memory status, which may be older than the row |
| `batch[w]` | `notifications_list` of a periodic task: the copies listed and not yet worked through |
| `lock` | the semaphore of `utils.synchronized`, per engine and host |
| `casts` | messages on the RPC topic |
| `onMaintenance`, `enabled`, `update` | host and segment columns, and an API update between its check and its save |
| `Deliver`, `Ignore` | `process_notification`, segment disabled |
| `Acquire`, `Claim`, `Handle`, `Recover`, `Save`, `HandlerDies` | `_process_notification`: lock and read, save RUNNING, the handler before and after it calls the driver, save the verdict, an exception of the handler |
| `DatabaseFails` | a transaction that raises at any of these points and of the tasks below: the thread unwinds, with its lock and its listing, the row stays as it is |
| `StartUnfinished`, `TakeListed`, `Recheck`, `Fail`, `EndBatch` | `_process_unfinished_notifications` |
| `StartExpired`, `ExpireListed` | `_check_expired_notifications` |
| `FindStale`, `Reconcile` | `_process_stale_staged_recoveries` (with `Staged`): RUNNING becomes ERROR, maybe beside the thread that is recovering the row |
| `setbacks[n]` | history: how often a row in the middle of something was set back by a crash, a database error or the reconciliation |
| `Create`, `Tick`, `BeginUpdate`, `SaveSegment`, `SaveHost`, `Crash` | the API, the clock, operators, death and restart of an engine |

Each transaction of the code is one action; two transactions of one function are two, so that
everything can happen between them. A recovery flow is a choice among the verdicts its
handler can save. `NotificationLifecycle` is what a client may rely on: the status graph,
FAILED only from ERROR, and at most two attempts, one more for each setback (`Disturb`): a
row whose retry failed, and whose thread dies between that and the save of FAILED, stays ERROR
and is recovered a third time (manager.py:429-440). `ImplementsLifecycle` states that the engine
refines it under the mapping `attempts <- runs`.

Abstractions: `generated_time` is the time of creation; a host is not deleted while a cast
for it is under way; notifications of other segments do not exist; versioned notifications
are not sent; what the reconciliation reads in etcd is any set of notifications (in
`StagedRecovery` it is what the records say). A finished row is never RUNNING again but through
the reconciliation: ERROR beside a live thread, FINISHED by that thread, and claimed once more by
the periodic task that had listed it as ERROR.

### HostRecovery

One engine, several failed hosts, one thread per failed host. `flow[f]` is the flow that
recovers `f`: which task it is in, the list of reserved hosts read at the start and what the
retry has left, the rows the attempt read. `vmove` are the VM move rows, per instance and
attempt; `place`, `moving`, `serving`, `locker` are nova's. The actions are the tasks
(`Disable`, `Prepare`, `Evacuate`, `Enable`, `Unreserve`, `Join`), the green thread of a row
(`Begin`, `Refused`, `ThreadDies`, `Confirm`, `GiveUp`), the driver (`Start`, `Retry`,
`FallBack`, `Conclude`, `TaskFails`) and nova (`Rebuilt`, `RebuildFails`). Nova may finish a
rebuild long after masakari gave up on it.

`Considered(f)` are the instances `_filter_instances` leaves at that moment: not those
`Excluded` (`evacuate_all_instances` off and no `HA_Enabled`), nor, with `IgnoreErrors`
(`ignore_instances_in_error_state`), those in error. A rebuild nova gives up may leave its
instance in error (`inError`), and the retry of the flow, or of the notification, then passes
over it: FINISHED is a promise about `Considered` at the verdict, and no other. In the run the
error is a choice, so `IgnoreErrors = TRUE` includes what is possible without it.

Abstractions: which of the reserved hosts is tried next is arbitrary; a failed host is not
itself a reserved one; stopping an instance that was stopped before is part of `Confirm` and
`GiveUp`; host aggregates are left out.

### NovaFlows

The recoveries of one instance and of one compute service, from the handlers of
`manager.py` over `execute_instance_failure` and `execute_process_failure` to the tasks. Every
notification is of that instance or that host and may be worked on at once with the others,
because the engine's lock is local to its process. `server` is what nova says: the state, what
nova is doing, who asked for it and who asked for the last stop; nova completes an operation
whenever it likes or gives it up, answers 409 to what it will not do, and serves users, who
pause, resize, rescue, stop and start the instance and take `HA_Enabled` away between two
calls. Each call to nova is a step (`Get`, `Reset`, `Stop`, `GetAgain`, `Start`); a wait
(`PollEnds`) ends in the state waited for or, at any moment, in its timeout. `Take` and
`Settled` reduce the engine to "run, and once more after an ERROR"; lost casts, copies and
crashes are `NotificationEngine`'s.

Abstractions: timeouts are positive (0 turns them off); `reset_instance_state` sets "active"
whatever the state has become meanwhile, as nova's administrator call does; the message of a
verdict and the progress details are left out.

### StartLimiter (and StartSlots)

One destination host. `lease` and `age` are the etcd keys of its slots and how old their
leases are, `lock` is the tooz lock, `pc` and `spent` say where an attempt is and for how
long. `Lock`, `List`, `Create` are `EtcdStartLimiter.acquire`, `Call`, `Poll`, `Delay`,
`Release` are `_start_one` from there on. `Tick` lets time pass unless a timeout is due, so
that the timeouts of the code are deadlines of the model; `Expire` is etcd deleting an
expired key.

`StartSlots` is what the staged flow relies on, without etcd, lock and time: an attempt takes
the slot of its instance while nobody has it and fewer slots are taken than some limit in force
allows, gives it back itself, and loses it only by dying. `ImplementsStartSlots` states that the
leases implement it, with `holder <- lease` and the phase of an attempt read off its place
(`Phase`).

### StagedRecovery

One notification whose workflow is run by several engines in turn, or at once. `record`
(`step`, `original`, `writer`) is the etcd record per instance, written by
compare-and-swap (`Transition`) or unconditionally (`Update`) as in
`staged_state_etcd.py`; `writer` only marks which run wrote last, which is what the age of
`updated_at` means to `list_stale_instance_states`. Tasks are `Prepare`, `Reconcile`,
`StartEvacuation` with its threads (`SkipEvacuation` to `EvacuationDies`), `StartInstances`
with its threads (`WaitForSlot` to `FailStart`) and `Finish`; `ReconcileStale` is the periodic
task; `ExpireSlot`, `Evacuated` and `Started` are etcd and nova.

`Prepare` filters with `Excluded` and `IgnoreErrors` as in `HostRecovery`; an evacuation that
failed may leave its instance in error, and a second run then skips over it.

Abstractions: the choice of flow is `HostRecovery`'s, the number of slots `StartLimiter`'s,
the details of the row's status `NotificationEngine`'s (an engine enters with the status it
finds); reserved hosts are not told apart from other destinations; time is replaced by "could
have been silent long enough", which is true of a workflow that died and of one that waits.

### Fencing

The hosts of one segment and one BMC each. An event is one host notification in one engine;
`pc` is the call it makes next. `Register` (the failure), `GetState` and `PutState` (the
reset of the state), `List`, `Disable` are the collecting tasks,
`LockSegment`, `LockHost`, `Transition`, `Lookup`, the client (`ReadSystem`, `PostForceOff`,
`WaitRead`, `WaitFails`, `RequestFails`), `MarkFenced`, `MarkFailed`, `UnlockHost`,
`UnlockSegment`, `AssertFenced` are `RedfishFenceFailureSetTask`, `Gate` is
`AssertFailureSetFencedTask`. `raised` carries an exception through the `finally`s, so that
what they do on the way out is part of the model. The environment: the power of a host, which
comes back on after an evacuation or before; leases that run out; etcd calls that raise, without
effect or with all of it (`Lost`);
engines that die and events that are run again (`Start`) with what the run before left in etcd.

Abstractions: a BMC that reads Off is truthful; the short cut for a host that reads Off before
ForceOff (`redfish_fencing.py:289`) leads through the same reads; the failures of a window age
one by one. A lock expires only when its
holder is dead or gone, unless `SlowFencing`.

### HaApi and Pipeline

`Pipeline` is what a request passes before a method of a controller runs, as a sequence of
stages: the URL map, the size limit, the identity headers, the router, the version, the content
type, the method, the body, the project, the schema, the policy. A request is a record of the
cases these stages answer differently; routes are the collections the extensions register with
what their controllers can do. `Screened` is the answer of the first stage that refuses.

`HaApi` runs the admitted requests: `create_segment` to `delete_host` and the notifications.
`pc` is the next transaction of a request; `ReadSegment`, `ReadHost`, `ReadHostByName`,
`CheckRecovery`, `CheckName`, `CheckDuplicate`, `Write`, `Cast` are the transactions, `Lock` the
blocking tooz lock on a host name (only for COMPUTE_HOST and with a backend), `Die` the death of
an API process, `Handle` the engines. `Refusal` says which exception a controller turns into
which answer (any other is a 500), `events` are the versioned notifications `start`, `end`,
`error` of a request. `known`, `earlier`, `wrote` are histories: what a check saw, which
requests had ended before this one began, whether this one changed the database.

### Tables

Six tables whose `..._get_all` functions are copies of one scheme, modelled once. A client walks
a list: `Ask` is the controller (limit, marker, sort keys and directions, with what it refuses),
`Query` the one transaction of a page, `IsLast` how the client takes its next marker. Meanwhile
rows are created, changed and soft-deleted, and `masakari-manage db purge` goes through the
tables in the order of `PurgeOrder`, one transaction per table (`PurgeTable`) under one budget of
rows. Rows of notifications are purged by status and time of the last update, all others
once soft-deleted, which nothing ever does to VM moves and apply jobs.

Deleting a segment is one transaction of two statements, the segment's and then its hosts',
each with a time of its own; the clock of whoever writes may be behind, and a time may be taken
before the commit, by `Lag` at most. So a host's `deleted_at` may be later than its segment's, and a
purge whose cutoff lies between the two ends at the foreign key: `StopsPurge` names that case
besides the orphans.

`raced` are the hosts that were created into a segment deleted since the request had read it.
`steady`, `seen` and `slipped` say what a walk ought to have shown and did. What the tables hold
at the start (`Initial`) is anything the code can have left there: times that fit the states
(`Sound`), and hosts that were deleted with their segment, at most `Lag` after it, or before
(`HostsFollow`); orphans from
the past would only be members of `raced` at the start.

Abstractions: one column stands for those a client may filter or sort by and an update
changes; NULL in a sort column is not modelled.

### AdminConfig

Requests on drafts, each read and write a step: `Read`, then `Create`, `Update`, `Delete`,
`Validate`, `Plan` or, for apply, `RefuseInvalid`, `RefuseUnsupported`, or `Queue` (the job row),
`SetNext` (one value to etcd), `RecordFailure` or `RecordSuccess`, `MarkApplied`. `SetLimit` and
`ClearLimit` are the other writers of that value, the staged-recovery API and
`masakari-manage`. Every call may fail: a put of apply (`SetFails`) or of the other writers
(`LimitFails`) raises with no effect, or after etcd applied it; a transaction (`TransactionFails`)
is rolled back and the client gets a 500, whatever is in etcd by then; a process dies (`Die`). So a
job stays queued although nobody died, and one that failed may have written one change more than
`set` counts. Changes are "runtime", "reconfigure" or "bad", which is all the code tells
apart. `crossed` marks the drafts in which a request wrote what it found of values that another
request had replaced in between.

## 4. The runs

| Run | Instance | Shows |
|---|---|---|
| `engine_one` | one engine, an RPC handler, a periodic thread, two notifications of one host, a crash, a database error, liveness | rows refine the lifecycle; the host lock is held by exactly the thread inside; every notification is taken up, its cast lost or not |
| `engine_worst` | one engine, one notification of every kind, a crash, two database errors, stale reconciliations, an update, expiry, liveness | types; NEW means untouched; verdicts have causes; at most one retry, plus one for each setback; every notification settles |
| `host_two` | two failed and two reserved hosts, evacuation threads that die, liveness | reserved hosts are exclusive and spare; recoveries end |
| `host_methods` | one failed host, three instances of which one is excluded, instances left in error and ignored, the four methods, two runs | FINISHED means evacuated; nothing stays locked; types |
| `limiter` | four attempts of three instances, limits 1 and 2, a crash, a change of the limit, liveness | slots are own, starts within the limit, every attempt ends; the leases implement the slots |
| `staged_resume` | two engines, two instances of which one ran, two runs, a crash, instances in error ignored, liveness | what a resumed workflow may not do, and that it is resumed |
| `fencing_gate` | three hosts, two events on one host or two, limits 1 and 2, a retry, a fault, liveness | evacuated hosts are off; the limit holds; one fencer per segment; every fencing ends and leaves no lock |
| `haapi_three` | three requests out of eleven (one of them also in eighteen malformed forms), one fault, with and without a backend | a failure is accepted once; answers and events tell the truth; checks see what is there; orphan hosts are raced |
| `tables_walk` | one walk over one of six lists, two written rows, a purge, three ticks, times that differ by one | each row that stays put is shown once; hosts follow their segment; only orphan hosts, or the edge of its cutoff, stop a purge |
| `admin_drafts` | three requests of any kind on two drafts, two faults | jobs tell the truth; drafts say what they are |
| `nova_pair` | two notifications of six kinds on one instance and host, two moves of users, two faults, liveness | an instance left stopped is reported; every recovery ends |
| `staged_forgotten` | one engine, one instance, two runs | **violated**: an instance that was active stays stopped under FINISHED |

Why the bounds are enough. A handler and a periodic thread are the two kinds of thread an engine
has, and with two notifications of one host they compete for its lock (more handlers, and more
engines, are in the proofs); ages up to
`ExpiryAge` tell "too young to retry", "old enough" and "expired" apart and nothing else in
the code looks at age; `RunCap` is the number of recoveries a row may have that was set
back by every fault of the instance, so one recovery too many shows for each row set back less
often. A crash and a database error give every place where a thread can end between two
transactions; two errors make the second of them hit what the first left.
Two reserved hosts make a retry after a failed attempt possible, two failed hosts make them
compete, two threads per pool the unlock race. In the limiter, limits 1 and 2 with four
attempts, two of one instance, give a full host, a free slot and a taken key; its clock is
short (`StartTimeout` 1, `CallTime` 0, `TTL` 2), and the theorems cover all other values. In
the staged flow one instance that was active and one that was not are the two cases the code
tells apart, and two runs are all `AtMostOneRetry` allows without a crash. In the fencing run
two events give each pair of engines on one host and on two, a retried first event meets every
state its first run can leave, and the third host is what `MinSurviving` counts. Three requests
are a check, a write that invalidates it and a third that finds the result; one fault is a
death or a failing cast at any point, and two in `admin_drafts` are a failing put and a failing
record of it. Three hosts in a list of pages of one, two of them created
in one second, give ties, a marker that moves and one that goes; `Lag` 1 puts a cutoff between the
two times of one deletion. Two changes per draft make an
apply that fails half way. Two notifications are the two recoveries of one instance that can
meet, two faults let nova give up the stop of the first attempt and of its retry.

Symmetry is used in `host_methods` (reserved hosts) and `haapi_three` (requests), never with a
liveness property. `CHECK_DEADLOCK FALSE` is set where the system may really stop: recoveries,
attempts, requests or events that are all over. The passing engine runs are checked for deadlock.

### Fairness

- *engines*: a thread inside a handler goes on, since every wait of the flows has a timeout
  (weak); the clock runs (weak); the host lock is a semaphore with a FIFO queue and periodic
  tasks come round again after their spacing, so a thread that can take the lock, or start
  its task, again and again does so in the end (strong). Nothing is assumed of casts, of the
  API, of operators or of crashes.
- *host flow*, *nova flows*: the engine's steps and its periodic task (weak). Nova need not
  answer, users need not act.
- *limiter*: attempts go on, time passes (weak), a lock asked for again and again is obtained
  (strong). Nobody need crash or change a limit.
- *staged*: workflows go on, the periodic tasks come round and leases expire.
- *fencing*: events go on and the leases of the dead run out (weak). Whether a lock is free is
  asked once, a taken lock is an error: nothing need be strong. BMCs need not answer.

## 5. What is proved

All proofs are by invariance: an inductive strengthening, true at the start, kept by every
step, from which the theorem follows, for every value of the constants that meets the
assumption named in the module. Except where it is said, that assumption only gives the
constants their types. What a theorem needs beyond it stands in its statement.

- `NotificationEngineProofs`: `TypeCorrect`, `NewRowsAreUntouched`, `VerdictsHaveCauses`,
  `LocksMatchHolders`, for any number of engines. The invariants the runs check are not
  inductive by themselves: a thread about to save a verdict must be known to have begun a
  recovery of *its* row, and one about to save IGNORED to have read a disabled segment.
  `AtHand` says which object is in scope at each point, `History` what must have happened for
  a thread to be there. The proof is organised by moves: `MovesTo` describes how any action
  changes its thread, `QuietMove`, `RowChange` and `SavedVerdict` what that does to the
  invariants.
  `RetriedOnce` (one engine with one periodic thread): `AtMostOneRetry`, at most two recoveries and
  one more for each setback, with database errors and the stale reconciliation. Two engines refute
  it, so the argument has to use the lock. `Copies` says what a copy at hand is worth: ERROR
  copies are only in the periodic thread's listing. `Budget` says that whoever may still begin
  a recovery finds one to be spent; two threads of one row inside the handler are excluded by
  `LockMatchesHolder`, because the row's host decides the lock.
  `Refinement` (`Undisturbed`: one engine, no stale reconciliation, no update by an operator, no
  row old enough to expire): `ImplementsLifecycle`, each step of the engine an `Attempt`, a
  `Settle`, a `GiveUp`, a `Report`, a `Disturb` or a stutter; crashes, database errors and
  exceptions are within. `Fresh` is what it needs: the status a thread decides from is still the
  row's when it writes. What is left out is what breaks it in the code: expiry makes a RUNNING row
  FAILED, a disabled segment a NEW one IGNORED, the reconciliation lets a FINISHED row be claimed
  again. The hypotheses are those the run `engine_one` instantiates, for any number of rows,
  hosts and handlers.
- `HostRecoveryProofs`: `TypeCorrect`, for which the loops of driver and retry must be shown to
  end (`WithinOf`: attempts made and still ahead fit a run's share); `OneRecovery`
  (`Exclusive`: the lock on a reserved host is held at every step that touches it); and with
  the hypotheses of the properties, `LocksEnd` and `FinishedIsEvacuated` with `NovaAnswers`
  (no thread dies before its `try`), `SpareHosts` with `Methods` "auto" and "reserved_host".
  `FinishedIsEvacuated` is the long one: an instance still on the host and to be considered has a row in the pool
  or a FAILED row at every moment of an attempt (`CoveredOn`), so that the judgement over the
  rows cannot miss it.
- `NovaFlowsProofs`: `StopsAreReported`. A stop that nova completes when its recovery has given
  up is the case a test would not find; `StopPending` keeps the recovery that asked for it
  from ending well before it is done. The assumption says that "user" names no notification.
- `StagedRecoveryProofs`: `TypeCorrect`, `OriginalsAreKept`, `StartsAlwaysSafe`, for any number
  of engines that may run the workflow at once. `IInv` relates four views of an instance: what
  nova says, the record, the VM move row and the place of the thread (`Kept`, `Untouched`,
  `Chosen`, `Placed`, `Recorded`). It is needed because `StartsAreSafe` is about nova, while
  the code decides from the record, which was written by another thread, maybe of another
  engine. `FailedMovesCount` and the action property `ResumingKeepsWhatIsAchieved` are about
  workflows that run in turn; `InTurn` says that then one thread at most is at work on an
  instance, and what the tasks before have settled.
  The second half of the module is about the start slots those workflows wait for
  (`StartLimiter`, whose names differ from the workflow's; the assumption is what
  `_validate_ttl` enforces): `SlotsTypeCorrect`, and with `RoomForCalls`,
  `TTL > CallTime + StartTimeout + BatchDelay`, also `SlotsAreOwn`, `LimitHolds` and
  `SlotsRefinement`. `SlotsInv` bounds the age of a lease by the phase of its holder (`Owned`),
  keeps counting and creating under the lock (`Serial`), and carries the count from `List` to
  `Create` (`Counted`); that a lease is of its attempt's own instance and was created by it
  (`Leases`) makes its expiry a `TakeFromTheDead`. `RoomForCalls` is stated in the theorems and
  not assumed of the program: `MCLimiter_ttl.cfg` shows that the check the code makes is not
  enough.
- `FencingProofs`: `TypeCorrect`, `GateHolds`, `OneFencer`, `LimitHolds`. The gate needs no
  lock: registering a failure takes every earlier proof away, so FENCED, whoever wrote it
  since, was written after reads of Off and is still true while an event of the host runs
  (`ProofsAreFresh`). The proof covers `SlowFencing`, locks that run out under their holder.
- `HaApiProofs`: `TypeCorrect`, `AnswersAreTrue`, `ChecksHold`, `OrphansComeFromRaces`,
  `FailuresAreAcceptedOnce`. The assumption about `Calls` says which fields a call of each kind
  has, as `Pipeline`'s schemas make sure of. Each theorem relates a request to those that ended
  before it began (`EarlierEnded`): `OrphanInv` follows a segment's deleter and its hosts'
  creators, `DuplicateInv` two rivals from the lock over the check to the row, where the one
  that comes second must see the first.
- `AdminConfigProofs`: `JobsAreTrue`, `DraftsAreTrue`, for any lists of changes and any calls
  that fail. `JobTells` reads what a job says off the point its request has come to and the changes
  it knows to be set: the limit in force is the last of them or the one after it (`InForce`); that
  only valid limits are ever applied (`LimitsAreGood`) keeps the limit in force positive;
  `Says` is kept by requests that write what they found of the values still there.

- `TablesProofs`: `PagesShowEachOnce`, `PurgeStopsForOrphans`, `HostsGoWithSegments`, for any
  number of rows, any list requests and purges. The order of a list is a strict total order
  because `id` is always its last key (`BeforeIsTotal`, `BeforeIsTransitive`); so a page shows,
  of the rows that stay put, exactly those its last row passes (`PagePasses`), and `Passed`, a
  row was seen if and only if the marker is not before it, holds from page to page. Writes keep
  it (`WalkGoesOn`): they take their rows out of `steady`, and the marker's row keeps its place,
  is gone, or `slipped` says that it moved. For the purge, `PurgeInv` says that no host that is
  old is left once the hosts are done, which stays so because whatever is deleted from then on
  is too young; with `HostsFollow`, a host that refers to an old segment is then an orphan, or was
  deleted within `Lag` of the cutoff (`OldSegments`). `Lag` may be any number.

Only model-checked: the liveness properties (`EveryNotificationIsTaken`,
`EveryNotificationSettles`, `EveryRecoveryEnds`, `EveryAttemptEnds`, `EveryFencingEnds`,
`InterruptedIsRetried`), which are out of the prover's reach. Only proved, and in no run: the
types of `StagedRecovery` and `StartLimiter`.

## 6. Where code and documents disagree

`PROJECT.json` quotes the line the violated run contradicts. Seven more configurations are kept
beside the runs, because they step outside the instance a listed run checks; TLC refutes the
property each of them names. What they show is thereby *not* excluded by the properties of
section 4:

| Configuration | Property | What the code does | What is said |
|---|---|---|---|
| `MCEngine_twice.cfg` | `NotRecoveredTwice` | compares the row with the database only if its copy says NEW (`manager.py:291`): an ERROR copy listed earlier is run again although another engine has finished it | comment at `manager.py:288` |
| `MCHost_dropped.cfg` | `FinishedMeansEvacuated` | a nova call before the `try` of an evacuation thread raises into `spawn_n` (`host_failure.py:212`): FINISHED, the instance left behind | `api-ref/source/notifications.inc:29` |
| `MCLimiter_ttl.cfg` | `StartsWithinLimit` | the least TTL `_validate_ttl` accepts (`staged_limiter.py:54`) leaves no time for the calls themselves: a slot is used twice | `staged_recovery.rst:88` |
| `MCStaged_overlap.cfg` | `OneWorkflowAtATime` | a workflow that waits looks stale (`manager.py:366`) and is run a second time beside itself | `CODEX_MASAKARI_STAGED_RECOVERY_ETCD.md:1403` |
| `MCHaApi_duplicate.cfg` | `DuplicatesAreOpen` | the duplicate check asks for type, host, payload and `generated_time`, not for the status (`ha/api.py:278-293`): a notification equal to one that is FINISHED is refused | help of `duplicate_notification_detection_interval` (`conf/engine.py:63-67`): only of one "whose status is either new or running", by `created_timestamp` |
| `MCAdminConfig_failed.cfg` | `FailedChangesNothing` | a put whose answer is lost, or an earlier change of the same draft, is in force under a job that failed; nothing reads the value back | `'changed': False` in its result (`admin_config.py:481`), expected by `test_admin_config.py:450` |
| `MCFencing_lease.cfg` | `SegmentLockExcludes` | the locks are leases nobody refreshes (`fencing_state_etcd.py:296`): fencing longer than `lock_ttl` goes on without its lock | `CODEX_MASAKARI_REDFISH_FENCING_ETCD.md:613` |

Met while modelling, without a run of their own. Engine and host flow:

- A database error between a failed retry and the save of FAILED (manager.py:429-440) leaves the row
  ERROR, and the next periodic run recovers it a third time. `AtMostOneRetry` counts it.
- The stale reconciliation (manager.py:396) sets a row to ERROR while the thread that recovers it may
  still be at work; the row is recovered again beside it, and a FINISHED of the first thread can
  become RUNNING again.
- With `ignore_instances_in_error_state` the retry of a failed recovery passes over an instance the
  failed move left in error (host_failure.py:83): FINISHED, with the instance on the failed host.
- `_check_expired_notifications` saves FAILED from the copy it listed (manager.py:469), so a
  verdict saved in the meantime is lost; `VerdictHasACause` allows it for expired rows.
- `update_host` and `update_segment` check for a recovery and save later (ha/api.py:220); the
  API reference (hosts.inc) says a host in use cannot be updated. `CheckedMeansIdle` is what holds.
- An attempt of a flow is judged by *all* FAILED rows of the notification
  (host_failure.py:410): after one failed attempt, a retry or the fallback that moves every
  instance is still an error. `FinishedMeansEvacuated` is the safe side of it.
- When a retry runs two rows of one instance, the first thread to end unlocks the instance
  the other still evacuates (host_failure.py:331).
- `NoInstanceStaysLocked` is checked with `NovaAnswers`: an `unlock_server` that raises does
  leave the lock, and nobody tries again.
- `ReservedHostsAreSpare` is checked for the `reserved_host` method. With a priority method a
  host that was enabled, but whose flag could not be cleared, is an ordinary target of the
  scheduler in the auto flow that follows.

Instance and process flows:

- A call nova accepts but whose reply is lost is not modelled apart from the timeouts that follow.
- A retry ends as FINISHED (skipped) if `HA_Enabled` was taken away after the first attempt had
  stopped the instance: `LeftStoppedIsReported` names that exception.
- STOPPED of any process puts the host on maintenance; only nova-compute has a flow, the others
  are skipped, and STARTED never takes the flag away.
- `reset_instance_state` runs unconditionally: an instance paused between the look at it and the
  reset is shown as active.
- The driver compares the recovery method with `AUTO_PRIORITY` and `RH_PRIORITY` for the progress
  details, while the values are lower case: that choice is never made.

Fencing:

- A failure registered by another event is put without comparing (the design document asks for
  a transaction, `CODEX_MASAKARI_REDFISH_FENCING_ETCD.md:796`), and the segment lock is given up
  before the evacuation (`:1091`). The gate holds nevertheless: `EvacuatedHostIsOff`.
- `min_surviving_compute_hosts` counts every host without a failure in the window as surviving,
  those fenced longer ago included.

API:

- A cast that fails gives a 500 after `end` and then an `error` event, and the row stays: the
  client's retry gets a 409 and the engines' periodic task takes the row.
- A duplicate is refused whatever became of the earlier notification, and by `generated_time`
  (ha/api.py:278): the help of the option says new or running, and by the time of creation
  (conf/engine.py:63). `AcceptedOnce` is about what the code does.
- A rename of a host is outside the lock on its name; without a coordination backend two
  processes may both accept a host failure. `AcceptedOnce` says what is left.
- `noauth2` makes everybody an administrator, though the docstring at `auth.py:132` speaks of
  the user `admin`, and has no project, so that any project in the URL is a 400.
- A body that is not UTF-8 is a 500; so is a VM move asked for under an unknown notification.
- The hosts list accepts the filters `name` and `control_attributes`, which the query ignores; `limit=0` gives
  an empty list, where `get_pagination_params` speaks of the maximum.

Database layer and admin config:

- A host created into a segment while that is deleted stays, live, in a deleted segment: no
  request lists it, and its foreign key stops every purge of that segment's age.
- VM moves outlive the purge of their notification.
- Validating an applied draft sets its status back, so that it can be applied again (the design
  document says 409, `CODEX_MASAKARI_ADMIN_CONFIG_API_IMPLEMENTATION.md:602`); the status
  "applying", which the code checks for, is never set, so two applies of one draft both pass.
- A draft that is changed while it is applied is marked applied with changes that were not; one
  that is deleted gives a 500 although the job succeeded.
- The two statements of a segment's deletion each take the time (db/sqlalchemy/api.py:308-317): a
  purge whose cutoff lies between the two stops at the foreign key; the next one passes.
- A job that fails after its first value, or on a put whose answer is lost, says that nothing was
  changed (admin_config.py:481).
- A database error after the last value was written (admin_config.py:651), or while a failure is being
  recorded, leaves the job queued for ever with a 500 to the client.

## 7. Not modelled

- What only reads: index and show methods beyond paging, diff, diagnostics, audit, the overview,
  `get_notification_recovery_workflow_details` and the taskflow logbook it reads.
- Parsing and rendering: headers, regular expressions, JSON schemas, option values, translation,
  the views. `Pipeline` and `AdminConfig` keep the cases that are answered differently.
- Payloads of versioned notifications, and what the engine emits: nothing depends on them.
- Starting and stopping processes, `db sync`, the RPC transport, configuration, logging, style
  checks: library code or declarations. A process or a message that is lost is modelled where it
  matters.
- Nova, etcd, tooz, BMCs, routes, oslo.db's paging and the RPC bus are not masakari's: they are
  modelled from how the code uses them and marked external in the map.

## 8. Running it

    tlc -config MCEngine_one.cfg MCNotificationEngine
    tlapm NotificationEngineProofs.tla

Operators introduced by the comment "mutant:" are plausible bugs of the definition that
follows them. Each property has one: put in place of the definition it makes TLC find the
property violated.
