-------------------------- MODULE NotificationEngine --------------------------
(***************************************************************************)
(* The masakari-engine service as it processes failure notifications:      *)
(* MasakariManager of src/masakari/engine/manager.py.                      *)
(*                                                                         *)
(* Several engines share one database (the notification rows) and one RPC  *)
(* topic.  In each engine an RPC handler thread processes the notification *)
(* that the API cast to it, and a periodic thread retries unfinished       *)
(* notifications and fails expired ones.  Threads of ONE engine serialise  *)
(* the work on a failed host with a process-local lock; threads of         *)
(* different engines share nothing but the rows, which they read and write *)
(* in separate transactions, from copies that can be stale.                *)
(***************************************************************************)
EXTENDS Naturals, FiniteSets

CONSTANTS
  Notifs,       \* identities of notification rows
  Hosts,        \* the hosts of one failover segment
  Kinds,        \* the kinds of notification that can arrive, see AllKinds
  Engines,      \* masakari-engine processes
  Workers,      \* their threads
  Periodic,     \* the workers that run the periodic tasks; the others serve RPC
  EngineOf,     \* the engine a worker belongs to
  NoWorker,     \* "nobody holds this lock"
  NoRow,        \* "no row at hand"
  RetryAge,     \* retry_notification_new_status_interval
  ExpiryAge,    \* notifications_expired_interval
  MaxAge,       \* bound: ages are counted up to here
  RunCap,       \* bound: recoveries of a row are counted up to here
  MaxCrashes,   \* bound on engine crashes
  MaxUpdates,   \* bound on operator updates of the segment and its hosts
  Staged,       \* CONF.staged_recovery.enabled
  MaxFaults     \* bound on database errors and on stale rows found

(* What a notification reports.  The handlers tell these cases apart and    *)
(* nothing else in the payload:                                            *)
(*   host_*  COMPUTE_HOST, process_* PROCESS, vm_* VM notifications;        *)
(*   *_other an event the handler does not know, host_not_normal a host    *)
(*   status that is missing or not NORMAL.                                 *)
AllKinds ==
  { "host_stopped", "host_started", "host_not_normal", "host_other",
    "process_stopped", "process_started", "process_other",
    "vm_event", "vm_other" }

Status   == { "absent", "new", "running", "finished", "error", "failed", "ignored" }
Active   == { "new", "running", "error" }    \* is_failover_segment_under_recovery
Final    == { "finished", "failed", "ignored" }
Outcomes == { "finished", "error", "ignored" }

ASSUME EngineAssumption ==
  /\ Kinds \subseteq AllKinds /\ Kinds # {}
  /\ Hosts # {} /\ Notifs # {}
  /\ Periodic \subseteq Workers
  /\ EngineOf \in [Workers -> Engines]
  /\ NoWorker \notin Workers /\ NoRow \notin Notifs
  /\ RetryAge \in Nat /\ ExpiryAge \in Nat /\ MaxAge \in Nat
  /\ RunCap \in Nat \ {0} /\ MaxCrashes \in Nat /\ MaxUpdates \in Nat
  /\ Staged \in BOOLEAN /\ MaxFaults \in Nat

VARIABLES
  \* the database, shared by API and engines
  status,         \* status column of each notification row
  src,            \* source_host_uuid of each row
  kind,           \* what the row reports
  age,            \* time since generated_time
  onMaintenance,  \* on_maintenance column of each host
  enabled,        \* enabled column of the failover segment
  update,         \* an API update of the segment or of a host, in progress
  \* the RPC topic
  casts,          \* process_notification casts in flight
  \* the engines
  lock,           \* per engine and host: the worker inside do_process_notification
  thread,         \* per worker: what it is doing, see Thread
  batch,          \* per worker: rows a periodic task listed, with the listed status
  \* history and bounds
  runs,           \* how often recovery of a row was begun
  setbacks,       \* how often a row was set back, see SetBack and Reconcile
  crashes, updates, faults

db    == <<status, src, kind, age, onMaintenance, enabled, update>>
vars  == <<db, casts, lock, thread, batch, runs, setbacks, crashes, updates, faults>>

None    == "none"
Listing == { None, "new", "running", "error" }
Updates == { "idle", "segment" } \cup Hosts

PCs == { "idle", "ignore", "lock", "claim", "handle", "recover", "save",
         "loop", "recheck", "fail", "expire", "stale" }

\* row and copy: the notification object at hand and its in-memory status;
\* verdict: what the handler decided and has not saved yet.
Thread == [pc : PCs, row : Notifs \cup {NoRow}, copy : Listing,
           verdict : Outcomes \cup {None}]

\* A thread between two notifications, at p.
Between(p) == [pc |-> p, row |-> NoRow, copy |-> None, verdict |-> None]

NoBatch == [n \in Notifs |-> None]

\* the part of do_process_notification that runs with the host lock held
Holding == { "claim", "handle", "recover", "save" }

-----------------------------------------------------------------------------
Init ==
  /\ status = [n \in Notifs |-> "absent"]
  /\ src \in [Notifs -> Hosts]
  /\ kind \in [Notifs -> Kinds]
  /\ age = [n \in Notifs |-> 0]
  /\ onMaintenance = [h \in Hosts |-> FALSE]
  /\ enabled = TRUE
  /\ update = "idle"
  /\ casts = {}
  /\ lock = [e \in Engines |-> [h \in Hosts |-> NoWorker]]
  /\ thread = [w \in Workers |-> Between("idle")]
  /\ batch = [w \in Workers |-> NoBatch]
  /\ runs = [n \in Notifs |-> 0]
  /\ setbacks = [n \in Notifs |-> 0]
  /\ crashes = 0
  /\ updates = 0
  /\ faults = 0

-----------------------------------------------------------------------------
(* The environment of the engines: the API, the RPC topic, time, operators. *)

\* NotificationAPI._create_notification inserted the row.  The cast that
\* follows may never arrive: the API fails between insert and cast, or the
\* message is lost.
Create(n, cast) ==
  /\ status[n] = "absent"
  /\ status' = [status EXCEPT ![n] = "new"]
  /\ casts' = IF cast THEN casts \cup {n} ELSE casts
  /\ UNCHANGED <<src, kind, age, onMaintenance, enabled, update, lock, thread,
                 batch, runs, setbacks, crashes, updates, faults>>

Aging == { n \in Notifs : status[n] # "absent" /\ age[n] < MaxAge }

Tick ==
  /\ Aging # {}
  /\ age' = [n \in Notifs |-> IF n \in Aging THEN age[n] + 1 ELSE age[n]]
  /\ UNCHANGED <<status, src, kind, onMaintenance, enabled, update, casts, lock,
                 thread, batch, runs, setbacks, crashes, updates, faults>>

\* is_failover_segment_under_recovery
UnderRecovery == \E n \in Notifs : status[n] \in Active

\* SegmentAPI.update_segment and HostAPI.update_host first check that no
\* notification of the segment is being recovered ...
BeginUpdate(u) ==
  /\ update = "idle"
  /\ updates < MaxUpdates
  /\ ~UnderRecovery
  /\ update' = u
  /\ updates' = updates + 1
  /\ UNCHANGED <<status, src, kind, age, onMaintenance, enabled, casts, lock,
                 thread, batch, runs, setbacks, crashes, faults>>

\* ... and then save, in another transaction.
SaveSegment ==
  /\ update = "segment"
  /\ enabled' \in BOOLEAN
  /\ update' = "idle"
  /\ UNCHANGED <<status, src, kind, age, onMaintenance, casts, lock, thread,
                 batch, runs, setbacks, crashes, updates, faults>>

SaveHost(h) ==
  /\ update = h
  /\ \E b \in BOOLEAN : onMaintenance' = [onMaintenance EXCEPT ![h] = b]
  /\ update' = "idle"
  /\ UNCHANGED <<status, src, kind, age, enabled, casts, lock, thread, batch,
                 runs, setbacks, crashes, updates, faults>>

\* What stopping the threads W means for the rows: one that is being rechecked
\* after its recovery may stay ERROR, and then it is retried once more.
SetBack(W) ==
  setbacks' = [n \in Notifs |->
    IF \E w \in W : thread[w].pc \in {"recheck", "fail"} /\ thread[w].row = n
      THEN setbacks[n] + 1 ELSE setbacks[n]]

\* An engine process dies and is started again: its threads, their copies and
\* its locks are gone, and so are the casts its threads had taken.
Crash(e) ==
  /\ crashes < MaxCrashes
  /\ crashes' = crashes + 1
  /\ thread' = [w \in Workers |-> IF EngineOf[w] = e THEN Between("idle") ELSE thread[w]]
  /\ batch' = [w \in Workers |-> IF EngineOf[w] = e THEN NoBatch ELSE batch[w]]
  /\ lock' = [lock EXCEPT ![e] = [h \in Hosts |-> NoWorker]]
  /\ SetBack({ w \in Workers : EngineOf[w] = e })
  /\ UNCHANGED <<db, casts, runs, updates, faults>>

-----------------------------------------------------------------------------
Goto(w, p) == thread' = [thread EXCEPT ![w] = [@ EXCEPT !.pc = p]]

(* process_notification: the RPC entry point. *)

\* The message carries the row as the API created it, so the copy's status is
\* NEW however old the message is.
Deliver(w, n) ==
  /\ w \notin Periodic
  /\ thread[w].pc = "idle"
  /\ n \in casts
  /\ casts' = casts \ {n}
  /\ thread' = [thread EXCEPT ![w] = [pc |-> IF enabled THEN "lock" ELSE "ignore",
                                      row |-> n, copy |-> "new", verdict |-> None]]
  /\ UNCHANGED <<db, lock, batch, runs, setbacks, crashes, updates, faults>>

\* The segment is disabled: save IGNORED (no lock is held) and raise
\* FailoverSegmentDisabled.
Ignore(w) ==
  /\ thread[w].pc = "ignore"
  /\ status' = [status EXCEPT ![thread[w].row] = "ignored"]
  /\ thread' = [thread EXCEPT ![w] = Between("idle")]
  /\ UNCHANGED <<src, kind, age, onMaintenance, enabled, update, casts, lock,
                 batch, runs, setbacks, crashes, updates, faults>>

-----------------------------------------------------------------------------
(* _process_notification, shared by the RPC handler and the periodic task. *)

\* A thread when _process_notification has returned: the RPC handler is done,
\* the periodic task still has to recheck the row.
Returned(w) == IF w \in Periodic
               THEN [Between("recheck") EXCEPT !.row = thread[w].row]
               ELSE Between("idle")

\* mutant: without the fix of bug 1773132
OvertakenNever(w) == FALSE

\* "process notification only if the notification status is New and the
\* current notification from DB status is Not New": somebody else took the row.
Overtaken(w) == thread[w].copy = "new" /\ status[thread[w].row] # "new"

HostLock(w) == lock[EngineOf[w]][src[thread[w].row]]

\* mutant: the lock is not left on the way out
LeaveLocked(w) == UNCHANGED lock

Leave(w) == lock' = [lock EXCEPT ![EngineOf[w]][src[thread[w].row]] = NoWorker]

\* The host lock is free: read the row; return at once when it was overtaken.
Acquire(w) ==
  /\ thread[w].pc = "lock"
  /\ HostLock(w) = NoWorker
  /\ IF Overtaken(w)
       THEN /\ thread' = [thread EXCEPT ![w] = Returned(w)]
            /\ UNCHANGED lock
       ELSE /\ Goto(w, "claim")
            /\ lock' = [lock EXCEPT ![EngineOf[w]][src[thread[w].row]] = w]
  /\ UNCHANGED <<db, casts, batch, runs, setbacks, crashes, updates, faults>>

\* mutant: RUNNING is not saved before the handler runs
ClaimUnsaved(w) ==
  /\ thread[w].pc = "claim"
  /\ runs' = [runs EXCEPT ![thread[w].row] = IF @ < RunCap THEN @ + 1 ELSE @]
  /\ thread' = [thread EXCEPT ![w] = [@ EXCEPT !.pc = "handle", !.copy = "running"]]
  /\ UNCHANGED <<db, casts, lock, batch, setbacks, crashes, updates, faults>>

\* Save RUNNING; from here on recovery counts as begun.
Claim(w) ==
  /\ thread[w].pc = "claim"
  /\ status' = [status EXCEPT ![thread[w].row] = "running"]
  /\ runs' = [runs EXCEPT ![thread[w].row] = IF @ < RunCap THEN @ + 1 ELSE @]
  /\ thread' = [thread EXCEPT ![w] = [@ EXCEPT !.pc = "handle", !.copy = "running"]]
  /\ UNCHANGED <<src, kind, age, onMaintenance, enabled, update, casts, lock,
                 batch, setbacks, crashes, updates, faults>>

Started     == { "host_started", "process_started" }
Stopped     == { "host_stopped", "process_stopped" }
Recoverable == Stopped \cup { "vm_event" }

\* mutant: the verdict of a STARTED event is left unset
SettledUnset(k) == IF k \in Started THEN None ELSE "ignored"

\* the verdict on an event that needs no workflow
Settled(k) == IF k \in Started THEN "finished" ELSE "ignored"

\* _handle_notification_type_*: a STOPPED event puts the host on maintenance
\* and goes on to the recovery workflow, a valid VM event goes straight to it,
\* a STARTED event is FINISHED and anything else IGNORED without one.
Handle(w) ==
  LET n == thread[w].row IN
  /\ thread[w].pc = "handle"
  /\ onMaintenance' = IF kind[n] \in Stopped
                      THEN [onMaintenance EXCEPT ![src[n]] = TRUE]
                      ELSE onMaintenance
  /\ IF kind[n] \in Recoverable
       THEN Goto(w, "recover")
       ELSE thread' = [thread EXCEPT ![w] =
                              [@ EXCEPT !.pc = "save", !.verdict = Settled(kind[n])]]
  /\ UNCHANGED <<status, src, kind, age, enabled, update, casts, lock, batch,
                 runs, setbacks, crashes, updates, faults>>

\* driver.execute_*_failure returns or raises: success and Skip* are FINISHED,
\* IgnoreInstanceRecoveryException is IGNORED, a failure is ERROR.
Recover(w) ==
  /\ thread[w].pc = "recover"
  /\ \E o \in IF kind[thread[w].row] = "vm_event"
              THEN Outcomes ELSE {"finished", "error"} :
       thread' = [thread EXCEPT ![w] = [@ EXCEPT !.pc = "save", !.verdict = o]]
  /\ UNCHANGED <<db, casts, lock, batch, runs, setbacks, crashes, updates, faults>>

\* The verdict is saved whatever the row says by now; then the lock is left.
Save(w) ==
  /\ thread[w].pc = "save"
  /\ status' = [status EXCEPT ![thread[w].row] = thread[w].verdict]
  /\ Leave(w)
  /\ thread' = [thread EXCEPT ![w] = Returned(w)]
  /\ UNCHANGED <<src, kind, age, onMaintenance, enabled, update, casts, batch,
                 runs, setbacks, crashes, updates, faults>>

\* An exception unwinds the thread: the lock is released if it is held, and a
\* periodic task loses the rest of its list.
Unwind(w) ==
  /\ IF thread[w].pc \in Holding THEN Leave(w) ELSE UNCHANGED lock
  /\ thread' = [thread EXCEPT ![w] = Between("idle")]
  /\ batch' = [batch EXCEPT ![w] = NoBatch]

\* An exception no handler catches (the host was deleted, the database is
\* away) leaves the row RUNNING.
HandlerDies(w) ==
  /\ thread[w].pc \in {"handle", "recover"}
  /\ Unwind(w)
  /\ UNCHANGED <<db, casts, runs, setbacks, crashes, updates, faults>>

\* A read or a save of the row anywhere else raises and changed nothing: before
\* the handler, at its verdict, in the loops and the recheck of the periodic
\* tasks.  (A save that raises after it was committed is that save, and this
\* at the thread's next point.)
DatabaseFails(w) ==
  /\ thread[w].pc \notin {"idle", "handle", "recover"}
  /\ faults < MaxFaults
  /\ faults' = faults + 1
  /\ Unwind(w)
  /\ SetBack({w})
  /\ UNCHANGED <<db, casts, runs, crashes, updates>>

-----------------------------------------------------------------------------
(* The periodic tasks.  Those of one engine run in one thread, in turn. *)

ListRows(w, S) ==
  batch' = [batch EXCEPT ![w] =
              [n \in Notifs |-> IF status[n] \in S THEN status[n] ELSE None]]

\* mutant: only ERROR rows are listed
RetriedErrorOnly == { "error" }

\* the status filter of _process_unfinished_notifications
Retried == { "error", "new" }

\* _process_unfinished_notifications
StartUnfinished(w) ==
  /\ w \in Periodic
  /\ thread[w].pc = "idle"
  /\ ListRows(w, Retried)
  /\ Goto(w, "loop")
  /\ UNCHANGED <<db, casts, lock, runs, setbacks, crashes, updates, faults>>

\* Process a listed row unless it is NEW and young; either way recheck it.
TakeListed(w, n) ==
  /\ thread[w].pc = "loop"
  /\ batch[w][n] # None
  /\ batch' = [batch EXCEPT ![w][n] = None]
  /\ thread' = [thread EXCEPT ![w] =
       IF batch[w][n] = "error" \/ age[n] >= RetryAge
       THEN [pc |-> "lock", row |-> n, copy |-> batch[w][n], verdict |-> None]
       ELSE [Between("recheck") EXCEPT !.row = n]]
  /\ UNCHANGED <<db, casts, lock, runs, setbacks, crashes, updates, faults>>

\* mutant: whatever did not succeed is failed
MustFailUnlessFinished(w) == status[thread[w].row] # "finished"

MustFail(w) == status[thread[w].row] = "error"

\* Read the row again after the workflow ...
Recheck(w) ==
  /\ thread[w].pc = "recheck"
  /\ IF MustFail(w)
       THEN Goto(w, "fail")
       ELSE thread' = [thread EXCEPT ![w] = Between("loop")]
  /\ UNCHANGED <<db, casts, lock, batch, runs, setbacks, crashes, updates, faults>>

\* ... and save FAILED when it read ERROR.
Fail(w) ==
  /\ thread[w].pc = "fail"
  /\ status' = [status EXCEPT ![thread[w].row] = "failed"]
  /\ thread' = [thread EXCEPT ![w] = Between("loop")]
  /\ UNCHANGED <<src, kind, age, onMaintenance, enabled, update, casts, lock,
                 batch, runs, setbacks, crashes, updates, faults>>

\* mutant: RUNNING rows are left out
ExpirableUnclaimed == { "error", "new" }

\* the status filter of _check_expired_notifications
Expirable == { "running", "error", "new" }

\* mutant: the age is not tested
ExpiredAlways(n) == TRUE

Expired(n) == age[n] >= ExpiryAge

\* _check_expired_notifications
StartExpired(w) ==
  /\ w \in Periodic
  /\ thread[w].pc = "idle"
  /\ ListRows(w, Expirable)
  /\ Goto(w, "expire")
  /\ UNCHANGED <<db, casts, lock, runs, setbacks, crashes, updates, faults>>

\* The listed row is not read again before FAILED is saved.
ExpireListed(w, n) ==
  /\ thread[w].pc = "expire"
  /\ batch[w][n] # None
  /\ batch' = [batch EXCEPT ![w][n] = None]
  /\ status' = IF Expired(n) THEN [status EXCEPT ![n] = "failed"] ELSE status
  /\ UNCHANGED <<src, kind, age, onMaintenance, enabled, update, casts, lock,
                 thread, runs, setbacks, crashes, updates, faults>>

\* _process_stale_staged_recoveries, for each row whose records in etcd are old
\* (which they can be with its workflow alive): under a coordination lock of
\* its own, which do_process_notification does not take, read the row ...
FindStale(w, n) ==
  /\ Staged
  /\ w \in Periodic
  /\ thread[w].pc = "idle"
  /\ kind[n] = "host_stopped" /\ status[n] = "running"
  /\ \A v \in Workers : thread[v].pc = "stale" => thread[v].row # n
  /\ faults < MaxFaults
  /\ faults' = faults + 1
  /\ thread' = [thread EXCEPT ![w] = [Between("stale") EXCEPT !.row = n]]
  /\ UNCHANGED <<db, casts, lock, batch, runs, setbacks, crashes, updates>>

\* ... and save ERROR over whatever it says by now: the row is retried.
Reconcile(w) ==
  /\ thread[w].pc = "stale"
  /\ status' = [status EXCEPT ![thread[w].row] = "error"]
  /\ setbacks' = [setbacks EXCEPT ![thread[w].row] = @ + 1]
  /\ thread' = [thread EXCEPT ![w] = Between("idle")]
  /\ UNCHANGED <<src, kind, age, onMaintenance, enabled, update, casts, lock,
                 batch, runs, crashes, updates, faults>>

\* the end of either task's loop
EndBatch(w) ==
  /\ thread[w].pc \in {"loop", "expire"}
  /\ batch[w] = NoBatch
  /\ thread' = [thread EXCEPT ![w] = Between("idle")]
  /\ UNCHANGED <<db, casts, lock, batch, runs, setbacks, crashes, updates, faults>>

-----------------------------------------------------------------------------
\* a step of a thread in the middle of a handler or of a task
Continue(w) ==
  \/ Ignore(w) \/ Claim(w) \/ Handle(w) \/ Recover(w) \/ Save(w)
  \/ HandlerDies(w) \/ Recheck(w) \/ Fail(w) \/ EndBatch(w) \/ Reconcile(w)
  \/ \E n \in Notifs : TakeListed(w, n) \/ ExpireListed(w, n)

EnvironmentStep ==
  \/ \E n \in Notifs, cast \in BOOLEAN : Create(n, cast)
  \/ Tick
  \/ \E u \in {"segment"} \cup Hosts : BeginUpdate(u)
  \/ SaveSegment
  \/ \E h \in Hosts : SaveHost(h)
  \/ \E e \in Engines : Crash(e)

EngineStep ==
  \E w \in Workers :
    \/ Continue(w) \/ Acquire(w) \/ StartUnfinished(w) \/ StartExpired(w)
    \/ DatabaseFails(w)
    \/ \E n \in Notifs : Deliver(w, n) \/ FindStale(w, n)

Next == EnvironmentStep \/ EngineStep

Spec == Init /\ [][Next]_vars

(* A thread inside a handler goes on and the clock runs.  The host lock is a *)
(* semaphore with a FIFO queue and each periodic task runs again after its   *)
(* spacing, so a thread that can take the lock, or start a task, again and   *)
(* again does so in the end: strong fairness.                                *)
Fairness ==
  /\ WF_vars(Tick)
  /\ \A w \in Workers : WF_vars(Continue(w)) /\ SF_vars(Acquire(w))
  /\ \A w \in Periodic : SF_vars(StartUnfinished(w)) /\ SF_vars(StartExpired(w))

FairSpec == Spec /\ Fairness

-----------------------------------------------------------------------------
(* Properties *)

\* Every variable has its type, and a thread has a row at hand exactly where
\* the code has a notification object in scope, with the copy it can have there.
TypeOK ==
  /\ status \in [Notifs -> Status]
  /\ src \in [Notifs -> Hosts]
  /\ kind \in [Notifs -> Kinds]
  /\ age \in [Notifs -> Nat]
  /\ onMaintenance \in [Hosts -> BOOLEAN]
  /\ enabled \in BOOLEAN
  /\ update \in Updates
  /\ casts \in SUBSET Notifs
  /\ lock \in [Engines -> [Hosts -> Workers \cup {NoWorker}]]
  /\ thread \in [Workers -> Thread]
  /\ batch \in [Workers -> [Notifs -> Listing]]
  /\ runs \in [Notifs -> Nat]
  /\ setbacks \in [Notifs -> Nat]
  /\ crashes \in Nat
  /\ updates \in Nat
  /\ faults \in Nat

\* The lock of a host is taken, in each engine, exactly while one of its
\* threads is between reading a row of that host and saving its verdict: no
\* two threads of an engine recover the same host, and no path out of
\* do_process_notification (skip, exception, crash) leaks the lock.
LockMatchesHolder ==
  \A e \in Engines, h \in Hosts, w \in Workers :
    lock[e][h] = w <=> /\ EngineOf[w] = e
                       /\ thread[w].pc \in Holding
                       /\ src[thread[w].row] = h

\* A row that still reads NEW was touched by nobody: its recovery never began
\* and no thread is past the point where it saves RUNNING.  This is what lets
\* a thread with a NEW copy decide from the row alone that it comes first.
NewIsUntouched ==
  \A n \in Notifs : status[n] \in {"absent", "new"} =>
    /\ runs[n] = 0
    /\ \A w \in Workers : thread[w].row = n => thread[w].pc \notin Holding \ {"claim"}

\* A row's last word has a cause: FINISHED and ERROR only after a recovery was
\* begun, FAILED only after one or when the row expired, IGNORED only by a
\* handler or because an operator had disabled the segment.
VerdictHasACause ==
  \A n \in Notifs :
    /\ status[n] \in {"running", "finished", "error"} => runs[n] > 0
    /\ status[n] = "failed"  => runs[n] > 0 \/ age[n] >= ExpiryAge
    /\ status[n] = "ignored" => runs[n] > 0 \/ updates > 0

\* Within one engine a notification is recovered at most twice, the attempt
\* of the RPC handler (or of the periodic task, when the cast was lost) and
\* one retry, plus one for each time it was set back: the periodic thread was
\* stopped, by the engine's death or a database error, between its recovery
\* and the save of FAILED, or the row was taken for stale.
AtMostOneRetry == \A n \in Notifs : runs[n] <= 2 + setbacks[n]

\* A notification that was finished is not recovered again.
NotRecoveredTwice ==
  [][\A n \in Notifs : status[n] = "finished" => status'[n] # "running"]_vars

\* One engine, no operator update, no expiry and no stale reconciliation: the
\* rows live the life NotificationLifecycle promises, whatever the interleaving
\* of RPC handlers, periodic tasks, late and lost casts, crashes and exceptions.
Lifecycle == INSTANCE NotificationLifecycle WITH attempts <- runs, MaxAttempts <- 2
ImplementsLifecycle == Lifecycle!Spec

\* Every notification gets a final status.
EveryNotificationSettles ==
  \A n \in Notifs : status[n] = "new" ~> status[n] \in Final

\* Every notification is taken up, even when its cast was lost or the engine
\* that received it died.
EveryNotificationIsTaken ==
  \A n \in Notifs : status[n] = "new" ~> runs[n] > 0
=============================================================================
