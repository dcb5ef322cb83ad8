-------------------------------- MODULE HaApi --------------------------------
(***************************************************************************)
(* The requests that change something: segments, hosts and notifications,  *)
(* from the controllers (api/openstack/ha) through FailoverSegmentAPI,     *)
(* HostAPI and NotificationAPI (ha/api.py) and the versioned objects to    *)
(* the queries of db/sqlalchemy/api.py, and the versioned notifications    *)
(* each of them emits.                                                     *)
(*                                                                         *)
(* What stands before the controllers is in Pipeline.                      *)
(*                                                                         *)
(* Every request is a green thread of some API process; each read, check   *)
(* and write of it is a transaction of its own, so requests interleave     *)
(* between them.  A row is named after the request that created it; row 0  *)
(* is there at the start.  Engines move notifications on meanwhile.        *)
(***************************************************************************)
EXTENDS Pipeline

CONSTANTS
  Requests,      \* the requests; 0 is none of them
  Calls,         \* what they may ask for
  Wrapped(_),    \* the forms a call may come in: requests as Pipeline sees them
  AuthStrategy,  \* "keystone" or "noauth2"
  Detection,     \* duplicate_notification_detection_interval
  MaxFaults      \* bound: API processes that die, casts that fail

Ids == {0} \cup Requests

SegmentOps == { "create_segment", "update_segment", "delete_segment" }
HostOps    == { "create_host", "update_host", "delete_host" }

\* A call may name any row, one that is not there (yet) included.
ASSUME HaApiAssumption ==
  /\ IsFiniteSet(Requests) /\ 0 \notin Requests
  /\ Detection \in Nat /\ MaxFaults \in Nat
  /\ \A c \in Calls :
       /\ c.op \in SegmentOps \cup HostOps \cup { "notify" }
       /\ c.op \in HostOps \cup { "update_segment", "delete_segment" } => c.segment \in Ids
       /\ c.op \in { "update_host", "delete_host" } => c.host \in Ids
       /\ c.op = "notify" => c.generated \in Nat

VARIABLES
  segments,  \* per segment row: whether it is live, and its name
  hosts,     \* per host row: whether it is live, name, segment, on_maintenance
  notes,     \* per notification row: status, type, host, payload, generated_time
  backend,   \* is a coordination backend configured?
  lock,      \* the requests that hold create_host_notification-<hostname>
  pc,        \* per request: its next transaction
  call,      \* per request: what it asks for
  copy,      \* per request: the host row it has read
  known,     \* per request: the notification rows there were when it checked
  earlier,   \* per request: the requests that had ended when it began
  wrote,     \* per request: has it changed the database?
  events,    \* per request: the phases of the notifications it has emitted
  answer,    \* per request: the HTTP status, 0 while there is none
  faults

rows == <<segments, hosts, notes>>
mine == <<copy, known, earlier>>
vars == <<rows, backend, lock, pc, call, mine, wrote, events, answer, faults>>

None == "none"

\* What the client of a process that dies gets: no status.
NoReply == 1

Init ==
  /\ segments = [s \in Ids |-> [row |-> IF s = 0 THEN "live" ELSE None, name |-> "A"]]
  /\ hosts = [h \in Ids |-> [row |-> IF h = 0 THEN "live" ELSE None, name |-> "a",
                             segment |-> 0, on_maintenance |-> FALSE]]
  /\ notes = [n \in Requests |-> [status |-> None]]
  /\ backend \in BOOLEAN
  /\ lock = {}
  /\ pc = [r \in Requests |-> "idle"]
  /\ call = [r \in Requests |-> [op |-> None]]
  /\ copy = [r \in Requests |-> 0]
  /\ known = [r \in Requests |-> {}]
  /\ earlier = [r \in Requests |-> {}]
  /\ wrote = [r \in Requests |-> FALSE]
  /\ events = [r \in Requests |-> << >>]
  /\ answer = [r \in Requests |-> 0]
  /\ faults = 0

Existing == { n \in Requests : notes[n].status # None }
IsCompute(r) == call[r].op = "notify" /\ call[r].type = "COMPUTE_HOST"

-----------------------------------------------------------------------------
(* The database layer: model_query hides what is soft-deleted. *)

SegmentFound(s) == segments[s].row = "live"
HostFound(h, s) == hosts[h].row = "live" /\ hosts[h].segment = s
HostsNamed(n)   == { h \in Ids : hosts[h].row = "live" /\ hosts[h].name = n }

\* The unique constraints on (name, deleted).
SegmentNameTaken(name, but) == \E s \in Ids \ {but} : SegmentFound(s) /\ segments[s].name = name
HostNameTaken(name, but)    == HostsNamed(name) \ {but} # {}

\* mutant: a notification that waits for its retry does not count
ActiveWithoutRetry == { "new", "running" }

\* The statuses the check asks for ...
Active == { "new", "running", "error" }

\* ... and is_failover_segment_under_recovery, over the live hosts of a segment.
UnderRecovery(s) ==
  \E n \in Existing : notes[n].status \in Active /\ HostFound(notes[n].host, s)

-----------------------------------------------------------------------------
(* The controllers: which exception becomes which answer; any other is an  *)
(* internal error (expected_errors).                                       *)

SegmentsController(op, exc) ==
  CASE op # "create_segment" /\ exc = "FailoverSegmentNotFound" -> 404
    [] op # "delete_segment" /\ exc = "FailoverSegmentExists"   -> 409
    [] op # "create_segment" /\ exc = "InUse"                   -> 409
    [] OTHER                                                    -> 500

HostsController(op, exc) ==
  CASE op # "delete_host" /\ exc = "ComputeNotFoundByName" -> 400
    [] exc = "FailoverSegmentNotFound"                     -> 404
    [] op # "create_host" /\ exc = "HostNotFound"          -> 404
    [] op # "delete_host" /\ exc = "HostExists"            -> 409
    [] op # "create_host" /\ exc = "InUse"                 -> 409
    [] OTHER                                               -> 500

NotificationsController(exc) ==
  CASE exc = "HostNotFoundByName"                                 -> 400
    [] exc \in { "DuplicateNotification", "HostOnMaintenanceError" } -> 409
    [] OTHER                                                      -> 500

Refusal(c, exc) ==
  CASE c.op \in SegmentOps -> SegmentsController(c.op, exc)
    [] c.op \in HostOps    -> HostsController(c.op, exc)
    [] OTHER               -> NotificationsController(exc)

Success(op) ==
  CASE op \in { "create_segment", "create_host" } -> 201
    [] op \in { "delete_segment", "delete_host" } -> 204
    [] op = "notify"                              -> 202
    [] OTHER                                      -> 200

\* mutant: the lock is left only on success
EndsLocked(r, code) ==
  /\ pc' = [pc EXCEPT ![r] = "ended"]
  /\ answer' = [answer EXCEPT ![r] = code]
  /\ lock' = IF code < 400 THEN lock \ {r} ELSE lock

\* A request ends: it answers and leaves the lock it may hold.
Ends(r, code) ==
  /\ pc' = [pc EXCEPT ![r] = "ended"]
  /\ answer' = [answer EXCEPT ![r] = code]
  /\ lock' = lock \ {r}

Refuse(r, exc) == Ends(r, Refusal(call[r], exc))

Goto(r, p) == pc' = [pc EXCEPT ![r] = p] /\ UNCHANGED <<answer, lock>>

-----------------------------------------------------------------------------
(* A request comes in, and reads. *)

FirstStep(c) ==
  CASE c.op = "create_segment"                          -> "write"
    [] c.op = "notify" /\ c.type = "COMPUTE_HOST" /\ backend -> "lock"
    [] OTHER                                            -> "read"

Arrive(r) ==
  /\ pc[r] = "idle"
  /\ \E c \in Calls : \E q \in Wrapped(c) :
       LET verdict == Screened(q, AuthStrategy) IN
       IF verdict = Admitted THEN call' = [call EXCEPT ![r] = c] /\ Goto(r, FirstStep(c))
                             ELSE Ends(r, verdict) /\ UNCHANGED call
  /\ earlier' = [earlier EXCEPT ![r] = { q \in Requests : pc[q] = "ended" }]
  /\ UNCHANGED <<rows, backend, copy, known, wrote, events, faults>>

\* mutant: the lock is named after the function alone, and is not blocking
LockFreeAlways(r) == TRUE

\* coordination.synchronized: a blocking lock per host name, over all API
\* processes.
LockFree(r) == \A q \in lock : call[q].name # call[r].name

Lock(r) ==
  /\ pc[r] = "lock" /\ LockFree(r)
  /\ lock' = lock \cup {r}
  /\ pc' = [pc EXCEPT ![r] = "read"]
  /\ UNCHANGED <<rows, backend, call, mine, wrote, events, answer, faults>>

\* FailoverSegment.get_by_uuid
ReadSegment(r) ==
  /\ pc[r] = "read" /\ call[r].op \in { "update_segment", "delete_segment", "create_host" }
  /\ IF SegmentFound(call[r].segment)
       THEN Goto(r, IF call[r].op = "create_host" THEN "nova" ELSE "check")
       ELSE Refuse(r, "FailoverSegmentNotFound")
  /\ UNCHANGED <<rows, backend, call, mine, wrote, events, faults>>

\* Host.get_by_uuid with the segment of the URL
ReadHost(r) ==
  /\ pc[r] = "read" /\ call[r].op \in { "update_host", "delete_host" }
  /\ IF HostFound(call[r].host, call[r].segment) THEN Goto(r, "check") ELSE Refuse(r, "HostNotFound")
  /\ UNCHANGED <<rows, backend, call, mine, wrote, events, faults>>

\* Host.get_by_name and the maintenance flag: _create_notification
ReadHostByName(r) ==
  /\ pc[r] = "read" /\ call[r].op = "notify"
  /\ IF HostsNamed(call[r].name) = {} THEN Refuse(r, "HostNotFoundByName") /\ UNCHANGED copy
     ELSE \E h \in HostsNamed(call[r].name) :
            IF hosts[h].on_maintenance THEN Refuse(r, "HostOnMaintenanceError") /\ UNCHANGED copy
            ELSE copy' = [copy EXCEPT ![r] = h] /\ Goto(r, "check")
  /\ UNCHANGED <<rows, backend, call, known, earlier, wrote, events, faults>>

-----------------------------------------------------------------------------
(* The checks before a write *)

\* Update and delete refuse while a recovery is on.
CheckRecovery(r) ==
  /\ pc[r] = "check" /\ call[r].op # "notify"
  /\ known' = [known EXCEPT ![r] = Existing]
  /\ IF UnderRecovery(call[r].segment) THEN Refuse(r, "InUse")
     ELSE Goto(r, IF call[r].op = "update_host" /\ "name" \in DOMAIN call[r] THEN "nova" ELSE "write")
  /\ UNCHANGED <<rows, backend, call, copy, earlier, wrote, events, faults>>

\* _is_valid_host_name asks nova for the compute service, which may not exist.
CheckName(r) ==
  /\ pc[r] = "nova"
  /\ Goto(r, "write") \/ Refuse(r, "ComputeNotFoundByName")
  /\ UNCHANGED <<rows, backend, call, mine, wrote, events, faults>>

\* mutant: only a notification generated later is looked at
SinceStrict(r, n) == call[r].generated < notes[n].generated

\* generated-since: the database keeps what is not older than the interval
\* before this one, however much younger it is.
Since(r, n) == call[r].generated <= notes[n].generated + Detection

\* _is_duplicate_notification
IsDuplicate(r) ==
  \E n \in Existing : /\ notes[n].type = call[r].type
                      /\ notes[n].host = copy[r]
                      /\ notes[n].payload = call[r].payload
                      /\ Since(r, n)

CheckDuplicate(r) ==
  /\ pc[r] = "check" /\ call[r].op = "notify"
  /\ IF IsDuplicate(r) THEN Refuse(r, "DuplicateNotification") ELSE Goto(r, "write")
  /\ UNCHANGED <<rows, backend, call, mine, wrote, events, faults>>

-----------------------------------------------------------------------------
(* The writes, each between two versioned notifications *)

\* The objects emit START before the query and END after it, the API layer
\* emits ERROR when anything between raises.
Emit(r, phases)  == events' = [events EXCEPT ![r] = @ \o phases]
Emitted(r, last) == Emit(r, << "start", last >>)

Written(r) ==
  /\ wrote' = [wrote EXCEPT ![r] = TRUE]
  /\ Emitted(r, "end")
  /\ Ends(r, Success(call[r].op))

Fails(r, exc) ==
  /\ Refuse(r, exc)
  /\ Emitted(r, "error")
  /\ UNCHANGED <<rows, wrote>>

CreateSegment(r) ==
  /\ IF SegmentNameTaken(call[r].name, r) THEN Fails(r, "FailoverSegmentExists")
     ELSE /\ segments' = [segments EXCEPT ![r] = [row |-> "live", name |-> call[r].name]]
          /\ Written(r) /\ UNCHANGED <<hosts, notes>>

UpdateSegment(r) ==
  LET s == call[r].segment IN
  /\ IF ~SegmentFound(s) THEN Fails(r, "FailoverSegmentNotFound")
     ELSE IF SegmentNameTaken(call[r].name, s) THEN Fails(r, "FailoverSegmentExists")
     ELSE /\ segments' = [segments EXCEPT ![s].name = call[r].name]
          /\ Written(r) /\ UNCHANGED <<hosts, notes>>

\* mutant: a delete that hits no row is no error
DeletedSilently(found) == TRUE

\* soft_delete returns the number of rows it hit.
Deleted(found) == found

\* mutant: only the segment's own row is deleted
HostsKept(s) == {}

\* The hosts of the segment go with it, in one transaction.
HostsOf(s) == { h \in Ids : HostFound(h, s) }

DeleteSegment(r) ==
  LET s == call[r].segment IN
  /\ IF ~Deleted(SegmentFound(s)) THEN Fails(r, "FailoverSegmentNotFound")
     ELSE /\ segments' = [segments EXCEPT ![s].row = "deleted"]
          /\ hosts' = [h \in Ids |-> IF h \in HostsOf(s) THEN [hosts[h] EXCEPT !.row = "deleted"] ELSE hosts[h]]
          /\ Written(r) /\ UNCHANGED notes

\* The segment was read some transactions ago; the foreign key only asks for
\* its row, deleted or not.
CreateHost(r) ==
  /\ IF HostNameTaken(call[r].name, r) THEN Fails(r, "HostExists")
     ELSE /\ hosts' = [hosts EXCEPT ![r] = [row |-> "live", name |-> call[r].name,
                                            segment |-> call[r].segment, on_maintenance |-> FALSE]]
          /\ Written(r) /\ UNCHANGED <<segments, notes>>

\* Only the columns that were given are saved.
UpdateHost(r) ==
  LET h == call[r].host IN
  /\ IF hosts[h].row # "live" THEN Fails(r, "HostNotFound")
     ELSE IF "name" \in DOMAIN call[r] /\ HostNameTaken(call[r].name, h) THEN Fails(r, "HostExists")
     ELSE /\ hosts' = [hosts EXCEPT ![h] =
                        IF "name" \in DOMAIN call[r] THEN [@ EXCEPT !.name = call[r].name]
                        ELSE [@ EXCEPT !.on_maintenance = call[r].on_maintenance]]
          /\ Written(r) /\ UNCHANGED <<segments, notes>>

DeleteHost(r) ==
  LET h == call[r].host IN
  /\ IF ~Deleted(hosts[h].row = "live") THEN Fails(r, "HostNotFound")
     ELSE /\ hosts' = [hosts EXCEPT ![h].row = "deleted"]
          /\ Written(r) /\ UNCHANGED <<segments, notes>>

\* Notification.create; the cast to the engines is still to come.
CreateNotification(r) ==
  /\ notes' = [notes EXCEPT ![r] = [status |-> "new", type |-> call[r].type, host |-> copy[r],
                                    payload |-> call[r].payload, generated |-> call[r].generated]]
  /\ wrote' = [wrote EXCEPT ![r] = TRUE]
  /\ Emitted(r, "end")
  /\ Goto(r, "cast")
  /\ UNCHANGED <<segments, hosts>>

Write(r) ==
  /\ pc[r] = "write"
  /\ CASE call[r].op = "create_segment" -> CreateSegment(r)
       [] call[r].op = "update_segment" -> UpdateSegment(r)
       [] call[r].op = "delete_segment" -> DeleteSegment(r)
       [] call[r].op = "create_host"    -> CreateHost(r)
       [] call[r].op = "update_host"    -> UpdateHost(r)
       [] call[r].op = "delete_host"    -> DeleteHost(r)
       [] OTHER                         -> CreateNotification(r)
  /\ UNCHANGED <<backend, call, mine, faults>>

\* EngineAPI.process_notification; the client may only retry on its failure.
Cast(r) ==
  /\ pc[r] = "cast"
  /\ \/ Ends(r, 202) /\ UNCHANGED <<events, faults>>
     \/ /\ faults < MaxFaults /\ faults' = faults + 1
        /\ Emit(r, << "error" >>)
        /\ Refuse(r, "MessagingTimeout")
  /\ UNCHANGED <<rows, backend, call, mine, wrote>>

-----------------------------------------------------------------------------
(* The environment *)

\* An engine handles a notification: NotificationEngine says how, here only
\* that a host is taken out and a status goes on to a final one.
Handle(n) ==
  /\ \/ /\ notes[n].status \in { "new", "error" }
        /\ notes' = [notes EXCEPT ![n].status = "running"]
        /\ hosts' = [hosts EXCEPT ![notes[n].host].on_maintenance =
                       IF notes[n].type = "COMPUTE_HOST" THEN TRUE ELSE @]
     \/ /\ notes[n].status = "running"
        /\ \E s \in { "error", "finished" } : notes' = [notes EXCEPT ![n].status = s]
        /\ UNCHANGED hosts
  /\ UNCHANGED <<segments, backend, lock, pc, call, mine, wrote, events, answer, faults>>

\* An API process dies; a lock it held is given up by the backend.
Die(r) ==
  /\ pc[r] \notin { "idle", "ended" } /\ faults < MaxFaults
  /\ faults' = faults + 1
  /\ Ends(r, NoReply)
  /\ UNCHANGED <<rows, backend, call, mine, wrote, events>>

Step(r) ==
  \/ Lock(r) \/ ReadSegment(r) \/ ReadHost(r) \/ ReadHostByName(r)
  \/ CheckRecovery(r) \/ CheckName(r) \/ CheckDuplicate(r)
  \/ Write(r) \/ Cast(r)

Next ==
  \/ \E r \in Requests : Arrive(r) \/ Step(r) \/ Die(r)
  \/ \E n \in Existing : Handle(n)

Spec == Init /\ [][Next]_vars

-----------------------------------------------------------------------------
(* Properties *)

TypeOK ==
  /\ \A s \in Ids : segments[s].row \in { None, "live", "deleted" }
  /\ \A h \in Ids : hosts[h].row \in { None, "live", "deleted" } /\ hosts[h].segment \in Ids
  /\ \A n \in Existing : notes[n].status \in { "new", "running", "error", "finished" } /\ hosts[notes[n].host].row # None
  /\ lock \subseteq { r \in Requests : pc[r] \in { "read", "check", "write", "cast" } }
  /\ \A r \in Requests : answer[r] # 0 <=> pc[r] = "ended"

\* Two rows of one failure that both requests named alike.
Same(m, n) ==
  /\ call[m].name = call[n].name
  /\ notes[m].host = notes[n].host
  /\ notes[m].type = notes[n].type
  /\ notes[m].payload = notes[n].payload
  /\ notes[m].generated <= notes[n].generated + Detection
  /\ notes[n].generated <= notes[m].generated + Detection

\* A failure is accepted once: for a host by any API process at any time, if
\* a coordination backend is configured; for the other types at least by a
\* client that waits for its answer and then tries again, be the answer that
\* the cast failed.  What became of the first does not matter, nor when it was
\* created: the check compares generated_time, and has no look at the status.
AcceptedOnce ==
  \A m, n \in Existing :
    m # n /\ Same(m, n) =>
      /\ m \notin earlier[n] /\ n \notin earlier[m]
      /\ backend => notes[m].type # "COMPUTE_HOST"

\* What the help of duplicate_notification_detection_interval says: only an
\* earlier notification that is new or running makes the next one a duplicate.
\* (The code asks for no status: one that is FINISHED does so, too.)
DuplicatesAreOpen ==
  \A r \in Requests : pc[r] = "check" /\ call[r].op = "notify" /\ IsDuplicate(r) =>
    \E n \in Existing : /\ notes[n].type = call[r].type /\ notes[n].host = copy[r]
                        /\ notes[n].payload = call[r].payload
                        /\ notes[n].status \in { "new", "running" }

\* The answer and the versioned notifications tell what happened, whatever
\* other requests did between the checks and the write: success means that
\* this very request has changed the database, and of two deletes of a row
\* one is told 404; a refusal that it has not; END is emitted when the change is made,
\* ERROR when not (after END only if the cast failed).
TruthIsTold ==
  \A r \in Requests :
    /\ answer[r] \in 200 .. 299 /\ call[r].op # None => wrote[r]
    /\ answer[r] \in 400 .. 499 => ~wrote[r]
    /\ events[r] \in
         IF wrote[r] THEN { << "start", "end" >>, << "start", "end", "error" >> }
                     ELSE { << >>, << "start", "error" >> }
    /\ \A q \in Requests \ {r} :
         wrote[r] /\ wrote[q] /\ call[r] = call[q] => call[r].op \notin { "delete_segment", "delete_host" }

\* A segment or host is changed or deleted under a recovery only when the
\* notification came after the check: one that was there, waiting for its
\* retry included, keeps the request out.
CheckedMeansIdle ==
  \A r \in Requests :
    pc[r] = "write" /\ call[r].op \in { "update_segment", "delete_segment", "update_host", "delete_host" } =>
      \A n \in known[r] : HostFound(notes[n].host, call[r].segment) => notes[n].status = "finished"

\* A live host in a deleted segment (it can be deleted, but no longer listed)
\* only comes from a request that created it beside the deletion.
OrphansAreRaced ==
  \A h \in Ids : hosts[h].row = "live" /\ ~SegmentFound(hosts[h].segment) =>
    \E d \in Requests : /\ call[d].op = "delete_segment" /\ wrote[d]
                        /\ call[d].segment = hosts[h].segment
                        /\ h # 0 /\ d \notin earlier[h]
=============================================================================
