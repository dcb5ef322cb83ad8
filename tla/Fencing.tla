------------------------------- MODULE Fencing -------------------------------
(***************************************************************************)
(* Redfish fencing of the hosts of one segment: the tasks of               *)
(* fenced_host_failure.py, the records and locks of EtcdFencingStore       *)
(* (fencing_state_etcd.py) and the client of redfish_fencing.py, one BMC   *)
(* per host.                                                               *)
(*                                                                         *)
(* An event is one host notification in one engine.  It registers the      *)
(* failure, collects the failure set, fences each host of the set under a  *)
(* segment lock and a host lock, and evacuates its own host only if etcd   *)
(* shows that the whole set is FENCED.  Every step below is one call to    *)
(* etcd (a compare-and-swap with the read before it counts as one) or to a *)
(* BMC; a step that fails sends the event to "error", and the unfinished   *)
(* task of the engine runs its tasks again from the start.                 *)
(***************************************************************************)
EXTENDS Naturals, FiniteSets, FiniteSetsExt

CONSTANTS
  Hosts,         \* the hosts of the segment that are not reserved
  Events,
  NoEvent,       \* "nobody"
  MaxAutos,      \* the values of max_auto_fence_hosts_per_segment to try
  MinSurviving,  \* min_surviving_compute_hosts
  Window,        \* is multi_host_batch_window more than 0?
  StableReads,   \* stable_power_state_reads
  MaxAttempts,   \* max_attempts
  SlowFencing,   \* may the fencing of a set take longer than lock_ttl?
  Placements,    \* the ways to try in which events are about hosts
  MaxRuns,       \* bound: the runs of each event (the engine retries an error once)
  MaxFaults      \* bound: etcd calls that raise and engines that die

ASSUME FencingAssumption ==
  /\ Hosts \subseteq Nat /\ IsFiniteSet(Hosts)
  /\ NoEvent \notin Events /\ IsFiniteSet(Events)
  /\ MaxAutos \subseteq Nat \ {0} /\ MaxAutos # {}
  /\ MinSurviving \in Nat /\ Window \in BOOLEAN
  /\ StableReads \in Nat \ {0} /\ MaxAttempts \in Nat \ {0}
  /\ SlowFencing \in BOOLEAN
  /\ Placements \subseteq [Events -> Hosts]
  /\ MaxRuns \in [Events -> Nat] /\ MaxFaults \in Nat

VARIABLES
  hostOf,    \* the host an event is about
  maxAuto,   \* the limit in force
  pc,        \* per event: the call it makes next
  runs,      \* per event: how often the engine has run it
  set,       \* per event: failure_set
  todo,      \* per event: the hosts of the set it has not fenced
  attempt,   \* per event: the attempt of fence_off at the current host
  reads,     \* per event: stable_reads of _wait_for_power_off
  raised,    \* per event: an exception is on its way out through the finallys
  failure,   \* etcd: the age of the failure record of an event
  state,     \* etcd: the fencing state of a host
  hostLock,  \* etcd: who holds the fencing lock of a host
  segLock,   \* etcd: who holds the recovery lock of the segment
  power,     \* per host: its PowerState
  ordered,   \* per host: its BMC has accepted a ForceOff
  faults

local == <<set, todo, attempt, reads>>
etcd  == <<failure, state, hostLock, segLock>>
bmc   == <<power, ordered>>
fixed == <<hostOf, maxAuto>>
vars  == <<fixed, pc, runs, local, raised, etcd, bmc, faults>>

\* A failure record is "recent" until it is older than the window.
Ages == { "none", "recent", "old" }

FenceStates == { "NONE", "FENCE_REQUIRED", "FENCING", "FENCED", "FENCE_FAILED" }

Init ==
  /\ hostOf \in Placements
  /\ maxAuto \in MaxAutos
  /\ pc = [e \in Events |-> "idle"]
  /\ runs = [e \in Events |-> 0]
  /\ set = [e \in Events |-> {}]
  /\ todo = [e \in Events |-> {}]
  /\ attempt = [e \in Events |-> 1]
  /\ reads = [e \in Events |-> 0]
  /\ raised = [e \in Events |-> FALSE]
  /\ failure = [e \in Events |-> "none"]
  /\ state = [h \in Hosts |-> "NONE"]
  /\ hostLock = [h \in Hosts |-> NoEvent]
  /\ segLock = NoEvent
  /\ power = [h \in Hosts |-> "On"]
  /\ ordered = [h \in Hosts |-> FALSE]
  /\ faults = 0

Registering == { "register", "getstate", "putstate" }
Collecting  == Registering \cup { "list", "disable", "lock" }
Fencing    == { "hostlock", "transition", "lookup", "read", "post", "wait", "mark",
                "markfailed", "hostrelease", "assert", "release" }
Finished   == { "idle", "error", "done", "dead" }
PCs        == Collecting \cup Fencing \cup Finished \cup { "gate", "evacuate" }

Running == { e \in Events : pc[e] \notin Finished }

Goto(e, p) == pc' = [pc EXCEPT ![e] = p]

\* The set is fenced in the order of the host names.
Current(e) == Min(todo[e])

-----------------------------------------------------------------------------
(* CollectFailureSetTask and DisableFailureSetTask *)

\* The engine takes the notification, or takes it up again after an error:
\* nothing is left of an earlier run but what is in etcd.
Start(e) ==
  /\ pc[e] \in { "idle", "error" } /\ runs[e] < MaxRuns[e]
  /\ Goto(e, "register")
  /\ runs' = [runs EXCEPT ![e] = @ + 1]
  /\ set' = [set EXCEPT ![e] = {}]
  /\ todo' = [todo EXCEPT ![e] = {}]
  /\ UNCHANGED <<fixed, attempt, reads, raised, etcd, bmc, faults>>

\* mutant: a host that is FENCED stays FENCED when it fails again
Keeping(s) == IF s = "FENCED" THEN s ELSE "FENCE_REQUIRED"

\* Whatever the state was, it is overwritten without a compare-and-swap; a
\* proof of an earlier fencing goes with it.
Registered(s) == "FENCE_REQUIRED"

\* register_host_failure: the failure record is put ...
Register(e) ==
  /\ pc[e] = "register"
  /\ failure' = [failure EXCEPT ![e] = "recent"]
  /\ Goto(e, "getstate")
  /\ UNCHANGED <<fixed, runs, local, raised, state, hostLock, segLock, bmc, faults>>

\* ... the state of the host is read, for the fields that are kept ...
GetState(e) ==
  /\ pc[e] = "getstate"
  /\ Goto(e, "putstate")
  /\ UNCHANGED <<fixed, runs, local, raised, etcd, bmc, faults>>

\* ... and put, over what others have written since.
PutState(e) ==
  /\ pc[e] = "putstate"
  /\ state' = [state EXCEPT ![hostOf[e]] = Registered(@)]
  /\ Goto(e, "list")
  /\ UNCHANGED <<fixed, runs, local, raised, failure, hostLock, segLock, bmc, faults>>

\* mutant: a failure counts only for its own event
RecentOwn(e) == { d \in Events : failure[d] = "recent" /\ d = e }

\* list_recent_failures: of the window, or of this event when it is 0.
Recent(e) ==
  { d \in Events : IF Window THEN failure[d] = "recent" ELSE d = e }

FailureSet(e) == { hostOf[d] : d \in Recent(e) } \cup { hostOf[e] }

WithinLimits(hs) ==
  /\ Cardinality(hs) <= maxAuto
  /\ Cardinality(Hosts \ hs) >= MinSurviving

\* The rest of CollectFailureSetTask; a host without a usable entry in the
\* hosts file stops it too.
List(e) ==
  /\ pc[e] = "list"
  /\ \/ WithinLimits(FailureSet(e)) /\ set' = [set EXCEPT ![e] = FailureSet(e)] /\ Goto(e, "disable")
     \/ Goto(e, "error") /\ UNCHANGED set
  /\ UNCHANGED <<fixed, runs, todo, attempt, reads, raised, etcd, bmc, faults>>

\* nova disables the compute services of the set, or refuses.
Disable(e) ==
  /\ pc[e] = "disable"
  /\ Goto(e, "lock") \/ Goto(e, "error")
  /\ UNCHANGED <<fixed, runs, local, raised, etcd, bmc, faults>>

-----------------------------------------------------------------------------
(* The locks of EtcdFencingStore *)

\* mutant: put instead of create
FreeAlways(holder) == TRUE

\* client.create refuses a key that exists.
Free(holder) == holder = NoEvent

LockSegment(e) ==
  /\ pc[e] = "lock"
  /\ IF Free(segLock)
       THEN /\ segLock' = e
            /\ todo' = [todo EXCEPT ![e] = set[e]]
            /\ Goto(e, "hostlock")
       ELSE UNCHANGED <<segLock, todo>> /\ Goto(e, "error")
  /\ UNCHANGED <<fixed, runs, set, attempt, reads, raised, failure, state, hostLock, bmc, faults>>

\* A host lock somebody holds fails the set before the try block.
LockHost(e) ==
  /\ pc[e] = "hostlock" /\ todo[e] # {}
  /\ IF Free(hostLock[Current(e)])
       THEN hostLock' = [hostLock EXCEPT ![Current(e)] = e] /\ Goto(e, "transition") /\ UNCHANGED <<raised, todo>>
       ELSE Goto(e, "release") /\ raised' = [raised EXCEPT ![e] = TRUE] /\ todo' = [todo EXCEPT ![e] = {}]
            /\ UNCHANGED hostLock
  /\ UNCHANGED <<fixed, runs, set, attempt, reads, failure, state, segLock, bmc, faults>>

\* _release_lock deletes the key, whoever it belongs to by now.
UnlockHost(e) ==
  /\ pc[e] = "hostrelease"
  /\ hostLock' = [hostLock EXCEPT ![Current(e)] = NoEvent]
  /\ todo' = [todo EXCEPT ![e] = IF raised[e] THEN {} ELSE @ \ {Current(e)}]
  /\ Goto(e, IF raised[e] THEN "release" ELSE "hostlock")
  /\ attempt' = [attempt EXCEPT ![e] = 1]
  /\ reads' = [reads EXCEPT ![e] = 0]
  /\ UNCHANGED <<fixed, runs, set, raised, failure, state, segLock, bmc, faults>>

UnlockSegment(e) ==
  /\ pc[e] = "release"
  /\ segLock' = NoEvent
  /\ Goto(e, IF raised[e] THEN "error" ELSE "gate")
  /\ raised' = [raised EXCEPT ![e] = FALSE]
  /\ UNCHANGED <<fixed, runs, local, failure, state, hostLock, bmc, faults>>

\* mutant: a lock is a plain key without a lease
ExpiresNever(holder) == FALSE

\* The leases are not refreshed: they end when the engine that holds them is
\* dead, has given up releasing them, or takes longer than lock_ttl.
Expires(holder) ==
  /\ holder # NoEvent
  /\ SlowFencing \/ pc[holder] \notin Fencing

ExpireSegment ==
  /\ Expires(segLock)
  /\ segLock' = NoEvent
  /\ UNCHANGED <<fixed, pc, runs, local, raised, failure, state, hostLock, bmc, faults>>

ExpireHost(h) ==
  /\ Expires(hostLock[h])
  /\ hostLock' = [hostLock EXCEPT ![h] = NoEvent]
  /\ UNCHANGED <<fixed, pc, runs, local, raised, failure, state, segLock, bmc, faults>>

-----------------------------------------------------------------------------
(* RedfishFenceFailureSetTask._fence_one and RedfishFencingClient *)

\* transition_fencing_state: compare-and-swap to FENCING.
Transition(e) ==
  /\ pc[e] = "transition"
  /\ IF state[Current(e)] \in { "FENCE_REQUIRED", "FENCING" }
       THEN /\ state' = [state EXCEPT ![Current(e)] = "FENCING"]
            /\ Goto(e, "read")
       ELSE Goto(e, "lookup") /\ UNCHANGED state
  /\ UNCHANGED <<fixed, runs, local, raised, failure, hostLock, segLock, bmc, faults>>

\* Another event has fenced the host already; anything else is an exception.
Lookup(e) ==
  /\ pc[e] = "lookup"
  /\ Goto(e, IF state[Current(e)] = "FENCED" THEN "hostrelease" ELSE "markfailed")
  /\ UNCHANGED <<fixed, runs, local, raised, etcd, bmc, faults>>

\* mutant: one attempt more than max_attempts
RequestFailsLate(e) ==
  IF attempt[e] <= MaxAttempts
    THEN attempt' = [attempt EXCEPT ![e] = @ + 1] /\ Goto(e, "read")
    ELSE Goto(e, "markfailed") /\ UNCHANGED attempt

\* A RequestException: fence_off starts over, up to max_attempts.
RequestFails(e) ==
  IF attempt[e] < MaxAttempts
    THEN attempt' = [attempt EXCEPT ![e] = @ + 1] /\ Goto(e, "read")
    ELSE Goto(e, "markfailed") /\ UNCHANGED attempt

\* _fence_once up to its first read: log in, read the system, check its
\* identity and the reset types (which ends the fencing at once).  A host
\* that is off gets no ForceOff.
ReadSystem(e) ==
  /\ pc[e] = "read"
  /\ reads' = [reads EXCEPT ![e] = 0]
  /\ \/ Goto(e, IF power[Current(e)] = "Off" THEN "wait" ELSE "post") /\ UNCHANGED attempt
     \/ Goto(e, "markfailed") /\ UNCHANGED attempt
     \/ RequestFails(e)
  /\ UNCHANGED <<fixed, runs, set, todo, raised, etcd, bmc, faults>>

\* The BMC may have taken the order when the answer is lost.
PostForceOff(e) ==
  /\ pc[e] = "post"
  /\ \/ Goto(e, "wait") /\ ordered' = [ordered EXCEPT ![Current(e)] = TRUE] /\ UNCHANGED attempt
     \/ RequestFails(e) /\ \E took \in BOOLEAN : ordered' = [ordered EXCEPT ![Current(e)] = @ \/ took]
  /\ UNCHANGED <<fixed, runs, set, todo, reads, raised, etcd, power, faults>>

\* mutant: the host is fenced once the order is taken
OffOnceOrdered(h) == power[h] = "Off" \/ ordered[h]

ReadsOff(h) == power[h] = "Off"

\* One turn of _wait_for_power_off: stable_power_state_reads reads of Off in
\* a row are the proof; a read of On starts the count again.
WaitRead(e) ==
  /\ pc[e] = "wait"
  /\ \/ /\ reads' = [reads EXCEPT ![e] = IF ReadsOff(Current(e)) THEN @ + 1 ELSE 0]
        /\ Goto(e, IF reads'[e] >= StableReads THEN "mark" ELSE "wait")
        /\ UNCHANGED attempt
     \/ RequestFails(e) /\ UNCHANGED reads
  /\ UNCHANGED <<fixed, runs, set, todo, raised, etcd, bmc, faults>>

\* power_off_timeout is over, or another system answers: no further attempt.
WaitFails(e) ==
  /\ pc[e] = "wait"
  /\ Goto(e, "markfailed")
  /\ UNCHANGED <<fixed, runs, local, raised, etcd, bmc, faults>>

\* mark_fenced, whatever the state is by now.
MarkFenced(e) ==
  /\ pc[e] = "mark"
  /\ state' = [state EXCEPT ![Current(e)] = "FENCED"]
  /\ Goto(e, "hostrelease")
  /\ UNCHANGED <<fixed, runs, local, raised, failure, hostLock, segLock, bmc, faults>>

MarkFailed(e) ==
  /\ pc[e] = "markfailed"
  /\ state' = [state EXCEPT ![Current(e)] = "FENCE_FAILED"]
  /\ raised' = [raised EXCEPT ![e] = TRUE]
  /\ Goto(e, "hostrelease")
  /\ UNCHANGED <<fixed, runs, local, failure, hostLock, segLock, bmc, faults>>

-----------------------------------------------------------------------------
(* The gate, and what follows *)

\* mutant: assert_hosts_fenced is content with a fencing that has begun
ProvenOrBegun(hs) == \A h \in hs : state[h] \in { "FENCED", "FENCING" }

\* assert_hosts_fenced
Proven(hs) == \A h \in hs : state[h] = "FENCED"

\* Still under the segment lock ...
AssertFenced(e) ==
  /\ pc[e] = "hostlock" /\ todo[e] = {}
  /\ Goto(e, "release")
  /\ raised' = [raised EXCEPT ![e] = ~Proven(set[e])]
  /\ UNCHANGED <<fixed, runs, local, etcd, bmc, faults>>

\* ... and once more without it: AssertFailureSetFencedTask.
Gate(e) ==
  /\ pc[e] = "gate"
  /\ Goto(e, IF Proven(set[e]) THEN "evacuate" ELSE "error")
  /\ UNCHANGED <<fixed, runs, local, raised, etcd, bmc, faults>>

\* The staged evacuation of the host of the event (StagedRecovery) ends.
Evacuated(e) ==
  /\ pc[e] = "evacuate"
  /\ Goto(e, "done") \/ Goto(e, "error")
  /\ UNCHANGED <<fixed, runs, local, raised, etcd, bmc, faults>>

\* What a call that raises has done to etcd: nothing, or all it was to do when
\* only its answer was lost.
Lost(e) ==
  \/ UNCHANGED etcd
  \/ /\ pc[e] = "register" /\ failure' = [failure EXCEPT ![e] = "recent"]
     /\ UNCHANGED <<state, hostLock, segLock>>
  \/ /\ \/ pc[e] = "putstate" /\ state' = [state EXCEPT ![hostOf[e]] = Registered(@)]
        \/ pc[e] = "transition" /\ state[Current(e)] = "FENCE_REQUIRED"
             /\ state' = [state EXCEPT ![Current(e)] = "FENCING"]
        \/ pc[e] = "mark" /\ state' = [state EXCEPT ![Current(e)] = "FENCED"]
        \/ pc[e] = "markfailed" /\ state' = [state EXCEPT ![Current(e)] = "FENCE_FAILED"]
     /\ UNCHANGED <<failure, hostLock, segLock>>
  \/ /\ \/ /\ pc[e] = "hostlock" /\ todo[e] # {} /\ Free(hostLock[Current(e)])
           /\ hostLock' = [hostLock EXCEPT ![Current(e)] = e]
        \/ pc[e] = "hostrelease" /\ hostLock' = [hostLock EXCEPT ![Current(e)] = NoEvent]
     /\ UNCHANGED <<failure, state, segLock>>
  \/ /\ \/ pc[e] = "lock" /\ Free(segLock) /\ segLock' = e
        \/ pc[e] = "release" /\ segLock' = NoEvent
     /\ UNCHANGED <<failure, state, hostLock>>

\* An etcd call raises.  Inside _fence_one it is caught and FENCE_FAILED is
\* saved, unless that fails as well; a lock whose release fails stays, and so
\* does one whose creation raises after all.
EtcdFails(e) ==
  /\ faults < MaxFaults
  /\ \/ pc[e] \in Collecting \cup { "gate" } /\ pc[e] # "disable" /\ Goto(e, "error")
        /\ UNCHANGED <<todo, raised>>
     \/ pc[e] = "hostlock" /\ Goto(e, "release") /\ raised' = [raised EXCEPT ![e] = TRUE]
        /\ UNCHANGED todo
     \/ pc[e] \in { "transition", "lookup", "mark" } /\ Goto(e, "markfailed")
        /\ UNCHANGED <<todo, raised>>
     \/ pc[e] = "markfailed" /\ Goto(e, "hostrelease") /\ raised' = [raised EXCEPT ![e] = TRUE]
        /\ UNCHANGED todo
     \/ pc[e] = "hostrelease" /\ Goto(e, "release") /\ raised' = [raised EXCEPT ![e] = TRUE]
        /\ todo' = [todo EXCEPT ![e] = @ \ {Current(e)}]
     \/ pc[e] = "release" /\ Goto(e, "error") /\ raised' = [raised EXCEPT ![e] = FALSE]
        /\ UNCHANGED todo
  /\ Lost(e)
  /\ faults' = faults + 1
  /\ UNCHANGED <<fixed, runs, set, attempt, reads, bmc>>

-----------------------------------------------------------------------------
(* The environment *)

\* The engine dies; its notification stays RUNNING until it expires.
Die(e) ==
  /\ e \in Running /\ faults < MaxFaults
  /\ Goto(e, "dead")
  /\ faults' = faults + 1
  /\ UNCHANGED <<fixed, runs, local, raised, etcd, bmc>>

\* A failure drops out of the window (in any order: an event that registers
\* again has a younger record than one that came later).
Age(e) ==
  /\ failure[e] = "recent"
  /\ failure' = [failure EXCEPT ![e] = "old"]
  /\ UNCHANGED <<fixed, pc, runs, local, raised, state, hostLock, segLock, bmc, faults>>

\* A host goes off because it was told to.
PowersOff(h) ==
  /\ power[h] = "On" /\ ordered[h]
  /\ power' = [power EXCEPT ![h] = "Off"]
  /\ ordered' = [ordered EXCEPT ![h] = FALSE]
  /\ UNCHANGED <<fixed, pc, runs, local, raised, etcd, faults>>

\* An operator powers a host on again, but not under a recovery of it.
PowerOn(h) ==
  /\ power[h] = "Off"
  /\ \A e \in Running : h # hostOf[e] /\ h \notin set[e]
  /\ power' = [power EXCEPT ![h] = "On"]
  /\ UNCHANGED <<fixed, pc, runs, local, raised, etcd, ordered, faults>>

Step(e) ==
  \/ Register(e) \/ GetState(e) \/ PutState(e) \/ List(e) \/ Disable(e)
  \/ LockSegment(e) \/ LockHost(e) \/ UnlockHost(e) \/ UnlockSegment(e)
  \/ Transition(e) \/ Lookup(e) \/ ReadSystem(e) \/ PostForceOff(e)
  \/ WaitRead(e) \/ WaitFails(e) \/ MarkFenced(e) \/ MarkFailed(e)
  \/ AssertFenced(e) \/ Gate(e) \/ Evacuated(e)

Next ==
  \/ \E e \in Events : Start(e) \/ Step(e) \/ EtcdFails(e) \/ Die(e) \/ Age(e)
  \/ ExpireSegment
  \/ \E h \in Hosts : ExpireHost(h) \/ PowersOff(h) \/ PowerOn(h)

Spec == Init /\ [][Next]_vars

\* An engine goes on with its tasks (eventlet schedules every ready green
\* thread, every wait in them has a timeout) and etcd ends leases.
FairSpec ==
  /\ Spec
  /\ \A e \in Events : WF_vars(Step(e))
  /\ WF_vars(ExpireSegment)
  /\ \A h \in Hosts : WF_vars(ExpireHost(h))

-----------------------------------------------------------------------------
(* Properties *)

\* The type of every variable, and whose failure sets and locks exist.
TypeOK ==
  /\ hostOf \in [Events -> Hosts] /\ maxAuto \in MaxAutos
  /\ pc \in [Events -> PCs]
  /\ runs \in [Events -> Nat] /\ \A e \in Events : runs[e] <= MaxRuns[e]
  /\ set \in [Events -> SUBSET Hosts]
  /\ todo \in [Events -> SUBSET Hosts]
  /\ \A e \in Events : todo[e] \subseteq set[e]
  /\ attempt \in [Events -> 1 .. MaxAttempts]
  /\ reads \in [Events -> 0 .. StableReads]
  /\ raised \in [Events -> BOOLEAN]
  /\ failure \in [Events -> Ages]
  /\ state \in [Hosts -> FenceStates]
  /\ hostLock \in [Hosts -> Events \cup {NoEvent}]
  /\ segLock \in Events \cup {NoEvent}
  /\ power \in [Hosts -> { "On", "Off" }]
  /\ ordered \in [Hosts -> BOOLEAN]
  /\ faults \in 0 .. MaxFaults

\* Instances are evacuated only from a host that is off: no proof of an
\* earlier failure, of another event or of a run that was given up opens the
\* gate of AssertFailureSetFencedTask over a host that runs again.
EvacuatedHostIsOff ==
  \A e \in Events : pc[e] = "evacuate" => power[hostOf[e]] = "Off"

\* The events whose failure set was accepted in their present run and whose
\* failure is still in the window.
Accepted == { e \in Events : set[e] # {} /\ failure[e] = "recent" }

\* The limit on the hosts fenced in one window holds without any lock,
\* because a failure is registered before the failures are listed: of two
\* engines that collect at once, the later one sees both (or both refuse).
LimitPerWindow ==
  Window => Cardinality({ hostOf[e] : e \in Accepted }) <= maxAuto

\* The segment recovery lock: fencing goes on for one event at a time, though
\* locks are released by key, by engines that retry, give up or raise in any
\* call; it needs lock_ttl to cover the fencing of a set.
OneFencerPerSegment ==
  ~SlowFencing => Cardinality({ e \in Events : pc[e] \in Fencing }) <= 1

\* No lock of a dead engine, no lock that could not be released and no BMC
\* keeps a recovery waiting for ever: every run of every event ends (an event
\* is run at most MaxRuns times), and in the end no lock is taken.
EveryFencingEnds ==
  <>[](Running = {} /\ segLock = NoEvent /\ \A h \in Hosts : hostLock[h] = NoEvent)

\* What CODEX_MASAKARI_REDFISH_FENCING_ETCD.md asks of the locks ("Locks must
\* be etcd TTL lease keys with keepalive while task is running"): an event that
\* fences still holds the segment lock it took.
SegmentLockExcludes == \A e \in Events : pc[e] \in Fencing => segLock = e
=============================================================================
