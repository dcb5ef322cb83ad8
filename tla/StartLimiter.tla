----------------------------- MODULE StartLimiter -----------------------------
(***************************************************************************)
(* The start slots of one destination host in staged recovery:             *)
(* EtcdStartLimiter (engine/drivers/taskflow/staged_limiter.py), the start *)
(* leases of EtcdStagedRecoveryStore (staged_state_etcd.py) and the start  *)
(* attempts that hold them (BatchedStartInstancesTask._start_one of        *)
(* staged_host_failure.py).                                                *)
(*                                                                         *)
(* A start attempt takes a slot, calls nova, polls until the instance is   *)
(* ACTIVE or start_timeout is over, waits batch_delay and frees the slot.  *)
(* A slot is an etcd key with a TTL lease: if the attempt takes longer, or *)
(* its engine dies, etcd deletes the key.                                  *)
(***************************************************************************)
EXTENDS Naturals, FiniteSets

CONSTANTS
  Attempts,      \* start attempts, of any engine
  Servers,       \* the instances
  ServerOf,      \* the instance an attempt starts
  Limits,        \* the values of max_parallel_starts_per_host in force in turn
  StartTimeout,  \* start_timeout
  BatchDelay,    \* batch_delay
  TTL,           \* slot_lease_ttl
  CallTime,      \* the longest that etcd and nova take between lease and polling
  NoAttempt,     \* "nobody"
  MaxDeaths,     \* bound on attempts whose engine dies
  MaxChanges     \* bound on changes of the limit

\* _validate_ttl requires no more of the configuration.
ASSUME LimiterAssumption ==
  /\ ServerOf \in [Attempts -> Servers] /\ IsFiniteSet(Servers)
  /\ Limits # {} /\ Limits \subseteq Nat \ {0} /\ IsFiniteSet(Limits)
  /\ StartTimeout \in Nat \ {0} /\ BatchDelay \in Nat /\ CallTime \in Nat
  /\ TTL \in Nat /\ TTL >= StartTimeout + BatchDelay
  /\ NoAttempt \notin Attempts
  /\ MaxDeaths \in Nat /\ MaxChanges \in Nat

VARIABLES
  limit,    \* the runtime override in etcd, or the configured limit
  lock,     \* the tooz lock staged-start-lock-<dest_host>
  lease,    \* etcd: per instance, whose lease keeps the key of its slot alive
  age,      \* per instance: time since that lease was granted
  pc,       \* per attempt: where it is
  spent,    \* per attempt: time spent in the current phase
  deaths, changes

slotVars == <<limit, lock, lease, age, pc, spent, deaths, changes>>

\* An attempt between acquire and release, its instance starting or settling.
Starting == { a \in Attempts : pc[a] \in { "call", "poll", "delay" } }
Holding  == Starting \cup { a \in Attempts : pc[a] = "release" }
PCs == { "sleep", "list", "create", "call", "poll", "delay", "release", "done", "dead" }

Leased == { i \in Servers : lease[i] # NoAttempt }

SlotsInit ==
  /\ limit \in Limits
  /\ lock = NoAttempt
  /\ lease = [i \in Servers |-> NoAttempt]
  /\ age = [i \in Servers |-> 0]
  /\ pc = [a \in Attempts |-> "sleep"]
  /\ spent = [a \in Attempts |-> 0]
  /\ deaths = 0
  /\ changes = 0

\* How long an attempt can stay in the phase it is in; asleep or waiting for
\* the lock it may stay for ever, and releasing takes no time to speak of.
Patience(a) ==
  CASE pc[a] = "call"  -> CallTime
    [] pc[a] = "poll"  -> StartTimeout
    [] pc[a] = "delay" -> BatchDelay
    [] OTHER           -> 0

Timed(a) == pc[a] \in { "call", "poll", "delay" }

\* The next phase of an attempt, its clock set back.
Goto(a, p) ==
  /\ pc' = [pc EXCEPT ![a] = p]
  /\ spent' = [spent EXCEPT ![a] = 0]

-----------------------------------------------------------------------------
(* EtcdStartLimiter.acquire *)

\* mutant: the slots are counted and taken without the lock
LockFreeAlways == TRUE

LockFree == lock = NoAttempt

Lock(a) ==
  /\ pc[a] = "sleep"
  /\ LockFree
  /\ lock' = a
  /\ Goto(a, "list")
  /\ UNCHANGED <<limit, lease, age, deaths, changes>>

\* Count the live leases of the host, then read the limit; no slot free:
\* unlock, sleep and try again.
List(a) ==
  /\ pc[a] = "list"
  /\ IF Cardinality(Leased) < limit
       THEN Goto(a, "create") /\ UNCHANGED lock
       ELSE Goto(a, "sleep") /\ lock' = NoAttempt
  /\ UNCHANGED <<limit, lease, age, deaths, changes>>

\* mutant: put instead of create
KeyFreeAlways(i) == TRUE

\* client.create refuses a key that exists: another attempt starts the instance.
KeyFree(i) == lease[i] = NoAttempt

Create(a) ==
  LET i == ServerOf[a] IN
  /\ pc[a] = "create"
  /\ lock' = NoAttempt
  /\ IF KeyFree(i)
       THEN /\ lease' = [lease EXCEPT ![i] = a]
            /\ age' = [age EXCEPT ![i] = 0]
            /\ Goto(a, "call")
       ELSE Goto(a, "sleep") /\ UNCHANGED <<lease, age>>
  /\ UNCHANGED <<limit, deaths, changes>>

-----------------------------------------------------------------------------
(* _start_one, from the slot on *)

\* STARTING is saved and nova accepts start_server, or one of them raises.
Call(a) ==
  /\ pc[a] = "call"
  /\ \E p \in { "poll", "delay" } : Goto(a, p)
  /\ UNCHANGED <<limit, lock, lease, age, deaths, changes>>

\* _wait_for_start_result: ACTIVE, ERROR or start_timeout.
Poll(a) ==
  /\ pc[a] = "poll"
  /\ Goto(a, "delay")
  /\ UNCHANGED <<limit, lock, lease, age, deaths, changes>>

\* eventlet.sleep(batch_delay)
Delay(a) ==
  /\ pc[a] = "delay"
  /\ spent[a] = BatchDelay
  /\ Goto(a, "release")
  /\ UNCHANGED <<limit, lock, lease, age, deaths, changes>>

\* release_start_lease deletes the key of the instance and revokes the lease
\* it finds there, whoever's it is.
Release(a) ==
  /\ pc[a] = "release"
  /\ lease' = [lease EXCEPT ![ServerOf[a]] = NoAttempt]
  /\ Goto(a, "done")
  /\ UNCHANGED <<limit, lock, age, deaths, changes>>

\* The engine of an attempt dies: tooz frees the lock, the lease stays.
Die(a) ==
  /\ pc[a] \notin { "done", "dead" }
  /\ deaths < MaxDeaths
  /\ deaths' = deaths + 1
  /\ lock' = IF lock = a THEN NoAttempt ELSE lock
  /\ Goto(a, "dead")
  /\ UNCHANGED <<limit, lease, age, changes>>

-----------------------------------------------------------------------------
(* The operator, etcd and time *)

SetLimit(n) ==
  /\ changes < MaxChanges
  /\ n # limit
  /\ limit' = n
  /\ changes' = changes + 1
  /\ UNCHANGED <<lock, lease, age, pc, spent, deaths>>

\* mutants: the key is not attached to the lease; the TTL is start_timeout alone
ExpiredNever(i) == FALSE

ExpiredWithStart(i) == lease[i] # NoAttempt /\ age[i] >= StartTimeout

Expired(i) == lease[i] # NoAttempt /\ age[i] >= TTL

Expire(i) ==
  /\ Expired(i)
  /\ lease' = [lease EXCEPT ![i] = NoAttempt]
  /\ UNCHANGED <<limit, lock, age, pc, spent, deaths, changes>>

\* Time passes unless something is due; nobody looks at the clock while no
\* slot is held.
Tick ==
  /\ \A a \in Attempts :
       /\ Timed(a) => spent[a] < Patience(a)
       /\ pc[a] # "release"
  /\ \A i \in Servers : ~Expired(i)
  /\ Leased # {} \/ \E a \in Attempts : Timed(a)
  /\ age' = [i \in Servers |-> IF i \in Leased /\ age[i] < TTL THEN age[i] + 1 ELSE age[i]]
  /\ spent' = [a \in Attempts |-> IF Timed(a) THEN spent[a] + 1 ELSE spent[a]]
  /\ UNCHANGED <<limit, lock, lease, pc, deaths, changes>>

-----------------------------------------------------------------------------
Step(a) == List(a) \/ Create(a) \/ Call(a) \/ Poll(a) \/ Delay(a) \/ Release(a)

SlotsNext ==
  \/ \E a \in Attempts : Step(a) \/ Lock(a) \/ Die(a)
  \/ \E n \in Limits : SetLimit(n)
  \/ \E i \in Servers : Expire(i)
  \/ Tick

SlotsSpec == SlotsInit /\ [][SlotsNext]_slotVars

\* Attempts go on and time passes; the tooz lock, asked for again and again,
\* is obtained in the end.
FairSlotsSpec ==
  /\ SlotsSpec
  /\ WF_slotVars(Tick)
  /\ \A i \in Servers : WF_slotVars(Expire(i))
  /\ \A a \in Attempts : WF_slotVars(Step(a)) /\ SF_slotVars(Create(a)) /\ SF_slotVars(Lock(a))

-----------------------------------------------------------------------------
(* Properties *)

\* No phase of an attempt outlasts its timeout, and no lease its TTL.
SlotsTypeOK ==
  /\ limit \in Limits
  /\ lock \in Attempts \cup {NoAttempt}
  /\ lease \in [Servers -> Attempts \cup {NoAttempt}]
  /\ age \in [Servers -> 0 .. TTL]
  /\ pc \in [Attempts -> PCs]
  /\ spent \in [Attempts -> Nat] /\ \A a \in Attempts : spent[a] <= Patience(a)
  /\ deaths \in Nat
  /\ changes \in Nat

\* An attempt that has not finished still owns the slot it took: nobody else
\* can have taken it, and it will not free somebody else's.
SlotIsOwn == \A a \in Holding : lease[ServerOf[a]] = a

\* A start slot is not used again, for the same instance by another engine or
\* for another instance, before the start attempt it was taken for completed
\* or timed out: no more instances start on the host than the largest limit
\* that was in force allows.
StartsWithinLimit ==
  /\ \A n \in Limits : (\A m \in Limits : m <= n) => Cardinality(Starting) <= n
  /\ \A a, b \in Starting : ServerOf[a] = ServerOf[b] => a = b

\* However leases, clocks and the tooz lock take part in it: a slot is taken
\* while it is free and the limit allows one more, is given back by the attempt
\* that took it, and is taken away only from an attempt whose engine died.
Phase(a) ==
  IF pc[a] \in { "sleep", "list", "create" } THEN "waiting"
  ELSE IF a \in Holding THEN "holding" ELSE "over"

Slots == INSTANCE StartSlots WITH holder <- lease, phase <- [a \in Attempts |-> Phase(a)]

ImplementsStartSlots == Slots!Spec

\* Every attempt gets its slot and finishes, even when an engine died holding
\* one or the tooz lock.
EveryAttemptEnds == \A a \in Attempts : <>(pc[a] \in { "done", "dead" })
=============================================================================
