----------------------------- MODULE FencingProofs -----------------------------
(***************************************************************************)
(* Theorems about Fencing, for every number of hosts, events, runs, faults *)
(* and attempts, and with locks that hold or not.                          *)
(*                                                                         *)
(* Why the gate is safe without any lock: an event that has registered its *)
(* failure has taken away every earlier proof for its host, and while it   *)
(* runs nobody powers that host on; so FENCED, whoever has written it      *)
(* since, was written after reads of Off (WaitedOff) and is still true     *)
(* (ProofsAreFresh), and the set the gate looks at contains the host of    *)
(* the event (OwnHostInSet).                                               *)
(***************************************************************************)
EXTENDS Fencing, TLAPS, FiniteSetTheorems, WellFoundedInduction

USE FencingAssumption

\* where an event has a host it is fencing
AtHost == { "transition", "lookup", "read", "post", "wait", "mark", "markfailed", "hostrelease" }

\* where the failure set of an event has been accepted
SetKnown == { "disable", "lock", "gate", "evacuate" } \cup Fencing

HasHost       == \A e \in Events : pc[e] \in AtHost => todo[e] # {}
OwnHostInSet  == \A e \in Events : pc[e] \in SetKnown => hostOf[e] \in set[e]
WaitedOff     == \A e \in Events : pc[e] = "mark" => power[Current(e)] = "Off"

ProofsAreFresh ==
  \A e \in Running : pc[e] \notin Registering /\ state[hostOf[e]] = "FENCED" => power[hostOf[e]] = "Off"

\* The events that fence hold the segment lock, unless it has run out.
FencersHoldTheLock == ~SlowFencing => \A e \in Events : pc[e] \in Fencing => segLock = e

\* A run begins without a failure set.
NothingAccepted == \A e \in Events : pc[e] \in Registering \cup { "list" } => set[e] = {} /\ todo[e] = {}

\* Before the last read of Off there is one to come.
Counting == \A e \in Events : pc[e] \in { "post", "wait" } => reads[e] < StableReads

\* The inductive invariants.
TypeInv  == TypeOK /\ Counting /\ NothingAccepted
GateInv  == TypeInv /\ HasHost /\ OwnHostInSet /\ WaitedOff /\ ProofsAreFresh /\ EvacuatedHostIsOff
LimitInv == TypeInv /\ LimitPerWindow

-----------------------------------------------------------------------------
(* The current host, and the events that run *)

\* the least element of a set of numbers
LEMMA MinExists ==
  ASSUME NEW S \in SUBSET Nat, S # {}
  PROVE  Min(S) \in S
<1> DEFINE R == OpToRel(<, Nat)
<1>1. IsWellFoundedOn(R, Nat)
  BY NatLessThanWellFounded
<1>2. \A a, b \in Nat : a < b => <<a, b>> \in R
  BY Zenon DEF OpToRel
<1> HIDE DEF R
<1>3. PICK x \in S : \A y \in S : ~(<<y, x>> \in R)
  BY <1>1, WFMin
<1>4. \A y \in S : ~(y < x)
  BY <1>2, <1>3, Zenon
<1>5. \A y \in S : x <= y
  BY <1>4
<1> QED
  BY <1>5 DEF Min

\* Current depends on nothing but the hosts that are left.
LEMMA CurrentIsLeft ==
  ASSUME TypeOK, NEW e \in Events, todo[e] # {}
  PROVE  Current(e) \in todo[e] /\ Current(e) \in Hosts
BY MinExists DEF TypeOK, Current

LEMMA RunningAre == \A e \in Events : e \in Running <=> pc[e] \notin Finished
BY DEF Running

-----------------------------------------------------------------------------
(* Types *)

LEMMA InitType == Init => TypeInv
BY DEF Init, TypeInv, Counting, NothingAccepted, TypeOK, PCs, Finished, Registering, Ages, FenceStates

LEMMA CollectingType ==
  ASSUME TypeInv, NEW e \in Events,
         Start(e) \/ Register(e) \/ GetState(e) \/ PutState(e) \/ List(e) \/ Disable(e) \/ LockSegment(e)
  PROVE  TypeOK'
<1> USE DEF TypeInv, TypeOK, Goto, PCs, Registering, Collecting, Fencing, Finished, fixed, local, etcd, bmc
<1>1. CASE Start(e)
  BY <1>1 DEF Start
<1>2. CASE Register(e) \/ GetState(e) \/ PutState(e)
  BY <1>2 DEF Register, GetState, PutState, Registered, Ages, FenceStates
<1>3. CASE List(e)
  <2>1. FailureSet(e) \in SUBSET Hosts
    BY DEF FailureSet, Recent
  <2>2. set' \in [Events -> SUBSET Hosts] /\ pc' \in [Events -> PCs]
    BY <1>3, <2>1 DEF List
  <2>3. todo'[e] = {}
    BY <1>3 DEF List, NothingAccepted
  <2> QED
    BY <1>3, <2>2, <2>3 DEF List
<1>4. CASE Disable(e)
  BY <1>4 DEF Disable
<1>5. CASE LockSegment(e)
  BY <1>5 DEF LockSegment
<1> QED
  BY <1>1, <1>2, <1>3, <1>4, <1>5

LEMMA LockingType ==
  ASSUME TypeOK, NEW e \in Events, LockHost(e) \/ UnlockHost(e) \/ UnlockSegment(e)
  PROVE  TypeOK'
<1> USE DEF TypeOK, Goto, PCs, Registering, Collecting, Fencing, Finished, fixed, local, etcd, bmc
<1>1. CASE LockHost(e)
  <2>1. CASE Free(hostLock[Current(e)])
    BY <1>1, <2>1 DEF LockHost
  <2>2. CASE ~Free(hostLock[Current(e)])
    BY <1>1, <2>2 DEF LockHost
  <2> QED
    BY <2>1, <2>2
<1>2. CASE UnlockHost(e)
  <2>1. todo' \in [Events -> SUBSET Hosts] /\ \A d \in Events : todo'[d] \subseteq todo[d]
    BY <1>2 DEF UnlockHost
  <2>2. hostLock' \in [Hosts -> Events \cup {NoEvent}] /\ pc' \in [Events -> PCs]
    BY <1>2 DEF UnlockHost
  <2>3. 1 \in 1 .. MaxAttempts /\ 0 \in 0 .. StableReads
    OBVIOUS
  <2>4. attempt' \in [Events -> 1 .. MaxAttempts] /\ reads' \in [Events -> 0 .. StableReads]
    BY <1>2, <2>3 DEF UnlockHost
  <2> QED
    BY <1>2, <2>1, <2>2, <2>4 DEF UnlockHost
<1>3. CASE UnlockSegment(e)
  BY <1>3 DEF UnlockSegment
<1> QED
  BY <1>1, <1>2, <1>3

LEMMA ClientType ==
  ASSUME TypeInv, NEW e \in Events,
         ReadSystem(e) \/ PostForceOff(e) \/ WaitRead(e) \/ WaitFails(e)
  PROVE  TypeOK'
<1> USE DEF TypeInv, TypeOK, Goto, PCs, Registering, Collecting, Fencing, Finished, fixed, local, etcd, bmc, RequestFails
<1>1. CASE ReadSystem(e)
  BY <1>1 DEF ReadSystem
<1>2. CASE PostForceOff(e)
  <2>1. ordered' \in [Hosts -> BOOLEAN]
    BY <1>2, Zenon DEF PostForceOff
  <2>2. pc' \in [Events -> PCs] /\ attempt' \in [Events -> 1 .. MaxAttempts]
    BY <1>2 DEF PostForceOff
  <2> QED
    BY <1>2, <2>1, <2>2 DEF PostForceOff
<1>3. CASE WaitRead(e)
  <2>1. CASE RequestFails(e) /\ UNCHANGED reads
    BY <1>3, <2>1 DEF WaitRead
  <2>2. CASE /\ reads' = [reads EXCEPT ![e] = IF ReadsOff(Current(e)) THEN @ + 1 ELSE 0]
             /\ Goto(e, IF reads'[e] >= StableReads THEN "mark" ELSE "wait")
             /\ UNCHANGED attempt
    <3>1. pc[e] = "wait" /\ reads[e] < StableReads
      BY <1>3 DEF WaitRead, Counting
    <3> QED
      BY <1>3, <2>2, <3>1 DEF WaitRead
  <2> QED
    BY <1>3, <2>1, <2>2 DEF WaitRead
<1>4. CASE WaitFails(e)
  BY <1>4 DEF WaitFails
<1> QED
  BY <1>1, <1>2, <1>3, <1>4

LEMMA StateType ==
  ASSUME TypeOK, NEW e \in Events,
         \/ Transition(e) \/ Lookup(e) \/ MarkFenced(e) \/ MarkFailed(e)
         \/ AssertFenced(e) \/ Gate(e) \/ Evacuated(e)
  PROVE  TypeOK'
<1> USE DEF TypeOK, Goto, PCs, Registering, Collecting, Fencing, Finished, FenceStates, fixed, local, etcd, bmc
<1>1. CASE Transition(e)
  BY <1>1 DEF Transition
<1>2. CASE Lookup(e)
  BY <1>2 DEF Lookup
<1>3. CASE MarkFenced(e)
  BY <1>3 DEF MarkFenced
<1>4. CASE MarkFailed(e)
  BY <1>4 DEF MarkFailed
<1>5. CASE AssertFenced(e)
  BY <1>5 DEF AssertFenced
<1>6. CASE Gate(e)
  BY <1>6 DEF Gate
<1>7. CASE Evacuated(e)
  BY <1>7 DEF Evacuated
<1> QED
  BY <1>1, <1>2, <1>3, <1>4, <1>5, <1>6, <1>7

\* A step of the environment is about no event.
LEMMA EnvironmentIsLocal ==
  ASSUME ExpireSegment \/ \E h \in Hosts : ExpireHost(h) \/ PowersOff(h) \/ PowerOn(h)
  PROVE  UNCHANGED <<fixed, pc, runs, local, raised, failure, state>>
BY DEF ExpireSegment, ExpireHost, PowersOff, PowerOn, etcd

\* what a call has done to etcd though it raised
LEMMA LostType ==
  ASSUME TypeOK, NEW e \in Events, Lost(e)
  PROVE  /\ failure' \in [Events -> Ages] /\ state' \in [Hosts -> FenceStates]
         /\ hostLock' \in [Hosts -> Events \cup {NoEvent}] /\ segLock' \in Events \cup {NoEvent}
<1>1. failure' = failure \/ failure' = [failure EXCEPT ![e] = "recent"]
  BY DEF Lost, etcd
<1>2. state' = state \/ \E h, s : s \in FenceStates /\ state' = [state EXCEPT ![h] = s]
  BY DEF Lost, etcd, Registered, FenceStates
<1>3. hostLock' = hostLock \/ \E h, d : d \in Events \cup {NoEvent} /\ hostLock' = [hostLock EXCEPT ![h] = d]
  BY DEF Lost, etcd
<1>4. segLock' \in { segLock, e, NoEvent }
  BY DEF Lost, etcd
<1> QED
  BY <1>1, <1>2, <1>3, <1>4 DEF TypeOK, Ages

LEMMA EtcdFailsType ==
  ASSUME TypeOK, NEW e \in Events, EtcdFails(e)
  PROVE  TypeOK'
<1>1. \E p \in PCs : Goto(e, p)
  BY DEF EtcdFails, PCs, Finished, Fencing, Registering, Collecting
<1>2. pc' \in [Events -> PCs]
  BY <1>1 DEF Goto, TypeOK
<1>3. faults' \in 0 .. MaxFaults
  BY DEF EtcdFails, TypeOK
<1>4. todo' = todo \/ todo' = [todo EXCEPT ![e] = @ \ {Current(e)}]
  BY Zenon DEF EtcdFails
<1>5. todo' \in [Events -> SUBSET Hosts] /\ \A d \in Events : todo'[d] \subseteq todo[d]
  BY <1>4 DEF TypeOK
<1>6. raised' = raised \/ \E b \in BOOLEAN : raised' = [raised EXCEPT ![e] = b]
  BY Zenon DEF EtcdFails
<1>7. raised' \in [Events -> BOOLEAN]
  BY <1>6, Zenon DEF TypeOK
<1>8. UNCHANGED <<fixed, runs, set, attempt, reads, bmc>> /\ Lost(e)
  BY DEF EtcdFails
<1> QED
  BY <1>2, <1>3, <1>5, <1>7, <1>8, LostType DEF TypeOK, fixed, bmc

LEMMA EnvironmentType ==
  ASSUME TypeOK,
         \/ \E e \in Events : EtcdFails(e) \/ Die(e) \/ Age(e)
         \/ ExpireSegment
         \/ \E h \in Hosts : ExpireHost(h) \/ PowersOff(h) \/ PowerOn(h)
  PROVE  TypeOK'
<1> USE DEF TypeOK, Goto, PCs, Registering, Collecting, Fencing, Finished, fixed, local, etcd, bmc
<1>1. ASSUME NEW e \in Events, EtcdFails(e)
      PROVE  TypeOK'
  BY <1>1, EtcdFailsType
<1>2. ASSUME NEW e \in Events, Die(e) \/ Age(e)
      PROVE  TypeOK'
  <2>1. CASE Die(e)
    BY <1>2, <2>1 DEF Die
  <2>2. CASE Age(e)
    BY <1>2, <2>2 DEF Age, Ages
  <2> QED
    BY <1>2, <2>1, <2>2
<1>3. ASSUME ExpireSegment \/ \E h \in Hosts : ExpireHost(h) \/ PowersOff(h) \/ PowerOn(h)
      PROVE  TypeOK'
  <2>1. ordered' \in [Hosts -> BOOLEAN]
    BY <1>3, Zenon DEF ExpireSegment, ExpireHost, PowersOff, PowerOn
  <2>2. power' \in [Hosts -> { "On", "Off" }]
    BY <1>3 DEF ExpireSegment, ExpireHost, PowersOff, PowerOn
  <2>3. hostLock' \in [Hosts -> Events \cup {NoEvent}] /\ segLock' \in Events \cup {NoEvent}
    BY <1>3 DEF ExpireSegment, ExpireHost, PowersOff, PowerOn
  <2> QED
    BY <1>3, <2>1, <2>2, <2>3, EnvironmentIsLocal DEF ExpireSegment, ExpireHost, PowersOff, PowerOn
<1> QED
  BY <1>1, <1>2, <1>3

LEMMA NextType == TypeInv /\ [Next]_vars => TypeOK'
<1> SUFFICES ASSUME TypeInv, [Next]_vars PROVE TypeOK'
  OBVIOUS
<1> USE DEF TypeInv
<1>1. CASE UNCHANGED vars
  BY <1>1 DEF vars, fixed, local, etcd, bmc, TypeOK
<1>2. CASE Next
  BY <1>2, CollectingType, LockingType, ClientType, StateType, EnvironmentType DEF Next, Step
<1> QED
  BY <1>1, <1>2

\* A step of an event is about nobody else's task and failure set.
LEMMA StepsAreLocal ==
  ASSUME TypeOK, NEW e \in Events, Start(e) \/ Step(e) \/ EtcdFails(e) \/ Die(e) \/ Age(e)
  PROVE  /\ \A d \in Events \ {e} : /\ pc'[d] = pc[d] /\ set'[d] = set[d]
                                    /\ todo'[d] = todo[d] /\ reads'[d] = reads[d]
         /\ hostOf' = hostOf /\ maxAuto' = maxAuto
<1> USE DEF TypeOK, Goto, fixed, local, etcd, bmc, RequestFails
<1>1. CASE Start(e) \/ Register(e) \/ GetState(e) \/ PutState(e) \/ List(e) \/ Disable(e) \/ LockSegment(e)
  BY <1>1 DEF Start, Register, GetState, PutState, List, Disable, LockSegment
<1>2. CASE LockHost(e) \/ UnlockHost(e) \/ UnlockSegment(e)
  BY <1>2 DEF LockHost, UnlockHost, UnlockSegment
<1>3. CASE ReadSystem(e) \/ PostForceOff(e) \/ WaitRead(e) \/ WaitFails(e)
  BY <1>3 DEF ReadSystem, PostForceOff, WaitRead, WaitFails
<1>4. CASE \/ Transition(e) \/ Lookup(e) \/ MarkFenced(e) \/ MarkFailed(e)
           \/ AssertFenced(e) \/ Gate(e) \/ Evacuated(e)
  BY <1>4 DEF Transition, Lookup, MarkFenced, MarkFailed, AssertFenced, Gate, Evacuated
<1>5. CASE EtcdFails(e) \/ Die(e) \/ Age(e)
  BY <1>5 DEF EtcdFails, Die, Age
<1> QED
  BY <1>1, <1>2, <1>3, <1>4, <1>5 DEF Step

LEMMA NextCounting == TypeInv /\ [Next]_vars => Counting' /\ NothingAccepted'
<1> SUFFICES ASSUME TypeInv, [Next]_vars PROVE Counting' /\ NothingAccepted'
  OBVIOUS
<1> USE DEF TypeInv
<1>1. ASSUME NEW e \in Events, Start(e) \/ Step(e) \/ EtcdFails(e) \/ Die(e) \/ Age(e)
      PROVE  Counting' /\ NothingAccepted'
  <2> SUFFICES /\ pc'[e] \in { "post", "wait" } => reads'[e] < StableReads
               /\ pc'[e] \in Registering \cup { "list" } => set'[e] = {} /\ todo'[e] = {}
    BY <1>1, StepsAreLocal DEF Counting, NothingAccepted
  <2> USE DEF Goto, TypeOK, Counting, NothingAccepted, Registering, local
  <2>1. CASE ReadSystem(e)
    BY <2>1 DEF ReadSystem, RequestFails
  <2>2. CASE PostForceOff(e)
    BY <2>2, SMTT(60) DEF PostForceOff, RequestFails
  <2>3. CASE WaitRead(e)
    BY <2>3 DEF WaitRead, RequestFails
  <2>4. CASE Die(e) \/ Age(e)
    BY <2>4 DEF Die, Age
  <2>5. CASE EtcdFails(e)
    BY <2>5 DEF EtcdFails
  <2>6. CASE Start(e) \/ Register(e) \/ GetState(e) \/ PutState(e) \/ List(e) \/ Disable(e) \/ LockSegment(e)
    BY <2>6 DEF Start, Register, GetState, PutState, List, Disable, LockSegment
  <2>7. CASE LockHost(e) \/ UnlockHost(e) \/ UnlockSegment(e)
    BY <2>7 DEF LockHost, UnlockHost, UnlockSegment
  <2>8. CASE \/ Transition(e) \/ Lookup(e) \/ MarkFenced(e) \/ MarkFailed(e)
             \/ AssertFenced(e) \/ Gate(e) \/ Evacuated(e) \/ WaitFails(e)
    BY <2>8 DEF Transition, Lookup, MarkFenced, MarkFailed, AssertFenced, Gate, Evacuated, WaitFails
  <2> QED
    BY <1>1, <2>1, <2>2, <2>3, <2>4, <2>5, <2>6, <2>7, <2>8 DEF Step
<1>2. CASE ExpireSegment \/ \E h \in Hosts : ExpireHost(h) \/ PowersOff(h) \/ PowerOn(h)
  BY <1>2, EnvironmentIsLocal DEF local, Counting, NothingAccepted
<1>3. CASE UNCHANGED vars
  BY <1>3 DEF vars, local, Counting, NothingAccepted
<1> QED
  BY <1>1, <1>2, <1>3 DEF Next

LEMMA NextTypeInv == TypeInv /\ [Next]_vars => TypeInv'
BY NextType, NextCounting DEF TypeInv

\* Every variable has its type: no handler leaves a task it does not know of,
\* fences a host outside its failure set, or counts past max_attempts and
\* stable_power_state_reads.
THEOREM TypeCorrect == Spec => []TypeOK
<1>1. TypeInv => TypeOK
  BY DEF TypeInv
<1> QED
  BY <1>1, InitType, NextTypeInv, PTL DEF Spec

-----------------------------------------------------------------------------
(* One fencer per segment *)

LockInv == TypeInv /\ FencersHoldTheLock

LEMMA NextFencers == LockInv /\ [Next]_vars => FencersHoldTheLock'
<1> SUFFICES ASSUME LockInv, [Next]_vars, ~SlowFencing, NEW d \in Events, pc'[d] \in Fencing
             PROVE  segLock' = d
  BY DEF FencersHoldTheLock
<1> USE DEF LockInv, TypeInv
<1>0. \A e \in Events : pc[e] \in Fencing => segLock = e
  BY DEF FencersHoldTheLock
<1>1. ASSUME NEW e \in Events, Start(e) \/ Step(e) \/ EtcdFails(e) \/ Die(e) \/ Age(e)
      PROVE  segLock' = d
  <2>0. d # e => pc'[d] = pc[d]
    BY <1>1, StepsAreLocal
  <2> USE DEF Goto, TypeOK, etcd
  <2>1. CASE LockSegment(e)
    BY <2>1, <2>0, <1>0 DEF LockSegment, Free, Fencing
  <2>2. CASE UnlockSegment(e)
    BY <2>2, <2>0, <1>0 DEF UnlockSegment, Fencing
  <2>3. CASE Start(e) \/ Register(e) \/ GetState(e) \/ PutState(e) \/ List(e) \/ Disable(e)
    <3>1. pc'[e] \notin Fencing /\ segLock' = segLock
      BY <2>3 DEF Start, Register, GetState, PutState, List, Disable, Fencing
    <3> QED
      BY <3>1, <2>0, <1>0
  <2>4. CASE Die(e) \/ Age(e)
    <3>1. segLock' = segLock /\ (pc'[e] \in Fencing => pc[e] \in Fencing)
      BY <2>4 DEF Die, Age, Fencing
    <3> QED
      BY <3>1, <2>0, <1>0
  <2>8. CASE EtcdFails(e)
    <3>1. /\ pc'[e] \in Fencing => pc[e] \in Fencing /\ pc[e] # "release"
          /\ pc[e] # "lock" /\ pc[e] # "release" => segLock' = segLock
          /\ pc[e] = "lock" => Free(segLock) \/ segLock' = segLock
      BY <2>8 DEF EtcdFails, Lost, Fencing, Registering, Collecting
    <3>2. CASE pc[e] = "lock"
      BY <3>1, <3>2, <2>0, <1>0 DEF Free, Fencing
    <3>3. CASE pc[e] = "release"
      BY <3>1, <3>3, <2>0, <1>0 DEF Fencing
    <3> QED
      BY <3>1, <3>2, <3>3, <2>0, <1>0
  <2>5. CASE \/ LockHost(e) \/ UnlockHost(e) \/ Transition(e) \/ Lookup(e) \/ MarkFenced(e)
             \/ MarkFailed(e) \/ AssertFenced(e)
    <3>1. segLock' = segLock /\ pc[e] \in Fencing
      BY <2>5 DEF LockHost, UnlockHost, Transition, Lookup, MarkFenced, MarkFailed, AssertFenced, Fencing
    <3> QED
      BY <3>1, <2>0, <1>0
  <2>6. CASE ReadSystem(e) \/ PostForceOff(e) \/ WaitRead(e) \/ WaitFails(e)
    <3>1. segLock' = segLock /\ pc[e] \in Fencing
      BY <2>6 DEF ReadSystem, PostForceOff, WaitRead, WaitFails, Fencing
    <3> QED
      BY <3>1, <2>0, <1>0
  <2>7. CASE Gate(e) \/ Evacuated(e)
    <3>1. segLock' = segLock /\ pc'[e] \notin Fencing
      BY <2>7 DEF Gate, Evacuated, Fencing
    <3> QED
      BY <3>1, <2>0, <1>0
  <2> QED
    BY <1>1, <2>1, <2>2, <2>3, <2>4, <2>5, <2>6, <2>7, <2>8 DEF Step
<1>2. CASE ExpireSegment
  BY <1>2, <1>0 DEF ExpireSegment, Expires
<1>3. CASE \E h \in Hosts : ExpireHost(h) \/ PowersOff(h) \/ PowerOn(h)
  BY <1>3, <1>0 DEF ExpireHost, PowersOff, PowerOn, etcd
<1>4. CASE UNCHANGED vars
  BY <1>4, <1>0 DEF vars, etcd
<1> QED
  BY <1>1, <1>2, <1>3, <1>4 DEF Next

\* The segment recovery lock does its work when its lease covers the fencing of
\* a set: whatever raises, dies, retries or is released by key, one event
\* fences at a time.
THEOREM OneFencer == Spec => []OneFencerPerSegment
<1>1. Init => FencersHoldTheLock
  BY DEF Init, FencersHoldTheLock, Fencing
<1>2. LockInv => OneFencerPerSegment
  <2> SUFFICES ASSUME LockInv, ~SlowFencing
               PROVE  Cardinality({ e \in Events : pc[e] \in Fencing }) <= 1
    BY DEF OneFencerPerSegment
  <2>1. { e \in Events : pc[e] \in Fencing } \in SUBSET {segLock}
    BY DEF LockInv, FencersHoldTheLock
  <2>2. IsFiniteSet({segLock}) /\ Cardinality({segLock}) = 1
    BY FS_Singleton
  <2> QED
    BY <2>1, <2>2, FS_Subset
<1>3. LockInv /\ [Next]_vars => LockInv'
  BY NextFencers, NextTypeInv DEF LockInv
<1> QED
  BY <1>1, <1>2, <1>3, InitType, PTL DEF Spec, LockInv

-----------------------------------------------------------------------------
(* The limit on the hosts fenced in one window *)

LEMMA AcceptedSets ==
  ASSUME TypeInv, [Next]_vars
  PROVE  \/ \E e \in Events : List(e) /\ Accepted' \subseteq Accepted \cup {e}
                            /\ (e \in Accepted' => WithinLimits(FailureSet(e)))
         \/ Accepted' \subseteq Accepted
<1> USE DEF TypeInv, TypeOK, local, etcd
<1>1. ASSUME NEW e \in Events, List(e)
      PROVE  Accepted' \subseteq Accepted \cup {e} /\ (e \in Accepted' => WithinLimits(FailureSet(e)))
  BY <1>1 DEF List, Accepted, NothingAccepted
<1>2. ASSUME NEW e \in Events, Start(e) \/ Register(e) \/ EtcdFails(e) \/ Age(e)
      PROVE  Accepted' \subseteq Accepted
  BY <1>2 DEF Start, Register, EtcdFails, Lost, Age, Accepted, NothingAccepted, Registering
<1>3. ASSUME NEW e \in Events,
             \/ GetState(e) \/ PutState(e)
             \/ Disable(e) \/ LockSegment(e) \/ LockHost(e) \/ UnlockHost(e) \/ UnlockSegment(e)
             \/ Transition(e) \/ Lookup(e) \/ ReadSystem(e) \/ PostForceOff(e)
             \/ WaitRead(e) \/ WaitFails(e) \/ MarkFenced(e) \/ MarkFailed(e)
             \/ AssertFenced(e) \/ Gate(e) \/ Evacuated(e) \/ Die(e)
      PROVE  UNCHANGED <<set, failure>>
  BY <1>3 DEF GetState, PutState, Disable, LockSegment, LockHost, UnlockHost, UnlockSegment, Transition, Lookup,
              ReadSystem, PostForceOff, WaitRead, WaitFails, MarkFenced, MarkFailed, AssertFenced,
              Gate, Evacuated, Die
<1>4. CASE ExpireSegment \/ \E h \in Hosts : ExpireHost(h) \/ PowersOff(h) \/ PowerOn(h)
  BY <1>4, EnvironmentIsLocal DEF Accepted
<1>5. CASE UNCHANGED vars
  BY <1>5 DEF vars, Accepted
<1>6. UNCHANGED <<set, failure>> => Accepted' \subseteq Accepted
  BY DEF Accepted
<1> QED
  BY <1>1, <1>2, <1>3, <1>4, <1>5, <1>6 DEF Next, Step

LEMMA NextLimit == LimitInv /\ [Next]_vars => LimitPerWindow'
<1> SUFFICES ASSUME LimitInv, [Next]_vars, Window
             PROVE  Cardinality({ hostOf'[e] : e \in Accepted' }) <= maxAuto'
  BY DEF LimitPerWindow
<1> USE DEF LimitInv, TypeInv
<1> DEFINE Fenced == { hostOf[e] : e \in Accepted }
           Then   == { hostOf[e] : e \in Accepted' }
<1>1. hostOf' = hostOf /\ maxAuto' = maxAuto
  BY StepsAreLocal, EnvironmentIsLocal DEF Next, vars, fixed
<1>2. IsFiniteSet(Fenced) /\ Cardinality(Fenced) <= maxAuto /\ maxAuto \in Nat
  <2>1. Fenced \in SUBSET Hosts
    BY DEF TypeOK, Accepted
  <2>2. maxAuto \in Nat
    BY DEF TypeOK
  <2>3. IsFiniteSet(Fenced)
    BY <2>1, FS_Subset
  <2> QED
    BY <2>2, <2>3 DEF LimitPerWindow
<1>3. CASE Accepted' \subseteq Accepted
  <2>1. Then \in SUBSET Fenced
    BY <1>3
  <2>2. Cardinality(Then) <= Cardinality(Fenced) /\ Cardinality(Then) \in Nat /\ Cardinality(Fenced) \in Nat
    BY <2>1, <1>2, FS_Subset, FS_CardinalityType
  <2> QED
    BY <1>1, <1>2, <2>2
<1>4. ASSUME NEW e \in Events, List(e), Accepted' \subseteq Accepted \cup {e},
             e \in Accepted', WithinLimits(FailureSet(e))
      PROVE  Cardinality(Then) <= maxAuto
  <2>1. Then \in SUBSET FailureSet(e)
    BY <1>4 DEF FailureSet, Recent, Accepted
  <2>2. FailureSet(e) \in SUBSET Hosts
    BY DEF FailureSet, Recent, TypeOK
  <2>3. IsFiniteSet(FailureSet(e))
    BY <2>2, FS_Subset
  <2>4. /\ Cardinality(Then) <= Cardinality(FailureSet(e)) /\ Cardinality(Then) \in Nat
        /\ Cardinality(FailureSet(e)) \in Nat
    BY <2>1, <2>3, FS_Subset, FS_CardinalityType
  <2> QED
    BY <1>2, <1>4, <2>4 DEF WithinLimits
<1>5. Cardinality(Then) <= maxAuto
  BY <1>3, <1>4, <1>1, AcceptedSets
<1> QED
  BY <1>1, <1>5

\* No more hosts than max_auto_fence_hosts_per_segment are accepted for fencing
\* in one window, though nothing is locked when the failures are counted.
THEOREM LimitHolds == Spec => []LimitPerWindow
<1>1. Init => LimitPerWindow
  <2> SUFFICES ASSUME Init PROVE Cardinality({ hostOf[e] : e \in Accepted }) <= maxAuto
    BY DEF LimitPerWindow
  <2>1. { hostOf[e] : e \in Accepted } = {} /\ maxAuto \in Nat
    BY DEF Init, Accepted
  <2> QED
    BY <2>1, FS_EmptySet
<1>2. LimitInv /\ [Next]_vars => LimitInv'
  BY NextLimit, NextTypeInv DEF LimitInv
<1> QED
  BY <1>1, <1>2, InitType, PTL DEF Spec, LimitInv

-----------------------------------------------------------------------------
(* The gate *)

LEMMA NextOwnHost == GateInv /\ [Next]_vars => HasHost' /\ OwnHostInSet'
<1> SUFFICES ASSUME GateInv, [Next]_vars PROVE HasHost' /\ OwnHostInSet'
  OBVIOUS
<1> USE DEF GateInv, TypeInv
<1>1. ASSUME NEW e \in Events, Start(e) \/ Step(e) \/ EtcdFails(e) \/ Die(e) \/ Age(e)
      PROVE  HasHost' /\ OwnHostInSet'
  <2> SUFFICES /\ pc'[e] \in AtHost => todo'[e] # {}
               /\ pc'[e] \in SetKnown => hostOf[e] \in set'[e]
    BY <1>1, StepsAreLocal DEF HasHost, OwnHostInSet
  <2> USE DEF Goto, TypeOK, HasHost, OwnHostInSet, AtHost, SetKnown, Fencing, local
  <2>1. CASE Start(e) \/ Register(e) \/ GetState(e) \/ PutState(e)
    BY <2>1 DEF Start, Register, GetState, PutState
  <2>2. CASE List(e)
    <3>1. hostOf[e] \in FailureSet(e)
      BY DEF FailureSet
    <3> QED
      BY <2>2, <3>1 DEF List
  <2>3. CASE Disable(e) \/ LockSegment(e)
    BY <2>3 DEF Disable, LockSegment
  <2>4. CASE LockHost(e)
    BY <2>4 DEF LockHost
  <2>5. CASE UnlockHost(e) \/ UnlockSegment(e)
    BY <2>5 DEF UnlockHost, UnlockSegment
  <2>6. CASE Transition(e) \/ Lookup(e) \/ MarkFenced(e) \/ MarkFailed(e)
    BY <2>6 DEF Transition, Lookup, MarkFenced, MarkFailed
  <2>7. CASE ReadSystem(e) \/ PostForceOff(e) \/ WaitRead(e) \/ WaitFails(e)
    BY <2>7 DEF ReadSystem, PostForceOff, WaitRead, WaitFails, RequestFails
  <2>8. CASE AssertFenced(e) \/ Gate(e) \/ Evacuated(e)
    BY <2>8 DEF AssertFenced, Gate, Evacuated
  <2>9. CASE EtcdFails(e)
    BY <2>9 DEF EtcdFails, Registering, Collecting
  <2>10. CASE Die(e) \/ Age(e)
    BY <2>10 DEF Die, Age
  <2> QED
    BY <1>1, <2>1, <2>2, <2>3, <2>4, <2>5, <2>6, <2>7, <2>8, <2>9, <2>10 DEF Step
<1>2. CASE ExpireSegment \/ \E h \in Hosts : ExpireHost(h) \/ PowersOff(h) \/ PowerOn(h)
  BY <1>2, EnvironmentIsLocal DEF fixed, local, HasHost, OwnHostInSet
<1>3. CASE UNCHANGED vars
  BY <1>3 DEF vars, fixed, local, HasHost, OwnHostInSet
<1> QED
  BY <1>1, <1>2, <1>3 DEF Next

\* How an event gets to where it relies on a host being off, and what it does
\* to the proofs: only MarkFenced makes one.
LEMMA EventEffects ==
  ASSUME TypeOK, NEW e \in Events, Start(e) \/ Step(e) \/ EtcdFails(e) \/ Die(e) \/ Age(e)
  PROVE  /\ power' = power
         /\ pc'[e] = "mark" => /\ todo'[e] = todo[e]
                               /\ pc[e] = "mark" \/ (pc[e] = "wait" /\ power[Current(e)] = "Off")
         /\ pc'[e] = "evacuate" => pc[e] = "evacuate" \/ (pc[e] = "gate" /\ Proven(set[e]))
         /\ e \in Running' /\ pc'[e] \notin Registering =>
              \/ e \in Running /\ pc[e] \notin Registering
              \/ state'[hostOf[e]] # "FENCED"
         /\ \A h \in Hosts : state'[h] = "FENCED" =>
              state[h] = "FENCED" \/ (pc[e] = "mark" /\ h = Current(e))
<1> USE DEF Goto, TypeOK, Running, Finished, Registering, local, etcd, bmc
<1>1. CASE Start(e)
  BY <1>1 DEF Start
<1>2. CASE Register(e) \/ GetState(e) \/ PutState(e)
  BY <1>2 DEF Register, GetState, PutState, Registered
<1>3. CASE List(e) \/ Disable(e)
  BY <1>3 DEF List, Disable
<1>4. CASE LockSegment(e) \/ UnlockSegment(e)
  BY <1>4 DEF LockSegment, UnlockSegment
<1>5. CASE LockHost(e) \/ UnlockHost(e)
  BY <1>5 DEF LockHost, UnlockHost
<1>6. CASE Transition(e) \/ MarkFailed(e) \/ Lookup(e)
  BY <1>6 DEF Transition, MarkFailed, Lookup
<1>7. CASE MarkFenced(e)
  BY <1>7 DEF MarkFenced
<1>8. CASE ReadSystem(e) \/ PostForceOff(e) \/ WaitFails(e)
  BY <1>8 DEF ReadSystem, PostForceOff, WaitFails, RequestFails
<1>9. CASE WaitRead(e)
  <2>1. pc'[e] = "mark" => ReadsOff(Current(e))
    BY <1>9 DEF WaitRead, RequestFails
  <2>2. pc[e] = "wait" /\ pc'[e] \in { "mark", "wait", "read", "markfailed" }
    BY <1>9 DEF WaitRead, RequestFails
  <2> QED
    BY <1>9, <2>1, <2>2 DEF WaitRead, ReadsOff
<1>10. CASE AssertFenced(e) \/ Gate(e) \/ Evacuated(e)
  BY <1>10 DEF AssertFenced, Gate, Evacuated
<1>11. CASE EtcdFails(e)
  <2>1. \A h \in Hosts : state'[h] = "FENCED" => state[h] = "FENCED" \/ (pc[e] = "mark" /\ h = Current(e))
    BY <1>11 DEF EtcdFails, Lost, Registered
  <2>2. pc'[e] \in { "error", "release", "markfailed", "hostrelease" } /\ power' = power
    BY <1>11 DEF EtcdFails
  <2>3. pc'[e] # "error" => e \in Running /\ pc[e] \notin Registering
    BY <1>11 DEF EtcdFails
  <2> QED
    BY <2>1, <2>2, <2>3
<1>12. CASE Die(e) \/ Age(e)
  BY <1>12 DEF Die, Age
<1> QED
  BY <1>1, <1>2, <1>3, <1>4, <1>5, <1>6, <1>7, <1>8, <1>9, <1>10, <1>11, <1>12 DEF Step

LEMMA NextGate == GateInv /\ [Next]_vars => WaitedOff' /\ ProofsAreFresh' /\ EvacuatedHostIsOff'
<1> SUFFICES ASSUME GateInv, [Next]_vars
             PROVE  WaitedOff' /\ ProofsAreFresh' /\ EvacuatedHostIsOff'
  OBVIOUS
<1> USE DEF GateInv, TypeInv
<1>1. ASSUME NEW e \in Events, Start(e) \/ Step(e) \/ EtcdFails(e) \/ Die(e) \/ Age(e)
      PROVE  WaitedOff' /\ ProofsAreFresh' /\ EvacuatedHostIsOff'
  <2>1. /\ \A d \in Events \ {e} : pc'[d] = pc[d] /\ todo'[d] = todo[d] /\ set'[d] = set[d]
        /\ hostOf' = hostOf
    BY <1>1, StepsAreLocal
  <2> DEFINE Off(h) == power[h] = "Off"
  <2>2. power' = power
    BY <1>1, EventEffects
  <2>3. WaitedOff'
    <3> SUFFICES ASSUME NEW d \in Events, pc'[d] = "mark" PROVE power'[Current(d)'] = "Off"
      BY DEF WaitedOff
    <3>1. todo'[d] = todo[d] /\ power[Current(d)] = "Off"
      BY <1>1, <2>1, EventEffects DEF WaitedOff
    <3> QED
      BY <3>1, <2>2 DEF Current
  <2>4. \A h \in Hosts : state'[h] = "FENCED" => state[h] = "FENCED" \/ power[h] = "Off"
    BY <1>1, EventEffects DEF WaitedOff
  <2>5. ProofsAreFresh'
    <3> SUFFICES ASSUME NEW d \in Events, d \in Running', pc'[d] \notin Registering,
                        state'[hostOf[d]] = "FENCED"
                 PROVE  power[hostOf[d]] = "Off"
      BY <2>1, <2>2 DEF ProofsAreFresh, Running
    <3>1. d \in Running /\ pc[d] \notin Registering
      BY <1>1, <2>1, EventEffects DEF Running
    <3>2. hostOf[d] \in Hosts
      BY DEF TypeOK
    <3> QED
      BY <3>1, <3>2, <2>4 DEF ProofsAreFresh
  <2>6. EvacuatedHostIsOff'
    <3> SUFFICES ASSUME NEW d \in Events, pc'[d] = "evacuate" PROVE power[hostOf[d]] = "Off"
      BY <2>1, <2>2 DEF EvacuatedHostIsOff
    <3>1. CASE pc[d] = "evacuate"
      BY <3>1 DEF EvacuatedHostIsOff
    <3>2. CASE pc[d] = "gate" /\ Proven(set[d])
      <4>1. state[hostOf[d]] = "FENCED"
        BY <3>2 DEF OwnHostInSet, SetKnown, Proven
      <4> QED
        BY <3>2, <4>1 DEF ProofsAreFresh, Running, Finished, Registering
    <3> QED
      BY <1>1, <2>1, <3>1, <3>2, EventEffects
  <2> QED
    BY <2>3, <2>5, <2>6
<1>2. ASSUME NEW h \in Hosts, PowerOn(h)
      PROVE  WaitedOff' /\ ProofsAreFresh' /\ EvacuatedHostIsOff'
  <2>1. /\ UNCHANGED <<fixed, pc, todo, state>>
        /\ \A g \in Hosts \ {h} : power'[g] = power[g]
        /\ \A e \in Running : h # hostOf[e] /\ h \notin set[e]
    BY <1>2 DEF PowerOn, local, etcd, TypeOK
  <2>2. \A e \in Events : pc[e] = "mark" => Current(e) \in set[e] /\ Current(e) \in Hosts /\ e \in Running
    BY CurrentIsLeft DEF HasHost, AtHost, TypeOK, Running, Finished
  <2>3. WaitedOff'
    BY <2>1, <2>2 DEF WaitedOff, Current
  <2>4. ProofsAreFresh' /\ EvacuatedHostIsOff'
    BY <2>1 DEF ProofsAreFresh, EvacuatedHostIsOff, Running, Finished, fixed, TypeOK
  <2> QED
    BY <2>3, <2>4
<1>3. ASSUME NEW h \in Hosts, PowersOff(h)
      PROVE  WaitedOff' /\ ProofsAreFresh' /\ EvacuatedHostIsOff'
  <2>1. /\ UNCHANGED <<fixed, pc, todo, state>>
        /\ \A g : power[g] = "Off" => power'[g] = "Off"
    BY <1>3 DEF PowersOff, local, etcd, TypeOK
  <2> QED
    BY <2>1 DEF WaitedOff, ProofsAreFresh, EvacuatedHostIsOff, Running, Current, fixed
<1>4. CASE ExpireSegment \/ (\E h \in Hosts : ExpireHost(h)) \/ UNCHANGED vars
  <2>1. UNCHANGED <<fixed, pc, todo, state, power>>
    BY <1>4 DEF ExpireSegment, ExpireHost, vars, local, etcd, bmc
  <2> QED
    BY <2>1 DEF WaitedOff, ProofsAreFresh, EvacuatedHostIsOff, Running, Current, fixed
<1> QED
  BY <1>1, <1>2, <1>3, <1>4 DEF Next

\* Nothing is evacuated from a host that is not off, for any interleaving of the
\* events of a segment, with locks that run out in the middle of the fencing
\* (SlowFencing), retries, deaths of engines and calls that fail.
THEOREM GateHolds == Spec => []EvacuatedHostIsOff
<1>1. Init => HasHost /\ OwnHostInSet /\ WaitedOff /\ ProofsAreFresh /\ EvacuatedHostIsOff
  BY DEF Init, HasHost, OwnHostInSet, WaitedOff, ProofsAreFresh, EvacuatedHostIsOff, AtHost,
         SetKnown, Fencing, Running, Finished
<1>2. GateInv /\ [Next]_vars => GateInv'
  BY NextTypeInv, NextOwnHost, NextGate DEF GateInv
<1> QED
  BY <1>1, <1>2, InitType, PTL DEF Spec, GateInv
=============================================================================
