-------------------------- MODULE HostRecoveryProofs --------------------------
(***************************************************************************)
(* Theorems about HostRecovery, for every number of hosts, instances,      *)
(* threads and runs.                                                       *)
(*                                                                         *)
(*  - The loops of the driver and of the retry end: an attempt uses up a   *)
(*    reserved host of the list, or the one flow without (WithinOf), so    *)
(*    the attempts fit the rows the type of a flow allows.                 *)
(*  - The thread of an ONGOING row is in the pool (Busy); it alone holds   *)
(*    the lock on its instance (Locked).                                   *)
(*  - A thread that ends has moved its instance or left a FAILED row,      *)
(*    unless it dies before its try block: until then every instance on    *)
(*    the host that is not excluded has a row in the pool (CoveredOn).     *)
(*  - The lock on a reserved host is held while an evacuation to it may    *)
(*    be going on (Exclusive), and the reserved flag goes before the       *)
(*    first one begins (Spent).                                            *)
(***************************************************************************)
EXTENDS HostRecovery, TLAPS, FiniteSetTheorems

LEMMA Product ==
  ASSUME NEW r \in Nat, NEW d \in Nat, NEW m \in Nat
  PROVE  r * m \in Nat /\ (r + 1) * m = r * m + m /\ r * m <= (r + d) * m
<1>1. (r + d) * m = r * m + d * m
  OBVIOUS
<1>2. r * m \in Nat /\ d * m \in Nat
  OBVIOUS
<1>3. (r + 1) * m = r * m + m
  OBVIOUS
<1> QED
  BY <1>1, <1>2, <1>3

USE RecoveryAssumption

N == Cardinality(Reserved)
Priority == { "auto_priority", "rh_priority" }

\* the attempts the present flow of f may still begin, and a flow after it
Ahead(f) ==
  IF flow[f].kind = "auto"
    THEN IF flow[f].pc \in { "disable", "prepare" } THEN 1 ELSE 0
    ELSE CASE flow[f].pc = "disable" -> Cardinality(flow[f].list)
           [] flow[f].pc = "prepare" -> Cardinality(flow[f].left)
           [] OTHER -> Cardinality(Left(f))

Later(f) ==
  IF method \in Priority /\ ~flow[f].fellBack
    THEN IF flow[f].kind = "auto" THEN Cardinality(flow[f].list) ELSE 1
    ELSE 0

\* the attempts of r runs
Room(r) == r * (1 + N)

WithinOf(f) == flow[f].attempt + Ahead(f) + Later(f) <= Room(runs[f])

\* the reserved host is locked
AtHost == { "enable", "unreserve", "move" }

\* which flow it is, and which hosts it has
ShapeOf(f) ==
  /\ flow[f].pc # "idle" => flow[f].kind = IF flow[f].fellBack THEN OtherFlow ELSE FirstFlow
  /\ flow[f].fellBack => method \in Priority
  /\ flow[f].pc = "idle" => flow[f].kind = "auto" /\ flow[f].todo = {}
  /\ flow[f].pc = "disable" => flow[f].left = {}
  /\ flow[f].pc = "prepare" /\ flow[f].kind = "rh" => flow[f].host \in flow[f].left
  /\ flow[f].pc \in { "enable", "unreserve" } => flow[f].kind = "rh"
  /\ flow[f].pc \in { "evacuate" } \cup AtHost /\ flow[f].kind = "rh" => flow[f].host \in Reserved
  /\ flow[f].todo \subseteq MovesOf(f)

\* Nothing comes back to a failed host, nor to another one.
Home == \A i \in Instances : place[i] \in Failed => place[i] = home[i]

\* The thread of an ONGOING row is in the pool, which nobody leaves before it.
Busy == \A f \in Failed : \A v \in MovesOf(f) :
          vmove[v] = "ongoing" => flow[f].pc = "move" /\ v \in flow[f].todo

\* An instance still on the host is in the attempt, or a row of the notification is FAILED.
CoveredOn(f) ==
  InStatus(f, "failed") = {} =>
    /\ flow[f].pc = "evacuate" =>
         \A i \in Considered(f) : <<i, flow[f].attempt>> \in InStatus(f, "pending")
    /\ flow[f].pc \in AtHost => \A i \in Considered(f) : \E v \in flow[f].todo : v[1] = i

SkippedOn(f) == flow[f].pc = "raised" /\ flow[f].error = "skip" => Considered(f) = {}

Exclusive ==
  \A f, g \in Failed :
    /\ f # g /\ flow[f].kind = "rh" /\ flow[g].kind = "rh"
    /\ flow[f].pc \in AtHost /\ flow[g].pc \in AtHost
    => flow[f].host # flow[g].host

Spent ==
  /\ \A f \in Failed : flow[f].pc = "move" /\ flow[f].kind = "rh" => flow[f].host \notin reserved
  /\ method = "auto" => serving = {}

Locked ==
  \A i \in Instances : locker[i] # NoMove =>
    locker[i][1] = i /\ vmove[locker[i]] = "ongoing"

TypeInv == TypeOK /\ \A f \in Failed : ShapeOf(f) /\ WithinOf(f)
MoveInv == TypeInv /\ Home /\ Busy

-----------------------------------------------------------------------------
(* Counting hosts and attempts *)

LEMMA Sizes ==
  /\ N \in Nat /\ Cardinality({}) = 0
  /\ \A S \in SUBSET Reserved : /\ IsFiniteSet(S) /\ Cardinality(S) \in 0 .. N
                               /\ \A r \in S : Cardinality(S \ {r}) + 1 = Cardinality(S)
<1>1. N \in Nat
  BY FS_CardinalityType DEF N
<1>2. Cardinality({}) = 0
  BY FS_EmptySet
<1>3. ASSUME NEW S \in SUBSET Reserved
      PROVE  IsFiniteSet(S) /\ Cardinality(S) \in 0 .. N
  <2>1. IsFiniteSet(S) /\ Cardinality(S) <= N
    BY FS_Subset DEF N
  <2>2. Cardinality(S) \in Nat
    BY <2>1, FS_CardinalityType
  <2> QED
    BY <1>1, <2>1, <2>2
<1>4. ASSUME NEW S \in SUBSET Reserved, NEW r \in S
      PROVE  Cardinality(S \ {r}) + 1 = Cardinality(S)
  <2>1. Cardinality(S \ {r}) = Cardinality(S) - 1 /\ Cardinality(S) \in Nat
    BY <1>3, FS_RemoveElement, FS_CardinalityType
  <2> QED
    BY <2>1
<1> QED
  BY <1>1, <1>2, <1>3, <1>4

LEMMA SubsetSize ==
  ASSUME NEW S \in SUBSET Reserved, NEW T \in SUBSET S
  PROVE  Cardinality(T) \in Nat /\ Cardinality(S) \in Nat /\ Cardinality(T) <= Cardinality(S)
<1>1. IsFiniteSet(S)
  BY Sizes
<1>2. IsFiniteSet(T) /\ Cardinality(T) <= Cardinality(S)
  BY <1>1, FS_Subset
<1> QED
  BY <1>1, <1>2, FS_CardinalityType

LEMMA Rooms ==
  /\ \A r \in Nat : Room(r) \in Nat /\ Room(r + 1) = Room(r) + 1 + N
  /\ \A r \in 0 .. MaxRuns : Room(r) <= Cardinality(Attempts)
  /\ Cardinality(Attempts) \in Nat
  /\ \A k \in Nat \ {0} : k <= Cardinality(Attempts) => k \in Attempts
<1>1. N \in Nat
  BY Sizes
<1>2. \A r, m \in Nat : r * m \in Nat /\ (r + 1) * m = r * m + m
  BY Product
<1>3. \A r, d, m \in Nat : r * m <= (r + d) * m
  BY Product
<1>4. 1 + N \in Nat
  BY <1>1
<1>5. \A r \in Nat : Room(r) \in Nat /\ Room(r + 1) = Room(r) + 1 + N
  <2> TAKE r \in Nat
  <2> DEFINE M == 1 + N
  <2>1. r * M \in Nat /\ (r + 1) * M = r * M + M
    BY <1>2, <1>4
  <2> QED
    BY <1>1, <2>1 DEF Room
<1>6. \A r \in 0 .. MaxRuns : Room(r) <= Room(MaxRuns)
  <2> TAKE r \in 0 .. MaxRuns
  <2>1. MaxRuns - r \in Nat /\ MaxRuns = r + (MaxRuns - r)
    OBVIOUS
  <2> QED
    BY <1>4, <1>3, <2>1 DEF Room
<1>7. Cardinality(Attempts) = Room(MaxRuns)
  <2>1. Attempts = 1 .. Room(MaxRuns)
    BY DEF Attempts, Room, N
  <2>2. Room(MaxRuns) \in Nat
    BY <1>5
  <2> QED
    BY <2>1, <2>2, FS_Interval
<1>8. Attempts = 1 .. Room(MaxRuns)
  BY DEF Attempts, Room, N
<1>9. \A k \in Nat \ {0} : k <= Room(MaxRuns) => k \in Attempts
  BY <1>5, <1>8
<1> QED
  BY <1>5, <1>6, <1>7, <1>9

LEMMA Counts ==
  ASSUME TypeOK, NEW f \in Failed
  PROVE  Ahead(f) \in Nat /\ Later(f) \in Nat /\ flow[f].attempt \in Nat /\ Room(runs[f]) \in Nat
<1>1. flow[f] \in Flow /\ runs[f] \in Nat
  BY DEF TypeOK
<1>2. flow[f].list \in SUBSET Reserved /\ flow[f].left \in SUBSET Reserved /\ Left(f) \in SUBSET Reserved
  BY <1>1 DEF Flow, Left
<1>3. flow[f].attempt \in Nat
  BY <1>1, Rooms DEF Flow
<1>4. Ahead(f) \in Nat
  BY <1>2, Sizes DEF Ahead
<1>5. Later(f) \in Nat
  BY <1>2, Sizes DEF Later
<1> QED
  BY <1>1, <1>3, <1>4, <1>5, Rooms

-----------------------------------------------------------------------------
(* What a step does to the flow it belongs to. *)

Others(f) == \A g \in Failed \ {f} : flow'[g] = flow[g]

LEMMA FlowSet ==
  ASSUME TypeOK, NEW f \in Failed, NEW fl, flow' = [flow EXCEPT ![f] = fl]
  PROVE  /\ flow'[f] = fl /\ Others(f)
         /\ fl \in Flow => flow' \in [Failed -> Flow]
BY DEF TypeOK, Others

LEMMA Raising ==
  ASSUME TypeOK, NEW f \in Failed, NEW e \in Errors, Raise(f, e)
  PROVE  /\ flow' \in [Failed -> Flow] /\ Others(f)
         /\ flow'[f].pc = "raised" /\ flow'[f].error = e /\ flow'[f].kind = flow[f].kind
         /\ flow'[f].fellBack = flow[f].fellBack /\ flow'[f].list = flow[f].list
         /\ flow'[f].left = flow[f].left /\ flow'[f].host = flow[f].host
         /\ flow'[f].attempt = flow[f].attempt /\ flow'[f].todo = flow[f].todo
<1> DEFINE fl == [flow[f] EXCEPT !.pc = "raised", !.error = e]
<1>1. flow[f] \in Flow
  BY DEF TypeOK
<1>2. /\ fl \in Flow
      /\ fl.pc = "raised" /\ fl.error = e /\ fl.kind = flow[f].kind
      /\ fl.fellBack = flow[f].fellBack /\ fl.list = flow[f].list
      /\ fl.left = flow[f].left /\ fl.host = flow[f].host
      /\ fl.attempt = flow[f].attempt /\ fl.todo = flow[f].todo
  BY <1>1 DEF Flow, PCs
<1>3. flow' = [flow EXCEPT ![f] = fl]
  BY DEF Raise, TypeOK
<1> HIDE DEF fl
<1> QED
  BY <1>2, <1>3, FlowSet

LEMMA Going ==
  ASSUME TypeOK, NEW f \in Failed, NEW p \in PCs, Goto(f, p)
  PROVE  /\ flow' \in [Failed -> Flow] /\ Others(f)
         /\ flow'[f].pc = p /\ flow'[f].kind = flow[f].kind
         /\ flow'[f].fellBack = flow[f].fellBack /\ flow'[f].list = flow[f].list
         /\ flow'[f].left = flow[f].left /\ flow'[f].host = flow[f].host
         /\ flow'[f].error = flow[f].error /\ flow'[f].attempt = flow[f].attempt
         /\ flow'[f].todo = flow[f].todo
<1> DEFINE fl == [flow[f] EXCEPT !.pc = p]
<1>1. flow[f] \in Flow
  BY DEF TypeOK
<1>2. /\ fl \in Flow
      /\ fl.pc = p /\ fl.kind = flow[f].kind
      /\ fl.fellBack = flow[f].fellBack /\ fl.list = flow[f].list
      /\ fl.left = flow[f].left /\ fl.host = flow[f].host
      /\ fl.error = flow[f].error /\ fl.attempt = flow[f].attempt
      /\ fl.todo = flow[f].todo
  BY <1>1 DEF Flow, PCs
<1>3. flow' = [flow EXCEPT ![f] = fl]
  BY DEF Goto, TypeOK
<1> HIDE DEF fl
<1> QED
  BY <1>2, <1>3, FlowSet

LEMMA Ending ==
  ASSUME TypeOK, NEW f \in Failed, NEW v, Ended(f, v)
  PROVE  /\ flow' \in [Failed -> Flow] /\ Others(f)
         /\ flow'[f].todo = flow[f].todo \ {v} /\ flow'[f].pc = flow[f].pc
         /\ flow'[f].kind = flow[f].kind /\ flow'[f].fellBack = flow[f].fellBack
         /\ flow'[f].list = flow[f].list /\ flow'[f].left = flow[f].left
         /\ flow'[f].host = flow[f].host /\ flow'[f].error = flow[f].error
         /\ flow'[f].attempt = flow[f].attempt
<1> DEFINE fl == [flow[f] EXCEPT !.todo = @ \ {v}]
<1>1. flow[f] \in Flow
  BY DEF TypeOK
<1>2. /\ fl \in Flow
      /\ fl.todo = flow[f].todo \ {v} /\ fl.pc = flow[f].pc
      /\ fl.kind = flow[f].kind /\ fl.fellBack = flow[f].fellBack
      /\ fl.list = flow[f].list /\ fl.left = flow[f].left
      /\ fl.host = flow[f].host /\ fl.error = flow[f].error
      /\ fl.attempt = flow[f].attempt
  BY <1>1 DEF Flow
<1>3. flow' = [flow EXCEPT ![f] = fl]
  BY DEF Ended, TypeOK
<1> HIDE DEF fl
<1> QED
  BY <1>2, <1>3, FlowSet

LEMMA Idling ==
  ASSUME TypeOK, NEW f \in Failed, flow' = [flow EXCEPT ![f] = Idle(@.attempt)]
  PROVE  /\ flow' \in [Failed -> Flow] /\ Others(f)
         /\ flow'[f].pc = "idle" /\ flow'[f].kind = "auto" /\ ~flow'[f].fellBack
         /\ flow'[f].list = {} /\ flow'[f].attempt = flow[f].attempt /\ flow'[f].todo = {}
<1> DEFINE fl == Idle(flow[f].attempt)
<1>1. flow[f] \in Flow
  BY DEF TypeOK
<1>2. fl \in Flow /\ fl.pc = "idle" /\ fl.kind = "auto" /\ ~fl.fellBack
      /\ fl.list = {} /\ fl.attempt = flow[f].attempt /\ fl.todo = {}
  BY <1>1 DEF Flow, Idle, PCs
<1>3. flow' = [flow EXCEPT ![f] = fl]
  OBVIOUS
<1> HIDE DEF fl
<1> QED
  BY <1>2, <1>3, FlowSet

LEMMA Entering ==
  ASSUME NEW fl \in Flow, NEW k \in { "auto", "rh" }
  PROVE  /\ Entered(fl, k) \in Flow /\ Entered(fl, k).kind = k
         /\ Entered(fl, k).left = {} /\ Entered(fl, k).list = fl.list
         /\ Entered(fl, k).fellBack = fl.fellBack /\ Entered(fl, k).attempt = fl.attempt
         /\ Entered(fl, k).todo = fl.todo
         /\ IF k = "rh" /\ fl.list = {}
              THEN Entered(fl, k).pc = "raised" /\ Entered(fl, k).error = "unavailable"
              ELSE Entered(fl, k).pc = "disable"
BY DEF Entered, Flow, PCs, Errors

LEMMA Starting ==
  ASSUME TypeOK, NEW f \in Failed, Start(f)
  PROVE  /\ flow' \in [Failed -> Flow] /\ Others(f)
         /\ flow'[f].kind = FirstFlow /\ ~flow'[f].fellBack
         /\ flow'[f].left = {} /\ flow'[f].todo = {} /\ flow'[f].attempt = flow[f].attempt
         /\ flow'[f].list \in SUBSET Reserved /\ (method = "auto" => flow'[f].list = {})
         /\ IF FirstFlow = "rh" /\ flow'[f].list = {}
              THEN flow'[f].pc = "raised" /\ flow'[f].error = "unavailable"
              ELSE flow'[f].pc = "disable"
<1> DEFINE list == IF method = "auto" THEN {} ELSE reserved
           fl   == [Idle(flow[f].attempt) EXCEPT !.list = list]
<1>1. flow[f] \in Flow /\ list \in SUBSET Reserved
  BY DEF TypeOK
<1>2. fl \in Flow /\ fl.list = list /\ ~fl.fellBack /\ fl.attempt = flow[f].attempt /\ fl.todo = {}
  BY <1>1 DEF Idle, Flow, PCs
<1>3. flow' = [flow EXCEPT ![f] = Entered(fl, FirstFlow)] /\ FirstFlow \in { "auto", "rh" }
  BY DEF Start, FirstFlow
<1> HIDE DEF fl, list
<1>4. flow'[f] = Entered(fl, FirstFlow) /\ flow' \in [Failed -> Flow] /\ Others(f)
  BY <1>2, <1>3, Entering, FlowSet
<1>5. method = "auto" => list = {}
  BY DEF list
<1> QED
  BY <1>1, <1>2, <1>3, <1>4, <1>5, Entering

LEMMA FallingBack ==
  ASSUME TypeOK, NEW f \in Failed, FallBack(f)
  PROVE  /\ flow' \in [Failed -> Flow] /\ Others(f)
         /\ flow'[f].kind = OtherFlow /\ flow'[f].fellBack
         /\ flow'[f].left = {} /\ flow'[f].list = flow[f].list
         /\ flow'[f].todo = flow[f].todo /\ flow'[f].attempt = flow[f].attempt
         /\ IF OtherFlow = "rh" /\ flow[f].list = {}
              THEN flow'[f].pc = "raised" /\ flow'[f].error = "unavailable"
              ELSE flow'[f].pc = "disable"
<1> DEFINE en == Entered(flow[f], OtherFlow)
           fl == [en EXCEPT !.fellBack = TRUE]
<1>1. flow[f] \in Flow /\ OtherFlow \in { "auto", "rh" }
  BY DEF TypeOK, OtherFlow
<1>2. en \in Flow
  BY <1>1, Entering
<1>3. flow' = [flow EXCEPT ![f] = fl]
  BY DEF FallBack
<1>4. /\ en.kind = OtherFlow /\ en.left = {} /\ en.list = flow[f].list /\ en.todo = flow[f].todo
      /\ en.attempt = flow[f].attempt
      /\ IF OtherFlow = "rh" /\ flow[f].list = {}
           THEN en.pc = "raised" /\ en.error = "unavailable" ELSE en.pc = "disable"
  BY <1>1, Entering
<1> HIDE DEF en
<1>5. /\ fl \in Flow /\ fl.fellBack /\ fl.kind = en.kind /\ fl.left = en.left /\ fl.list = en.list
      /\ fl.todo = en.todo /\ fl.attempt = en.attempt /\ fl.pc = en.pc /\ fl.error = en.error
  BY <1>2 DEF Flow
<1> HIDE DEF fl
<1> QED
  BY <1>3, <1>4, <1>5, FlowSet

-----------------------------------------------------------------------------
(* Types, shapes and the bound on the attempts *)

FlowFits(f) == flow' \in [Failed -> Flow] /\ Others(f) /\ ShapeOf(f)' /\ WithinOf(f)'

LEMMA StartFits ==
  ASSUME TypeInv, NEW f \in Failed, Start(f)
  PROVE  FlowFits(f)
<1>1. TypeOK /\ ShapeOf(f) /\ WithinOf(f)
  BY DEF TypeInv
<1>2. method' = method /\ runs'[f] = runs[f] + 1 /\ runs[f] \in Nat
  BY <1>1 DEF Start, TypeOK
<1>3. Room(runs'[f]) = Room(runs[f]) + 1 + N
  BY <1>2, Rooms
<1>4. Ahead(f)' + Later(f)' <= 1 + N /\ Ahead(f)' \in Nat /\ Later(f)' \in Nat
  BY <1>1, <1>2, Starting, Sizes DEF Ahead, Later, Left, FirstFlow, Priority
<1>5. WithinOf(f)'
  BY <1>1, <1>3, <1>4, Starting, Counts, Sizes DEF WithinOf
<1>6. ShapeOf(f)'
  BY <1>1, <1>2, Starting DEF ShapeOf, FirstFlow, OtherFlow, AtHost
<1> QED
  BY <1>1, <1>5, <1>6, Starting DEF FlowFits

LEMMA FallBackFits ==
  ASSUME TypeInv, NEW f \in Failed, FallBack(f)
  PROVE  FlowFits(f)
<1>1. TypeOK /\ ShapeOf(f) /\ WithinOf(f)
  BY DEF TypeInv
<1>2. UNCHANGED <<method, runs>> /\ flow[f].pc = "raised" /\ ~flow[f].fellBack /\ method \in Priority
  BY DEF FallBack, Exhausted, MayFallBack, Priority
<1>3. flow[f] \in Flow /\ flow[f].kind = FirstFlow
  BY <1>1, <1>2 DEF TypeOK, ShapeOf
<1>4. flow[f].list \in SUBSET Reserved
  BY <1>3 DEF Flow
<1>5. Later(f)' = 0
  BY FallingBack, <1>1 DEF Later
<1>6. Ahead(f)' <= Later(f) /\ Ahead(f)' \in Nat
  <2>1. CASE OtherFlow = "auto"
    <3>1. Ahead(f)' = 1 /\ Later(f) = 1
      BY <1>1, <1>2, <1>3, <2>1, FallingBack DEF Ahead, Later, FirstFlow, OtherFlow
    <3> QED
      BY <3>1
  <2>2. CASE OtherFlow = "rh"
    <3>1. Later(f) = Cardinality(flow[f].list)
      BY <1>2, <1>3, <2>2 DEF Later, FirstFlow, OtherFlow
    <3>2. CASE flow[f].list = {}
      <4>1. flow'[f].pc = "raised" /\ Left(f)' = {} /\ flow'[f].kind = "rh"
        BY <1>1, <2>2, <3>2, FallingBack DEF Left
      <4> QED
        BY <3>1, <3>2, <4>1, Sizes DEF Ahead
    <3>3. CASE flow[f].list # {}
      <4>1. flow'[f].pc = "disable" /\ flow'[f].list = flow[f].list /\ flow'[f].kind = "rh"
        BY <1>1, <2>2, <3>3, FallingBack
      <4> QED
        BY <1>4, <3>1, <4>1, Sizes DEF Ahead
    <3> QED
      BY <3>2, <3>3
  <2> QED
    BY <2>1, <2>2 DEF OtherFlow
<1>7. WithinOf(f)'
  BY <1>1, <1>2, <1>5, <1>6, FallingBack, Counts DEF WithinOf
<1>8. ShapeOf(f)'
  BY <1>1, <1>2, FallingBack DEF ShapeOf, FirstFlow, OtherFlow, MovesOf, AtHost
<1> QED
  BY <1>1, <1>7, <1>8, FallingBack DEF FlowFits

LEMMA IdleFits ==
  ASSUME TypeInv, NEW f \in Failed, UNCHANGED <<method, runs>>,
         flow' = [flow EXCEPT ![f] = Idle(@.attempt)]
  PROVE  FlowFits(f)
<1>1. TypeOK /\ ShapeOf(f) /\ WithinOf(f)
  BY DEF TypeInv
<1>2. /\ flow'[f].pc = "idle" /\ flow'[f].kind = "auto" /\ ~flow'[f].fellBack /\ flow'[f].list = {}
      /\ flow'[f].attempt = flow[f].attempt /\ flow'[f].todo = {}
  BY <1>1, Idling
<1>3. Ahead(f)' = 0 /\ Later(f)' = 0
  BY <1>2, Sizes DEF Ahead, Later
<1>4. WithinOf(f)' /\ ShapeOf(f)'
  BY <1>1, <1>2, <1>3, Counts DEF WithinOf, ShapeOf, AtHost
<1> QED
  BY <1>1, <1>4, Idling DEF FlowFits

LEMMA RaiseFits ==
  ASSUME TypeInv, NEW f \in Failed, NEW e \in Errors, UNCHANGED <<method, runs>>, Raise(f, e),
         flow[f].pc # "idle"
  PROVE  FlowFits(f)
<1>1. TypeOK /\ ShapeOf(f) /\ WithinOf(f) /\ flow[f] \in Flow
  BY DEF TypeInv, TypeOK
<1>2. /\ flow'[f].pc = "raised" /\ flow'[f].kind = flow[f].kind /\ flow'[f].fellBack = flow[f].fellBack
      /\ flow'[f].list = flow[f].list /\ flow'[f].left = flow[f].left /\ flow'[f].host = flow[f].host
      /\ flow'[f].attempt = flow[f].attempt /\ flow'[f].todo = flow[f].todo
  BY <1>1, Raising DEF Flow
<1>3. flow[f].list \in SUBSET Reserved /\ flow[f].left \in SUBSET Reserved
  BY <1>1 DEF Flow
<1>4. Left(f)' = Left(f) /\ Left(f) \in SUBSET flow[f].left /\ Left(f) \in SUBSET Reserved
  BY <1>2, <1>3 DEF Left
<1>5. flow[f].pc = "disable" => Left(f) = {}
  BY <1>1, <1>4 DEF ShapeOf
<1>6. Ahead(f)' <= Ahead(f) /\ Ahead(f)' \in Nat
  <2>1. CASE flow[f].kind = "auto"
    BY <1>2, <2>1 DEF Ahead
  <2>2. CASE flow[f].kind # "auto"
    <3>1. Ahead(f)' = Cardinality(Left(f))
      BY <1>2, <1>4, <2>2 DEF Ahead
    <3>2. flow[f].pc = "disable" => Ahead(f) = Cardinality(flow[f].list) /\ Ahead(f)' = 0
      BY <1>5, <2>2, <3>1, Sizes DEF Ahead
    <3>3. flow[f].pc = "prepare" => Ahead(f) = Cardinality(flow[f].left)
      BY <2>2 DEF Ahead
    <3>4. flow[f].pc \notin { "disable", "prepare" } => Ahead(f) = Cardinality(Left(f))
      BY <2>2 DEF Ahead
    <3>5. Cardinality(Left(f)) \in Nat /\ Cardinality(Left(f)) <= Cardinality(flow[f].left)
      BY <1>3, <1>4, SubsetSize
    <3>6. Cardinality(flow[f].list) \in Nat
      BY <1>3, Sizes
    <3> QED
      BY <3>1, <3>2, <3>3, <3>4, <3>5, <3>6
  <2> QED
    BY <2>1, <2>2
<1>7. Later(f)' = Later(f)
  BY <1>2 DEF Later
<1>8. WithinOf(f)'
  BY <1>1, <1>2, <1>6, <1>7, Counts DEF WithinOf
<1>9. ShapeOf(f)'
  BY <1>1, <1>2 DEF ShapeOf, FirstFlow, OtherFlow, MovesOf, AtHost
<1> QED
  BY <1>1, <1>8, <1>9, Raising DEF FlowFits

\* a step that neither begins an attempt nor changes what is left to try
LEMMA SteadyFits ==
  ASSUME TypeInv, NEW f \in Failed, UNCHANGED <<method, runs>>,
         flow' \in [Failed -> Flow], Others(f),
         flow[f].pc \notin { "idle", "raised" }, flow'[f].pc \notin { "idle", "disable" },
         flow'[f].pc \in { "enable", "unreserve" } => flow[f].kind = "rh",
         flow'[f].pc = "prepare" => flow[f].pc = "disable" /\ flow[f].kind = "auto",
         flow[f].pc \in { "disable", "prepare" } => flow[f].kind = "auto",
         flow'[f].kind = flow[f].kind, flow'[f].fellBack = flow[f].fellBack,
         flow'[f].list = flow[f].list, flow'[f].left = flow[f].left, flow'[f].host = flow[f].host,
         flow'[f].attempt = flow[f].attempt, flow'[f].todo \subseteq MovesOf(f)
  PROVE  FlowFits(f)
<1>1. TypeOK /\ ShapeOf(f) /\ WithinOf(f) /\ Left(f)' = Left(f) /\ flow[f] \in Flow
  BY DEF TypeInv, TypeOK, Left
<1>2. Ahead(f)' <= Ahead(f) /\ Ahead(f)' \in Nat /\ Later(f)' = Later(f)
  BY <1>1, Counts DEF Ahead, Later
<1>3. WithinOf(f)'
  BY <1>1, <1>2, Counts DEF WithinOf
<1>4. flow[f].kind = "rh" => flow[f].pc \in { "evacuate" } \cup AtHost /\ flow'[f].host \in Reserved
  <2>1. flow[f].pc \in PCs
    BY <1>1 DEF Flow
  <2> QED
    BY <1>1, <2>1 DEF PCs, AtHost, ShapeOf
<1>5. ShapeOf(f)'
  BY <1>1, <1>4 DEF ShapeOf, FirstFlow, OtherFlow, MovesOf, AtHost
<1> QED
  BY <1>3, <1>5 DEF FlowFits

LEMMA DisableFits ==
  ASSUME TypeInv, NEW f \in Failed, Disable(f)
  PROVE  FlowFits(f)
<1>1. TypeOK /\ ShapeOf(f) /\ WithinOf(f) /\ flow[f] \in Flow
  BY DEF TypeInv, TypeOK
<1>2. UNCHANGED <<method, runs>> /\ flow[f].pc = "disable"
  BY DEF Disable
<1>3. CASE flow[f].kind = "auto"
  <2>1. Goto(f, "prepare")
    BY <1>3 DEF Disable
  <2>2. "prepare" \in PCs
    BY DEF PCs
  <2> QED
    BY <1>1, <1>2, <1>3, <2>1, <2>2, Going, SteadyFits DEF ShapeOf
<1>4. CASE flow[f].kind # "auto"
  <2>1. PICK r \in flow[f].list :
          flow' = [flow EXCEPT ![f].pc = "prepare", ![f].host = r, ![f].left = flow[f].list]
    BY <1>4 DEF Disable
  <2>2. flow[f].list \in SUBSET Reserved /\ r \in Reserved
    BY <1>1 DEF Flow
  <2> DEFINE fl == [flow[f] EXCEPT !.pc = "prepare", !.host = r, !.left = flow[f].list]
  <2>3. flow' = [flow EXCEPT ![f] = fl]
    BY <1>1, <2>1 DEF TypeOK
  <2>4. /\ fl \in Flow /\ fl.pc = "prepare" /\ fl.host = r /\ fl.left = flow[f].list
        /\ fl.list = flow[f].list /\ fl.kind = flow[f].kind /\ fl.fellBack = flow[f].fellBack
        /\ fl.attempt = flow[f].attempt /\ fl.todo = flow[f].todo
    BY <1>1, <2>2 DEF Flow, PCs
  <2> HIDE DEF fl
  <2>5. /\ flow' \in [Failed -> Flow] /\ Others(f) /\ flow'[f].pc = "prepare" /\ flow'[f].host = r
        /\ flow'[f].left = flow[f].list /\ flow'[f].list = flow[f].list /\ flow'[f].kind = flow[f].kind
        /\ flow'[f].fellBack = flow[f].fellBack /\ flow'[f].attempt = flow[f].attempt
        /\ flow'[f].todo = flow[f].todo
    BY <1>1, <2>3, <2>4, FlowSet
  <2>6. Ahead(f)' = Ahead(f) /\ Later(f)' = Later(f)
    BY <1>2, <1>4, <2>5 DEF Ahead, Later
  <2>7. WithinOf(f)'
    BY <1>1, <1>2, <2>5, <2>6 DEF WithinOf
  <2>8. ShapeOf(f)'
    BY <1>1, <1>2, <2>5 DEF ShapeOf, FirstFlow, OtherFlow, MovesOf, AtHost
  <2> QED
    BY <2>5, <2>7, <2>8 DEF FlowFits
<1> QED
  BY <1>3, <1>4

LEMMA RetryFits ==
  ASSUME TypeInv, NEW f \in Failed, Retry(f)
  PROVE  FlowFits(f)
<1>1. TypeOK /\ ShapeOf(f) /\ WithinOf(f) /\ flow[f] \in Flow
  BY DEF TypeInv, TypeOK
<1>2. UNCHANGED <<method, runs>> /\ flow[f].pc = "raised" /\ flow[f].kind = "rh"
  BY DEF Retry
<1>3. PICK r \in Left(f) :
        flow' = [flow EXCEPT ![f].pc = "prepare", ![f].host = r, ![f].left = Left(f), ![f].error = None]
  BY DEF Retry
<1>4. Left(f) \in SUBSET Reserved /\ r \in Reserved
  BY <1>1 DEF Flow, Left
<1> DEFINE fl == [flow[f] EXCEPT !.pc = "prepare", !.host = r, !.left = Left(f), !.error = None]
<1>5. flow' = [flow EXCEPT ![f] = fl]
  BY <1>1, <1>3 DEF TypeOK
<1>6. /\ fl \in Flow /\ fl.pc = "prepare" /\ fl.host = r /\ fl.left = Left(f)
      /\ fl.list = flow[f].list /\ fl.kind = flow[f].kind /\ fl.fellBack = flow[f].fellBack
      /\ fl.attempt = flow[f].attempt /\ fl.todo = flow[f].todo
  BY <1>1, <1>4 DEF Flow, PCs
<1> HIDE DEF fl
<1>7. /\ flow' \in [Failed -> Flow] /\ Others(f) /\ flow'[f].pc = "prepare" /\ flow'[f].host = r
      /\ flow'[f].left = Left(f) /\ flow'[f].list = flow[f].list /\ flow'[f].kind = flow[f].kind
      /\ flow'[f].fellBack = flow[f].fellBack /\ flow'[f].attempt = flow[f].attempt
      /\ flow'[f].todo = flow[f].todo
  BY <1>1, <1>5, <1>6, FlowSet
<1>8. Ahead(f)' = Ahead(f) /\ Later(f)' = Later(f)
  BY <1>2, <1>7 DEF Ahead, Later
<1>9. WithinOf(f)'
  BY <1>1, <1>2, <1>7, <1>8 DEF WithinOf
<1>10. ShapeOf(f)'
  BY <1>1, <1>2, <1>7 DEF ShapeOf, FirstFlow, OtherFlow, MovesOf, AtHost
<1> QED
  BY <1>7, <1>9, <1>10 DEF FlowFits

\* An attempt begins: a row for it fits, and one is used up.
LEMMA Preparing ==
  ASSUME TypeInv, NEW f \in Failed, Prepare(f), Considered(f) # {}
  PROVE  /\ flow' \in [Failed -> Flow] /\ Others(f)
         /\ flow'[f].pc = "evacuate" /\ flow'[f].attempt = flow[f].attempt + 1
         /\ flow'[f].attempt \in Attempts
         /\ flow'[f].kind = flow[f].kind /\ flow'[f].fellBack = flow[f].fellBack
         /\ flow'[f].list = flow[f].list /\ flow'[f].left = flow[f].left
         /\ flow'[f].host = flow[f].host /\ flow'[f].error = flow[f].error
         /\ flow'[f].todo = flow[f].todo
         /\ Ahead(f)' \in Nat /\ Ahead(f)' + 1 = Ahead(f)
<1>1. TypeOK /\ ShapeOf(f) /\ WithinOf(f) /\ flow[f] \in Flow /\ runs[f] \in 0 .. MaxRuns
  BY DEF TypeInv, TypeOK
<1> DEFINE k  == flow[f].attempt + 1
           fl == [flow[f] EXCEPT !.pc = "evacuate", !.attempt = k]
<1>2. flow[f].pc = "prepare" /\ flow' = [flow EXCEPT ![f].pc = "evacuate", ![f].attempt = k]
  BY DEF Prepare
<1>3. flow[f].left \in SUBSET Reserved
  BY <1>1 DEF Flow
<1>4. Left(f) \in SUBSET Reserved /\ Cardinality(Left(f)) \in Nat
  BY <1>3, Sizes DEF Left
<1>5. /\ flow[f].kind = "auto" => Ahead(f) = 1
      /\ flow[f].kind # "auto" => Ahead(f) = Cardinality(Left(f)) + 1
  <2>1. CASE flow[f].kind = "auto"
    BY <1>2, <2>1 DEF Ahead
  <2>2. CASE flow[f].kind # "auto"
    <3>1. flow[f].host \in flow[f].left
      BY <1>1, <1>2, <2>2 DEF ShapeOf, Flow
    <3>2. Cardinality(Left(f)) + 1 = Cardinality(flow[f].left)
      BY <1>3, <3>1, Sizes DEF Left
    <3> QED
      BY <1>2, <2>2, <3>2 DEF Ahead
  <2> QED
    BY <2>1, <2>2
<1>6. Ahead(f) >= 1
  BY <1>4, <1>5
<1>7. k \in Nat \ {0} /\ k <= Cardinality(Attempts)
  <2>1. flow[f].attempt + Ahead(f) + Later(f) <= Room(runs[f])
    BY <1>1 DEF WithinOf
  <2>2. Room(runs[f]) <= Cardinality(Attempts)
    BY <1>1, Rooms
  <2>3. /\ flow[f].attempt \in Nat /\ Ahead(f) \in Nat /\ Later(f) \in Nat
        /\ Room(runs[f]) \in Nat /\ Cardinality(Attempts) \in Nat
    BY <1>1, Counts, Rooms
  <2> HIDE DEF k
  <2>4. k = flow[f].attempt + 1
    BY DEF k
  <2> QED
    BY <1>6, <2>1, <2>2, <2>3, <2>4
<1>8. k \in Attempts /\ k \in 0 .. Cardinality(Attempts)
  BY <1>7, Rooms
<1>9. flow' = [flow EXCEPT ![f] = fl]
  BY <1>1, <1>2 DEF TypeOK
<1> HIDE DEF k
<1>10. /\ fl \in Flow /\ fl.pc = "evacuate" /\ fl.attempt = k
       /\ fl.kind = flow[f].kind /\ fl.fellBack = flow[f].fellBack /\ fl.list = flow[f].list
       /\ fl.left = flow[f].left /\ fl.host = flow[f].host /\ fl.error = flow[f].error
       /\ fl.todo = flow[f].todo
  BY <1>1, <1>8 DEF Flow, PCs
<1> HIDE DEF fl
<1>11. /\ flow' \in [Failed -> Flow] /\ Others(f)
       /\ flow'[f].pc = "evacuate" /\ flow'[f].attempt = k
       /\ flow'[f].kind = flow[f].kind /\ flow'[f].fellBack = flow[f].fellBack
       /\ flow'[f].list = flow[f].list /\ flow'[f].left = flow[f].left
       /\ flow'[f].host = flow[f].host /\ flow'[f].error = flow[f].error
       /\ flow'[f].todo = flow[f].todo
  BY <1>1, <1>9, <1>10, FlowSet
<1>12. /\ flow[f].kind = "auto" => Ahead(f)' = 0
       /\ flow[f].kind # "auto" => Ahead(f)' = Cardinality(Left(f))
  BY <1>11 DEF Ahead, Left
<1> QED
  BY <1>4, <1>5, <1>8, <1>11, <1>12 DEF k

LEMMA PrepareFits ==
  ASSUME TypeInv, NEW f \in Failed, Prepare(f)
  PROVE  FlowFits(f)
<1>1. TypeOK /\ ShapeOf(f) /\ WithinOf(f) /\ UNCHANGED <<method, runs>> /\ flow[f].pc = "prepare"
  BY DEF TypeInv, Prepare
<1>2. CASE Considered(f) = {}
  BY <1>1, <1>2, RaiseFits DEF Prepare, Errors
<1>3. CASE Considered(f) # {}
  <2>1. Later(f)' = Later(f)
    BY <1>1, <1>3, Preparing DEF Later
  <2>2. /\ Ahead(f)' \in Nat /\ Ahead(f)' + 1 = Ahead(f)
        /\ flow'[f].attempt = flow[f].attempt + 1
    BY <1>3, Preparing
  <2>3. WithinOf(f)'
    BY <1>1, <2>1, <2>2, Counts DEF WithinOf
  <2>4. flow[f].kind = "rh" => flow[f].host \in Reserved
    BY <1>1 DEF ShapeOf, TypeOK, Flow
  <2>5. ShapeOf(f)'
    BY <1>1, <1>3, <2>4, Preparing DEF ShapeOf, FirstFlow, OtherFlow, MovesOf, AtHost
  <2> QED
    BY <1>3, <2>3, <2>5, Preparing DEF FlowFits
<1> QED
  BY <1>2, <1>3

LEMMA Evacuating ==
  ASSUME TypeOK, NEW f \in Failed, Evacuate(f), ~(flow[f].kind = "rh" /\ Taken(f))
  PROVE  /\ flow' \in [Failed -> Flow] /\ Others(f)
         /\ flow'[f].pc = IF flow[f].kind = "rh" THEN "enable" ELSE "move"
         /\ flow'[f].todo = InStatus(f, "pending") /\ InStatus(f, "pending") \subseteq MovesOf(f)
         /\ flow'[f].kind = flow[f].kind /\ flow'[f].fellBack = flow[f].fellBack
         /\ flow'[f].list = flow[f].list /\ flow'[f].left = flow[f].left
         /\ flow'[f].host = flow[f].host /\ flow'[f].error = flow[f].error
         /\ flow'[f].attempt = flow[f].attempt
<1> DEFINE p  == IF flow[f].kind = "rh" THEN "enable" ELSE "move"
           fl == [flow[f] EXCEPT !.pc = p, !.todo = InStatus(f, "pending")]
<1>1. flow[f] \in Flow /\ InStatus(f, "pending") \subseteq MovesOf(f) /\ MovesOf(f) \subseteq Moves
  BY DEF TypeOK, InStatus, MovesOf
<1>2. flow' = [flow EXCEPT ![f] = fl]
  BY DEF Evacuate, TypeOK
<1>3. p \in PCs
  BY DEF PCs
<1> HIDE DEF p
<1>4. /\ fl \in Flow /\ fl.pc = p /\ fl.todo = InStatus(f, "pending")
      /\ fl.kind = flow[f].kind /\ fl.fellBack = flow[f].fellBack /\ fl.list = flow[f].list
      /\ fl.left = flow[f].left /\ fl.host = flow[f].host /\ fl.error = flow[f].error
      /\ fl.attempt = flow[f].attempt
  BY <1>1, <1>3 DEF Flow
<1> HIDE DEF fl
<1> QED
  BY <1>1, <1>2, <1>4, FlowSet DEF p

LEMMA EvacuateFits ==
  ASSUME TypeInv, NEW f \in Failed, Evacuate(f)
  PROVE  FlowFits(f)
<1>1. TypeOK /\ UNCHANGED <<method, runs>> /\ flow[f].pc = "evacuate"
  BY DEF TypeInv, Evacuate
<1>2. CASE flow[f].kind = "rh" /\ Taken(f)
  BY <1>1, <1>2, RaiseFits DEF Evacuate, Errors
<1>3. CASE ~(flow[f].kind = "rh" /\ Taken(f))
  <2> DEFINE p == flow'[f].pc
  <2>1. p \in { "enable", "move" } /\ (p = "enable" => flow[f].kind = "rh")
    BY <1>1, <1>3, Evacuating
  <2>2. /\ flow' \in [Failed -> Flow] /\ Others(f) /\ flow'[f].todo \subseteq MovesOf(f)
        /\ flow'[f].kind = flow[f].kind /\ flow'[f].fellBack = flow[f].fellBack
        /\ flow'[f].list = flow[f].list /\ flow'[f].left = flow[f].left
        /\ flow'[f].host = flow[f].host /\ flow'[f].attempt = flow[f].attempt
    BY <1>1, <1>3, Evacuating
  <2> QED
    BY <1>1, <2>1, <2>2, SteadyFits
<1> QED
  BY <1>2, <1>3

\* Enable, Unreserve
LEMMA GotoFits ==
  ASSUME TypeInv, NEW f \in Failed, NEW p \in { "unreserve", "move" }, Goto(f, p),
         UNCHANGED <<method, runs>>, flow[f].pc \in { "enable", "unreserve" }
  PROVE  FlowFits(f)
<1>1. TypeOK /\ ShapeOf(f) /\ p \in PCs
  BY DEF TypeInv, PCs
<1> QED
  BY <1>1, Going, SteadyFits DEF ShapeOf

\* A thread of the pool ends; one is at work only in EvacuateInstancesTask.
LEMMA EndedFits ==
  ASSUME MoveInv, NEW f \in Failed, NEW v \in Waiting(f) \cup InPool(f), Ended(f, v),
         UNCHANGED <<method, runs>>
  PROVE  FlowFits(f) /\ flow[f].pc = "move" /\ v \in flow[f].todo
<1>1. TypeInv /\ TypeOK /\ ShapeOf(f)
  BY DEF MoveInv, TypeInv
<1>2. flow[f].pc = "move" /\ v \in flow[f].todo
  BY <1>1 DEF MoveInv, Busy, Waiting, InPool, ShapeOf
<1> QED
  BY <1>1, <1>2, Ending, SteadyFits DEF ShapeOf

LEMMA StepFits ==
  ASSUME MoveInv, NEW f \in Failed, EngineStep(f)
  PROVE  FlowFits(f)
<1>1. TypeInv /\ TypeOK /\ ShapeOf(f) /\ WithinOf(f)
  BY DEF MoveInv, TypeInv
<1>2. CASE Start(f) \/ Retry(f) \/ FallBack(f) \/ Disable(f) \/ Prepare(f) \/ Evacuate(f)
  BY <1>1, <1>2, StartFits, RetryFits, FallBackFits, DisableFits, PrepareFits, EvacuateFits
<1>3. CASE Conclude(f)
  BY <1>1, <1>3, IdleFits DEF Conclude
<1>4. CASE TaskFails(f)
  BY <1>1, <1>4, RaiseFits DEF TaskFails, Errors
<1>5. CASE Enable(f) \/ Unreserve(f)
  BY <1>1, <1>5, GotoFits DEF Enable, Unreserve
<1>6. CASE Join(f)
  <2>1. UNCHANGED <<method, runs>> /\ flow[f].pc = "move"
    BY <1>6 DEF Join
  <2>2. CASE Judged(f) # {}
    BY <1>1, <1>6, <2>1, <2>2, RaiseFits DEF Join, Errors
  <2>3. CASE Judged(f) = {}
    BY <1>1, <1>6, <2>1, <2>3, IdleFits DEF Join
  <2> QED
    BY <2>2, <2>3
<1>7. ASSUME NEW v \in MovesOf(f), Begin(f, v)
      PROVE  FlowFits(f)
  <2>1. UNCHANGED <<method, runs, flow>>
    BY <1>7 DEF Begin
  <2>2. ShapeOf(f)'
    BY <1>1, <2>1 DEF ShapeOf, FirstFlow, OtherFlow, MovesOf, AtHost
  <2>3. WithinOf(f)'
    BY <1>1, <2>1 DEF WithinOf, Ahead, Later, Left
  <2> QED
    BY <1>1, <2>1, <2>2, <2>3 DEF FlowFits, Others, TypeOK
<1>8. ASSUME NEW v \in MovesOf(f), Refused(f, v) \/ ThreadDies(f, v) \/ Confirm(f, v) \/ GiveUp(f, v)
      PROVE  FlowFits(f)
  BY <1>8, EndedFits DEF Refused, ThreadDies, Confirm, GiveUp
<1> QED
  BY <1>2, <1>3, <1>4, <1>5, <1>6, <1>7, <1>8 DEF EngineStep

-----------------------------------------------------------------------------
(* A step of a recovery leaves the rows and instances of the others alone. *)

Local(f) ==
  /\ method' = method /\ place' = place /\ reserved' \subseteq reserved /\ inError \subseteq inError'
  /\ \A g \in Failed \ {f} : runs'[g] = runs[g] /\ verdict'[g] = verdict[g]
  /\ \A v \in Moves \ MovesOf(f) : vmove'[v] = vmove[v]
  /\ \A i \in Instances : home[i] # f => locker'[i] = locker[i] /\ moving'[i] = moving[i]

\* the type of everything but the flows
RestOK ==
  /\ method \in AllMethods
  /\ reserved \in SUBSET Reserved
  /\ vmove \in [Moves -> VStatus]
  /\ runs \in [Failed -> 0 .. MaxRuns]
  /\ verdict \in [Failed -> {None, "finished", "error"}]
  /\ serving \in SUBSET Reserved
  /\ place \in [Instances -> Failed \cup Reserved \cup {Elsewhere}]
  /\ moving \in [Instances -> Reserved \cup {Elsewhere, NoHost}]
  /\ locker \in [Instances -> Moves \cup {NoMove}]
  /\ inError \in SUBSET Instances

LEMMA RowSteps ==
  ASSUME MoveInv, NEW f \in Failed, NEW v \in MovesOf(f),
         Refused(f, v) \/ ThreadDies(f, v) \/ Confirm(f, v) \/ GiveUp(f, v)
  PROVE  RestOK' /\ Local(f)
<1>1. TypeOK /\ RestOK /\ v \in Moves /\ v[1] \in Instances /\ home[v[1]] = f
  BY DEF MoveInv, TypeInv, TypeOK, RestOK, MovesOf, Moves
<1>2. UNCHANGED <<method, reserved, runs, verdict, serving, place, moving>>
  BY DEF Refused, ThreadDies, Confirm, GiveUp, nova
<1>3. vmove' = vmove \/ \E s \in VStatus : vmove' = [vmove EXCEPT ![v] = s]
  BY DEF Refused, ThreadDies, Confirm, GiveUp, VStatus
<1>4. locker' = locker \/ locker' = [locker EXCEPT ![v[1]] = NoMove]
  BY DEF Refused, ThreadDies, Confirm, GiveUp, Unlocked, nova
<1>5. vmove' \in [Moves -> VStatus] /\ \A w \in Moves \ MovesOf(f) : vmove'[w] = vmove[w]
  BY <1>1, <1>3 DEF TypeOK
<1>6. /\ locker' \in [Instances -> Moves \cup {NoMove}]
      /\ \A i \in Instances : home[i] # f => locker'[i] = locker[i]
  BY <1>1, <1>4 DEF TypeOK
<1>7. inError' \in SUBSET Instances /\ inError \subseteq inError'
  BY <1>1 DEF Refused, ThreadDies, Confirm, GiveUp, MayErr, TypeOK, nova
<1> QED
  BY <1>1, <1>2, <1>5, <1>6, <1>7 DEF RestOK, Local

LEMMA BeginStep ==
  ASSUME MoveInv, NEW f \in Failed, NEW v \in MovesOf(f), Begin(f, v)
  PROVE  RestOK' /\ Local(f)
<1>1. TypeOK /\ RestOK /\ v \in Moves /\ v[1] \in Instances /\ home[v[1]] = f /\ flow[f] \in Flow
  BY DEF MoveInv, TypeInv, TypeOK, RestOK, MovesOf, Moves
<1>2. UNCHANGED <<method, reserved, runs, verdict, serving, place>>
  BY DEF Begin
<1>3. vmove' = [vmove EXCEPT ![v] = "ongoing"] /\ "ongoing" \in VStatus
  BY DEF Begin, VStatus
<1>4. locker' = locker \/ locker' = [locker EXCEPT ![v[1]] = v]
  BY DEF Begin
<1>5. \E h \in Reserved \cup {Elsewhere, NoHost} : moving' = [moving EXCEPT ![v[1]] = h]
  BY <1>1 DEF Begin, Flow, TypeOK
<1>6. vmove' \in [Moves -> VStatus] /\ \A w \in Moves \ MovesOf(f) : vmove'[w] = vmove[w]
  BY <1>1, <1>3 DEF TypeOK
<1>7. /\ locker' \in [Instances -> Moves \cup {NoMove}]
      /\ \A i \in Instances : home[i] # f => locker'[i] = locker[i]
  BY <1>1, <1>4 DEF TypeOK
<1>8. /\ moving' \in [Instances -> Reserved \cup {Elsewhere, NoHost}]
      /\ \A i \in Instances : home[i] # f => moving'[i] = moving[i]
  BY <1>1, <1>5 DEF TypeOK
<1>9. inError' \in SUBSET Instances /\ inError \subseteq inError'
  BY <1>1 DEF Begin, MayErr, TypeOK
<1> QED
  BY <1>1, <1>2, <1>6, <1>7, <1>8, <1>9 DEF RestOK, Local

LEMMA PrepareStep ==
  ASSUME MoveInv, NEW f \in Failed, Prepare(f)
  PROVE  RestOK' /\ Local(f)
<1>1. TypeOK /\ RestOK /\ Home
  BY DEF MoveInv, TypeInv, TypeOK, RestOK
<1>2. UNCHANGED <<method, reserved, runs, verdict, nova>>
  BY DEF Prepare
<1>3. CASE Considered(f) = {}
  BY <1>1, <1>2, <1>3 DEF Prepare, RestOK, Local, nova
<1>4. CASE Considered(f) # {}
  <2> DEFINE k == flow[f].attempt + 1
  <2>1. vmove' = [v \in Moves |-> IF v[1] \in Considered(f) /\ v[2] = k THEN "pending" ELSE vmove[v]]
    BY <1>4 DEF Prepare
  <2> HIDE DEF k
  <2>2. vmove' \in [Moves -> VStatus]
    BY <1>1, <2>1 DEF TypeOK, VStatus
  <2>3. ASSUME NEW v \in Moves \ MovesOf(f) PROVE vmove'[v] = vmove[v]
    <3>1. v[1] \in Instances /\ home[v[1]] # f
      BY DEF MovesOf, Moves
    <3>2. v[1] \notin Considered(f)
      BY <1>1, <3>1 DEF Considered, On, Home
    <3> QED
      BY <2>1, <3>2
  <2> QED
    BY <1>1, <1>2, <2>2, <2>3 DEF RestOK, Local, nova
<1> QED
  BY <1>3, <1>4

LEMMA OtherSteps ==
  ASSUME MoveInv, NEW f \in Failed,
         \/ Start(f) \/ Retry(f) \/ FallBack(f) \/ Conclude(f) \/ TaskFails(f)
         \/ Disable(f) \/ Evacuate(f) \/ Enable(f) \/ Unreserve(f) \/ Join(f)
  PROVE  RestOK' /\ Local(f) /\ vmove' = vmove /\ moving' = moving /\ locker' = locker
<1>1. TypeOK /\ RestOK /\ flow[f] \in Flow
  BY DEF MoveInv, TypeInv, TypeOK, RestOK
<1>2. UNCHANGED <<method, vmove, place, moving, locker, inError>>
  BY DEF Start, Retry, FallBack, Conclude, TaskFails, Disable, Evacuate, Enable, Unreserve, Join, nova
<1>3. runs' = runs \/ (runs[f] < MaxRuns /\ runs' = [runs EXCEPT ![f] = @ + 1])
  BY DEF Start, Retry, FallBack, Conclude, TaskFails, Disable, Evacuate, Enable, Unreserve, Join
<1>4. runs' \in [Failed -> 0 .. MaxRuns] /\ \A g \in Failed \ {f} : runs'[g] = runs[g]
  BY <1>1, <1>3 DEF TypeOK
<1>5. \/ verdict' = verdict
      \/ \E x \in {None, "finished", "error"} : verdict' = [verdict EXCEPT ![f] = x]
  BY DEF Start, Retry, FallBack, Conclude, TaskFails, Disable, Evacuate, Enable, Unreserve, Join
<1>6. /\ verdict' \in [Failed -> {None, "finished", "error"}]
      /\ \A g \in Failed \ {f} : verdict'[g] = verdict[g]
  BY <1>1, <1>5 DEF TypeOK
<1>7. reserved' \in SUBSET Reserved /\ reserved' \subseteq reserved
  <2>1. reserved' = reserved \/ reserved' = reserved \ {flow[f].host}
    BY DEF Start, Retry, FallBack, Conclude, TaskFails, Disable, Evacuate, Enable, Unreserve, Join
  <2> QED
    BY <1>1, <2>1 DEF TypeOK
<1>8. serving' \in SUBSET Reserved
  <2>1. serving' = serving \/ (Enable(f) /\ serving' = serving \cup {flow[f].host})
    BY DEF Start, Retry, FallBack, Conclude, TaskFails, Disable, Evacuate, Enable, Unreserve, Join, nova
  <2>2. Enable(f) => flow[f].host \in Reserved
    BY DEF MoveInv, TypeInv, Enable, ShapeOf, AtHost
  <2> QED
    BY <1>1, <2>1, <2>2 DEF TypeOK
<1> QED
  BY <1>1, <1>2, <1>4, <1>6, <1>7, <1>8 DEF RestOK, Local

LEMMA StepIsLocal ==
  ASSUME MoveInv, NEW f \in Failed, EngineStep(f)
  PROVE  FlowFits(f) /\ RestOK' /\ Local(f)
BY StepFits, RowSteps, BeginStep, PrepareStep, OtherSteps DEF EngineStep

LEMMA TypeStep ==
  ASSUME MoveInv, [Next]_vars
  PROVE  TypeInv'
<1>1. TypeOK /\ RestOK /\ \A f \in Failed : ShapeOf(f) /\ WithinOf(f)
  BY DEF MoveInv, TypeInv, TypeOK, RestOK
<1>2. ASSUME NEW f \in Failed, EngineStep(f)
      PROVE  TypeInv'
  <2>1. FlowFits(f) /\ RestOK' /\ Local(f)
    BY <1>2, StepIsLocal
  <2>2. ASSUME NEW g \in Failed \ {f}
        PROVE  ShapeOf(g)' /\ WithinOf(g)'
    <3>1. flow'[g] = flow[g] /\ runs'[g] = runs[g] /\ method' = method
      BY <2>1 DEF FlowFits, Others, Local
    <3>2. ShapeOf(g)'
      BY <1>1, <3>1 DEF ShapeOf, FirstFlow, OtherFlow, MovesOf
    <3>3. WithinOf(g)'
      BY <1>1, <3>1 DEF WithinOf, Ahead, Later, Left
    <3> QED
      BY <3>2, <3>3
  <2>3. TypeOK'
    BY <2>1 DEF FlowFits, RestOK, TypeOK
  <2> QED
    BY <2>1, <2>2, <2>3 DEF FlowFits, TypeInv
<1>3. ASSUME UNCHANGED <<method, flow, runs>>
      PROVE  \A f \in Failed : ShapeOf(f)' /\ WithinOf(f)'
  BY <1>1, <1>3 DEF ShapeOf, WithinOf, Ahead, Later, Left, FirstFlow, OtherFlow, MovesOf
<1>4. ASSUME NEW i \in Instances, Rebuilt(i) \/ RebuildFails(i)
      PROVE  TypeInv'
  <2>1. UNCHANGED <<method, reserved, vmove, flow, runs, verdict, serving, locker>>
    BY <1>4 DEF Rebuilt, RebuildFails
  <2>2. place' = place \/ (moving[i] # NoHost /\ place' = [place EXCEPT ![i] = moving[i]])
    BY <1>4 DEF Rebuilt, RebuildFails
  <2>3. moving' = [moving EXCEPT ![i] = NoHost]
    BY <1>4 DEF Rebuilt, RebuildFails
  <2>4. place' \in [Instances -> Failed \cup Reserved \cup {Elsewhere}]
    BY <1>1, <2>2 DEF TypeOK
  <2>5. moving' \in [Instances -> Reserved \cup {Elsewhere, NoHost}]
    BY <1>1, <2>3 DEF TypeOK
  <2>6. inError' \in SUBSET Instances
    BY <1>1, <1>4 DEF Rebuilt, RebuildFails, MayErr, TypeOK
  <2>7. TypeOK'
    BY <1>1, <2>1, <2>4, <2>5, <2>6 DEF TypeOK
  <2> QED
    BY <1>3, <2>1, <2>7 DEF TypeInv
<1>5. CASE UNCHANGED vars
  <2>1. TypeOK'
    BY <1>1, <1>5 DEF TypeOK, vars
  <2> QED
    BY <1>3, <1>5, <2>1 DEF TypeInv, vars
<1> QED
  BY <1>2, <1>4, <1>5 DEF Next, NovaStep

LEMMA HomeStep ==
  ASSUME MoveInv, [Next]_vars
  PROVE  Home'
<1>1. TypeOK /\ Home
  BY DEF MoveInv, TypeInv
<1>2. ASSUME NEW f \in Failed, EngineStep(f)
      PROVE  Home'
  BY <1>1, <1>2, StepIsLocal DEF Local, Home
<1>3. ASSUME NEW i \in Instances, Rebuilt(i) \/ RebuildFails(i)
      PROVE  Home'
  <2>1. place' = place \/ (moving[i] # NoHost /\ place' = [place EXCEPT ![i] = moving[i]])
    BY <1>3 DEF Rebuilt, RebuildFails
  <2>2. moving[i] # NoHost => moving[i] \notin Failed
    BY <1>1 DEF TypeOK
  <2> QED
    BY <1>1, <2>1, <2>2 DEF Home, TypeOK
<1>4. CASE UNCHANGED vars
  BY <1>1, <1>4 DEF Home, vars
<1> QED
  BY <1>2, <1>3, <1>4 DEF Next, NovaStep

LEMMA BusyAfter ==
  ASSUME MoveInv, NEW f \in Failed, EngineStep(f), NEW v \in MovesOf(f), vmove'[v] = "ongoing"
  PROVE  flow'[f].pc = "move" /\ v \in flow'[f].todo
<1>1. TypeOK /\ Busy /\ v \in Moves
  BY DEF MoveInv, TypeInv, MovesOf
<1>2. ASSUME vmove[v] = "ongoing"
      PROVE  flow[f].pc = "move" /\ v \in flow[f].todo
  BY <1>1, <1>2 DEF Busy
<1>3. ASSUME \/ Start(f) \/ Retry(f) \/ FallBack(f) \/ Conclude(f) \/ TaskFails(f)
             \/ Disable(f) \/ Evacuate(f) \/ Enable(f) \/ Unreserve(f) \/ Join(f)
      PROVE  FALSE
  <2>1. flow[f].pc = "move" /\ v \in flow[f].todo
    BY <1>2, <1>3, OtherSteps
  <2> QED
    BY <1>3, <2>1
    DEF Start, Retry, FallBack, Exhausted, Conclude, TaskFails, Disable, Evacuate, Enable, Unreserve, Join
<1>4. ASSUME Prepare(f)
      PROVE  FALSE
  <2>1. vmove[v] = "ongoing"
    BY <1>1, <1>4 DEF Prepare
  <2> QED
    BY <1>2, <1>4, <2>1 DEF Prepare
<1>5. ASSUME NEW w \in MovesOf(f), Begin(f, w)
      PROVE  flow'[f].pc = "move" /\ v \in flow'[f].todo
  <2>1. flow' = flow /\ w \in Waiting(f) /\ vmove' = [vmove EXCEPT ![w] = "ongoing"]
    BY <1>5 DEF Begin
  <2>2. flow[f].pc = "move" /\ w \in flow[f].todo
    BY <2>1 DEF Waiting
  <2>3. v = w \/ vmove[v] = "ongoing"
    BY <1>1, <2>1 DEF TypeOK
  <2> QED
    BY <1>2, <2>1, <2>2, <2>3
<1>6. ASSUME NEW w \in MovesOf(f), Refused(f, w) \/ ThreadDies(f, w) \/ Confirm(f, w) \/ GiveUp(f, w)
      PROVE  flow'[f].pc = "move" /\ v \in flow'[f].todo
  <2>1. w \in Moves
    BY DEF MovesOf
  <2>2. v # w /\ vmove[v] = "ongoing"
    BY <1>1, <1>6, <2>1 DEF Refused, ThreadDies, Confirm, GiveUp, Waiting, TypeOK
  <2>3. Ended(f, w)
    BY <1>6 DEF Refused, ThreadDies, Confirm, GiveUp
  <2>4. flow'[f].pc = flow[f].pc /\ flow'[f].todo = flow[f].todo \ {w}
    BY <1>1, <2>3, Ending
  <2> QED
    BY <1>2, <2>2, <2>4
<1> QED
  BY <1>3, <1>4, <1>5, <1>6 DEF EngineStep

LEMMA BusyStep ==
  ASSUME MoveInv, [Next]_vars
  PROVE  Busy'
<1>1. Busy
  BY DEF MoveInv
<1>2. ASSUME NEW f \in Failed, EngineStep(f)
      PROVE  Busy'
  <2>1. FlowFits(f) /\ Local(f)
    BY <1>2, StepIsLocal
  <2>2. ASSUME NEW g \in Failed \ {f}, NEW v \in MovesOf(g), vmove'[v] = "ongoing"
        PROVE  flow'[g].pc = "move" /\ v \in flow'[g].todo
    <3>1. flow'[g] = flow[g]
      BY <2>1 DEF FlowFits, Others
    <3>2. v \in Moves \ MovesOf(f)
      BY DEF MovesOf
    <3>3. vmove'[v] = vmove[v]
      BY <2>1, <3>2 DEF Local
    <3> QED
      BY <1>1, <2>2, <3>1, <3>3 DEF Busy
  <2>3. ASSUME NEW v \in MovesOf(f), vmove'[v] = "ongoing"
        PROVE  flow'[f].pc = "move" /\ v \in flow'[f].todo
    BY <1>2, <2>3, BusyAfter
  <2> QED
    BY <2>2, <2>3 DEF Busy, MovesOf
<1>3. CASE NovaStep \/ UNCHANGED vars
  <2>1. UNCHANGED <<flow, vmove>>
    BY <1>3 DEF NovaStep, Rebuilt, RebuildFails, vars
  <2> QED
    BY <1>1, <2>1 DEF Busy, MovesOf
<1> QED
  BY <1>2, <1>3 DEF Next

LEMMA Initially ==
  ASSUME Init
  PROVE  MoveInv
<1>1. flow = [f \in Failed |-> Idle(0)] /\ Cardinality(Attempts) \in Nat
  BY Rooms DEF Init
<1>2. Idle(0) \in Flow
  BY <1>1 DEF Idle, Flow, PCs
<1>3. TypeOK
  BY <1>1, <1>2 DEF Init, TypeOK, VStatus
<1>4. ASSUME NEW f \in Failed
      PROVE  ShapeOf(f) /\ WithinOf(f)
  <2>1. flow[f] = Idle(0) /\ runs[f] = 0
    BY <1>1 DEF Init
  <2>2. ShapeOf(f)
    BY <2>1 DEF ShapeOf, Idle, AtHost
  <2>3. Ahead(f) = 0 /\ Later(f) = 0 /\ flow[f].attempt = 0
    BY <2>1, Sizes DEF Ahead, Later, Idle
  <2> QED
    BY <2>1, <2>2, <2>3, Rooms DEF WithinOf
<1>5. Home /\ Busy
  BY DEF Init, Home, Busy, MovesOf
<1> QED
  BY <1>3, <1>4, <1>5 DEF MoveInv, TypeInv

LEMMA Moving == Spec => []MoveInv
<1>1. MoveInv /\ [Next]_vars => MoveInv'
  BY TypeStep, HomeStep, BusyStep DEF MoveInv
<1> QED
  BY Initially, <1>1, PTL DEF Spec

\* Every variable has its type; the loops of the driver and of the retry end, so a run of a recovery
\* makes at most one attempt without and one with each reserved host of the list the engine read.
THEOREM TypeCorrect == Spec => []TypeOK
<1>1. MoveInv => TypeOK
  BY DEF MoveInv, TypeInv
<1> QED
  BY <1>1, Moving, PTL

-----------------------------------------------------------------------------
(* The lock on an instance *)

LockedInv == MoveInv /\ Locked

LEMMA LockedStep ==
  ASSUME LockedInv, [Next]_vars
  PROVE  Locked'
<1>1. TypeOK /\ MoveInv /\ Busy /\ Locked
  BY DEF LockedInv, MoveInv, TypeInv
<1>2. ASSUME NEW f \in Failed, \/ Start(f) \/ Retry(f) \/ FallBack(f) \/ Conclude(f) \/ TaskFails(f)
                               \/ Disable(f) \/ Evacuate(f) \/ Enable(f) \/ Unreserve(f) \/ Join(f)
      PROVE  Locked'
  BY <1>1, <1>2, OtherSteps DEF Locked
<1>3. ASSUME NEW f \in Failed, Prepare(f)
      PROVE  Locked'
  <2>1. Local(f) /\ locker' = locker /\ flow[f].pc = "prepare"
    BY <1>1, <1>3, PrepareStep DEF Prepare, nova
  <2>2. ASSUME NEW i \in Instances, locker[i] # NoMove
        PROVE  vmove'[locker[i]] = "ongoing"
    <3>1. locker[i] \in Moves /\ vmove[locker[i]] = "ongoing"
      BY <1>1, <2>2 DEF Locked, TypeOK
    <3>2. locker[i] \notin MovesOf(f)
      BY <1>1, <2>1, <3>1 DEF Busy
    <3> QED
      BY <2>1, <3>1, <3>2 DEF Local
  <2> QED
    BY <1>1, <2>1, <2>2 DEF Locked
<1>4. ASSUME NEW f \in Failed, NEW v \in MovesOf(f), Begin(f, v)
      PROVE  Locked'
  <2>1. v \in Moves /\ v[1] \in Instances /\ vmove' = [vmove EXCEPT ![v] = "ongoing"]
    BY <1>4 DEF Begin, MovesOf, Moves
  <2>2. locker' = locker \/ locker' = [locker EXCEPT ![v[1]] = v]
    BY <1>4 DEF Begin
  <2>3. ASSUME NEW i \in Instances, locker'[i] # NoMove
        PROVE  (locker'[i] = v /\ i = v[1]) \/ locker'[i] = locker[i]
    BY <1>1, <2>1, <2>2 DEF TypeOK
  <2>4. ASSUME NEW i \in Instances, locker'[i] # NoMove
        PROVE  locker'[i][1] = i /\ vmove'[locker'[i]] = "ongoing"
    <3>1. CASE locker'[i] = v /\ i = v[1]
      BY <1>1, <2>1, <3>1 DEF TypeOK
    <3>2. CASE locker'[i] = locker[i]
      <4>1. locker[i] \in Moves /\ locker[i][1] = i /\ vmove[locker[i]] = "ongoing"
        BY <1>1, <2>4, <3>2 DEF Locked, TypeOK
      <4> QED
        BY <1>1, <2>1, <3>2, <4>1 DEF TypeOK
    <3> QED
      BY <2>3, <2>4, <3>1, <3>2
  <2> QED
    BY <2>4 DEF Locked
<1>5. ASSUME NEW f \in Failed, NEW v \in MovesOf(f), Refused(f, v) \/ ThreadDies(f, v)
      PROVE  Locked'
  <2>1. v \in Moves /\ vmove[v] = "pending" /\ locker' = locker
    BY <1>5 DEF Refused, ThreadDies, Waiting, MovesOf, nova
  <2>2. vmove' = vmove \/ vmove' = [vmove EXCEPT ![v] = "failed"]
    BY <1>5 DEF Refused, ThreadDies
  <2>3. ASSUME NEW w \in Moves, vmove[w] = "ongoing"
        PROVE  vmove'[w] = "ongoing"
    BY <1>1, <2>1, <2>2, <2>3 DEF TypeOK
  <2> QED
    BY <1>1, <2>1, <2>3 DEF Locked, TypeOK
<1>6. ASSUME NEW f \in Failed, NEW v \in MovesOf(f), Confirm(f, v) \/ GiveUp(f, v)
      PROVE  Locked'
  <2>1. v \in Moves /\ v[1] \in Instances /\ locker' = Unlocked(v)
    BY <1>6 DEF Confirm, GiveUp, MovesOf, Moves
  <2>2. \E s \in VStatus : vmove' = [vmove EXCEPT ![v] = s]
    BY <1>6 DEF Confirm, GiveUp, VStatus
  <2>3. ASSUME NEW i \in Instances, locker'[i] # NoMove
        PROVE  locker'[i][1] = i /\ vmove'[locker'[i]] = "ongoing"
    <3>1. locker'[i] = locker[i]
      BY <1>1, <2>1, <2>3 DEF Unlocked, TypeOK
    <3>2. locker[i] \in Moves /\ locker[i][1] = i /\ vmove[locker[i]] = "ongoing"
      BY <1>1, <2>3, <3>1 DEF Locked, TypeOK
    <3>3. locker[i] # v
      BY <1>1, <2>1, <2>3, <3>1, <3>2 DEF Unlocked, TypeOK
    <3> QED
      BY <1>1, <2>2, <3>1, <3>2, <3>3 DEF TypeOK
  <2> QED
    BY <2>3 DEF Locked
<1>7. CASE NovaStep \/ UNCHANGED vars
  <2>1. UNCHANGED <<locker, vmove>>
    BY <1>7 DEF NovaStep, Rebuilt, RebuildFails, vars
  <2> QED
    BY <1>1, <2>1 DEF Locked
<1> QED
  BY <1>2, <1>3, <1>4, <1>5, <1>6, <1>7 DEF Next, EngineStep

\* An instance is locked only by the thread of an ONGOING row of its own, which is in the pool, if the
\* calls around the try block are answered: the thread that ends unlocks what it has locked, and the
\* second of two threads of one instance neither locks it nor unlocks it.
THEOREM LocksEnd == NovaAnswers => (Spec => []NoInstanceStaysLocked)
<1>1. Init => LockedInv
  BY Initially DEF LockedInv, Locked, Init
<1>2. LockedInv /\ [Next]_vars => LockedInv'
  BY TypeStep, HomeStep, BusyStep, LockedStep DEF LockedInv, MoveInv
<1>3. ASSUME LockedInv
      PROVE  NoInstanceStaysLocked
  <2>1. TypeOK /\ Busy /\ Locked
    BY <1>3 DEF LockedInv, MoveInv, TypeInv
  <2>2. ASSUME NEW i \in Instances, locker[i] # NoMove
        PROVE  locker[i] \in flow[home[i]].todo /\ flow[home[i]].pc = "move"
    <3>1. locker[i] \in Moves /\ locker[i][1] = i /\ vmove[locker[i]] = "ongoing"
      BY <2>1, <2>2 DEF Locked, TypeOK
    <3>2. locker[i] \in MovesOf(home[i]) /\ home[i] \in Failed
      BY <3>1 DEF MovesOf
    <3> QED
      BY <2>1, <3>1, <3>2 DEF Busy
  <2> QED
    BY <2>2 DEF NoInstanceStaysLocked
<1> QED
  BY <1>1, <1>2, <1>3, PTL DEF Spec

-----------------------------------------------------------------------------
(* Reserved hosts *)

LEMMA Trying ==
  ASSUME TypeOK, NEW f \in Failed, Retry(f) \/ Disable(f)
  PROVE  flow'[f].pc = "prepare" /\ flow'[f].todo = flow[f].todo /\ flow'[f].kind = flow[f].kind
<1>1. flow[f] \in Flow
  BY DEF TypeOK
<1>2. ASSUME NEW r, NEW left,
             flow' = [flow EXCEPT ![f].pc = "prepare", ![f].host = r, ![f].left = left, ![f].error = None]
      PROVE  flow'[f].pc = "prepare" /\ flow'[f].todo = flow[f].todo /\ flow'[f].kind = flow[f].kind
  BY <1>1, <1>2 DEF TypeOK, Flow
<1>3. ASSUME NEW r, NEW left,
             flow' = [flow EXCEPT ![f].pc = "prepare", ![f].host = r, ![f].left = left]
      PROVE  flow'[f].pc = "prepare" /\ flow'[f].todo = flow[f].todo /\ flow'[f].kind = flow[f].kind
  BY <1>1, <1>3 DEF TypeOK, Flow
<1>4. CASE Retry(f)
  BY <1>2, <1>4 DEF Retry
<1>5. CASE Disable(f)
  <2>1. CASE flow[f].kind = "auto"
    <3>1. Goto(f, "prepare") /\ "prepare" \in PCs
      BY <1>5, <2>1 DEF Disable, PCs
    <3> QED
      BY <3>1, Going
  <2>2. CASE flow[f].kind # "auto"
    BY <1>3, <1>5, <2>2 DEF Disable
  <2> QED
    BY <2>1, <2>2
<1> QED
  BY <1>4, <1>5

\* Only EvacuateInstancesTask brings a flow to its reserved host, and finds the lock free.
LEMMA Arriving ==
  ASSUME MoveInv, NEW f \in Failed, EngineStep(f), flow'[f].pc \in AtHost
  PROVE  /\ flow'[f].host = flow[f].host /\ flow'[f].kind = flow[f].kind
         /\ flow[f].pc \in AtHost \/ (flow[f].kind = "rh" => ~Taken(f))
         /\ reserved' = reserved \/ reserved' = reserved \ {flow[f].host}
         /\ flow[f].kind = "rh" /\ flow'[f].pc = "move" =>
              flow[f].pc = "move" \/ reserved' = reserved \ {flow[f].host}
         /\ \/ (Evacuate(f) /\ ~(flow[f].kind = "rh" /\ Taken(f))) \/ Enable(f) \/ Unreserve(f)
            \/ \E v \in MovesOf(f) :
                 Begin(f, v) \/ Refused(f, v) \/ ThreadDies(f, v) \/ Confirm(f, v) \/ GiveUp(f, v)
<1> DEFINE Stays ==
  /\ flow'[f].host = flow[f].host /\ flow'[f].kind = flow[f].kind
  /\ flow[f].pc \in AtHost \/ (flow[f].kind = "rh" => ~Taken(f))
  /\ reserved' = reserved \/ reserved' = reserved \ {flow[f].host}
  /\ flow[f].kind = "rh" /\ flow'[f].pc = "move" =>
       flow[f].pc = "move" \/ reserved' = reserved \ {flow[f].host}
<1>1. TypeInv /\ TypeOK
  BY DEF MoveInv, TypeInv
<1>2. ASSUME Start(f) \/ FallBack(f)
      PROVE  FALSE
  BY <1>1, <1>2, Starting, FallingBack DEF AtHost
<1>3. ASSUME Retry(f) \/ Disable(f)
      PROVE  FALSE
  BY <1>1, <1>3, Trying DEF AtHost
<1>4. ASSUME Conclude(f)
      PROVE  FALSE
  BY <1>1, <1>4, Idling DEF Conclude, AtHost
<1>5. ASSUME NEW e \in Errors, Raise(f, e)
      PROVE  FALSE
  BY <1>1, <1>5, Raising DEF AtHost
<1>6. ASSUME TaskFails(f)
      PROVE  FALSE
  BY <1>5, <1>6 DEF TaskFails, Errors
<1>7. ASSUME Prepare(f)
      PROVE  FALSE
  <2>1. Considered(f) # {}
    BY <1>5, <1>7 DEF Prepare, Errors
  <2> QED
    BY <1>1, <1>7, <2>1, Preparing DEF AtHost
<1>8. ASSUME Evacuate(f)
     PROVE  Stays
  <2>1. ~(flow[f].kind = "rh" /\ Taken(f)) /\ reserved' = reserved
    BY <1>5, <1>8 DEF Evacuate, Errors
  <2>2. /\ flow'[f].host = flow[f].host /\ flow'[f].kind = flow[f].kind
        /\ flow[f].kind = "rh" => flow'[f].pc = "enable"
    BY <1>1, <1>8, <2>1, Evacuating
  <2> QED
    BY <2>1, <2>2
<1>9. ASSUME Enable(f)
     PROVE  Stays
  <2>1. Goto(f, "unreserve") /\ "unreserve" \in PCs /\ reserved' = reserved /\ flow[f].pc \in AtHost
    BY <1>9 DEF Enable, PCs, AtHost
  <2> QED
    BY <1>1, <2>1, Going
<1>10. ASSUME Unreserve(f)
      PROVE  Stays
  <2>1. Goto(f, "move") /\ "move" \in PCs /\ reserved' = reserved \ {flow[f].host} /\ flow[f].pc \in AtHost
    BY <1>10 DEF Unreserve, PCs, AtHost
  <2> QED
    BY <1>1, <2>1, Going
<1>11. ASSUME Join(f)
       PROVE  FALSE
  <2>1. Judged(f) = {}
    BY <1>5, <1>11 DEF Join, Errors
  <2>2. flow' = [flow EXCEPT ![f] = Idle(@.attempt)]
    BY <1>11, <2>1 DEF Join
  <2> QED
    BY <1>1, <2>2, Idling DEF Idle, AtHost
<1>12. ASSUME NEW v \in MovesOf(f), Begin(f, v)
       PROVE  flow' = flow /\ reserved' = reserved /\ flow[f].pc = "move"
  BY <1>12 DEF Begin, Waiting
<1>13. ASSUME NEW v \in MovesOf(f), Refused(f, v) \/ ThreadDies(f, v) \/ Confirm(f, v) \/ GiveUp(f, v)
       PROVE  /\ flow'[f].host = flow[f].host /\ flow'[f].kind = flow[f].kind
              /\ flow[f].pc = "move" /\ reserved' = reserved
  <2>1. Ended(f, v) /\ reserved' = reserved
    BY <1>13 DEF Refused, ThreadDies, Confirm, GiveUp
  <2>2. flow[f].pc = "move"
    BY <1>13, EndedFits DEF Refused, ThreadDies, Confirm, GiveUp
  <2> QED
    BY <1>1, <2>1, <2>2, Ending
<1>14. \/ Evacuate(f) \/ Enable(f) \/ Unreserve(f)
       \/ \E v \in MovesOf(f) :
            Begin(f, v) \/ Refused(f, v) \/ ThreadDies(f, v) \/ Confirm(f, v) \/ GiveUp(f, v)
  BY <1>2, <1>3, <1>4, <1>6, <1>7, <1>11 DEF EngineStep
<1>15. Evacuate(f) => ~(flow[f].kind = "rh" /\ Taken(f))
  BY <1>5 DEF Evacuate, Errors
<1> QED
  BY <1>8, <1>9, <1>10, <1>12, <1>13, <1>14, <1>15 DEF AtHost

LEMMA ExclusiveStep ==
  ASSUME MoveInv, Exclusive, [Next]_vars
  PROVE  Exclusive'
<1>1. ASSUME NEW f \in Failed, EngineStep(f)
      PROVE  Exclusive'
  <2>1. \A g \in Failed \ {f} : flow'[g] = flow[g]
    BY <1>1, StepIsLocal DEF FlowFits, Others
  <2>2. ASSUME NEW g \in Failed \ {f}, flow'[f].kind = "rh", flow'[g].kind = "rh",
               flow'[f].pc \in AtHost, flow'[g].pc \in AtHost
        PROVE  flow'[f].host # flow'[g].host
    <3>1. flow'[g] = flow[g] /\ flow'[f].host = flow[f].host /\ flow[f].kind = "rh"
      BY <1>1, <2>1, <2>2, Arriving
    <3>2. CASE flow[f].pc \in AtHost
      BY <2>2, <3>1, <3>2 DEF Exclusive
    <3>3. CASE ~Taken(f)
      BY <2>2, <3>1, <3>3 DEF Taken, AtHost
    <3> QED
      BY <1>1, <2>2, <3>1, <3>2, <3>3, Arriving
  <2> QED
    BY <2>1, <2>2 DEF Exclusive
<1>2. CASE NovaStep \/ UNCHANGED vars
  <2>1. UNCHANGED flow
    BY <1>2 DEF NovaStep, Rebuilt, RebuildFails, vars
  <2> QED
    BY <2>1 DEF Exclusive
<1> QED
  BY <1>1, <1>2 DEF Next

\* Two recoveries are never at work on the same reserved host: each holds the lock named after it
\* from before it enables the host until its last thread has ended.
THEOREM OneRecovery == Spec => []OneRecoveryPerReservedHost
<1>1. Init => Exclusive
  BY DEF Init, Exclusive, Idle, AtHost
<1>2. MoveInv /\ Exclusive /\ [Next]_vars => Exclusive'
  BY ExclusiveStep
<1>3. MoveInv /\ Exclusive => OneRecoveryPerReservedHost
  <2> SUFFICES ASSUME MoveInv, Exclusive, NEW f \in Failed, NEW g \in Failed, f # g,
                      InPool(f) # {}, InPool(g) # {}, flow[f].kind = "rh", flow[g].kind = "rh"
               PROVE  flow[f].host # flow[g].host
    BY DEF OneRecoveryPerReservedHost
  <2>1. ASSUME NEW h \in Failed, InPool(h) # {}
        PROVE  flow[h].pc \in AtHost
    BY <2>1 DEF InPool, MoveInv, TypeInv, ShapeOf, Busy, AtHost
  <2> QED
    BY <2>1 DEF Exclusive
<1> QED
  BY <1>1, <1>2, <1>3, Moving, PTL DEF Spec

SpareInv == MoveInv /\ method \in Methods /\ Spent /\ ReservedHostsAreSpare

\* Under one of these methods the flow is the one of the method.
LEMMA OneFlow ==
  ASSUME SpareInv, Methods \subseteq { "auto", "reserved_host" }, NEW f \in Failed, flow[f].pc # "idle"
  PROVE  flow[f].kind = IF method = "auto" THEN "auto" ELSE "rh"
BY DEF SpareInv, MoveInv, TypeInv, ShapeOf, FirstFlow, Priority

LEMMA SpentStep ==
  ASSUME SpareInv, Methods \subseteq { "auto", "reserved_host" }, [Next]_vars
  PROVE  method' \in Methods /\ Spent'
<1>1. MoveInv /\ method \in Methods /\ Spent
  BY DEF SpareInv
<1>2. ASSUME NEW f \in Failed, EngineStep(f)
      PROVE  method' \in Methods /\ Spent'
  <2>1. Local(f) /\ Others(f)
    BY <1>1, <1>2, StepIsLocal DEF FlowFits
  <2>2. ASSUME NEW g \in Failed, flow'[g].pc = "move", flow'[g].kind = "rh"
        PROVE  flow'[g].host \notin reserved'
    <3>1. CASE g = f
      BY <1>1, <1>2, <2>1, <2>2, <3>1, Arriving DEF Spent, Local, AtHost
    <3>2. CASE g # f
      BY <1>1, <2>1, <2>2, <3>2 DEF Spent, Local, Others
    <3> QED
      BY <3>1, <3>2
  <2>3. ASSUME method = "auto"
        PROVE  serving' = {}
    <3>1. serving = {}
      BY <1>1, <2>3 DEF Spent
    <3>2. ~Enable(f)
      BY <1>1, <2>3, OneFlow DEF Enable, MoveInv, TypeInv, ShapeOf
    <3>3. serving' = serving
      BY <1>2, <3>2
      DEF EngineStep, Start, Retry, FallBack, Conclude, TaskFails, Disable, Prepare, Evacuate,
          Unreserve, Join, Begin, Refused, ThreadDies, Confirm, GiveUp, nova
    <3> QED
      BY <3>1, <3>3
  <2> QED
    BY <1>1, <2>1, <2>2, <2>3 DEF Spent, Local
<1>3. CASE NovaStep \/ UNCHANGED vars
  <2>1. UNCHANGED <<method, flow, reserved, serving>>
    BY <1>3 DEF NovaStep, Rebuilt, RebuildFails, vars
  <2> QED
    BY <1>1, <2>1 DEF Spent
<1> QED
  BY <1>2, <1>3 DEF Next

LEMMA SpareStep ==
  ASSUME SpareInv, Methods \subseteq { "auto", "reserved_host" }, [Next]_vars
  PROVE  ReservedHostsAreSpare'
<1>1. MoveInv /\ TypeOK /\ Spent /\ ReservedHostsAreSpare
  BY DEF SpareInv, MoveInv, TypeInv
<1>2. ASSUME NEW f \in Failed, EngineStep(f), moving' = moving
      PROVE  ReservedHostsAreSpare'
  BY <1>1, <1>2, StepIsLocal DEF Local, ReservedHostsAreSpare
<1>3. ASSUME NEW f \in Failed, NEW v \in MovesOf(f), Begin(f, v)
      PROVE  ReservedHostsAreSpare'
  <2>1. UNCHANGED <<reserved, place>> /\ flow[f].pc = "move" /\ v[1] \in Instances
    BY <1>3 DEF Begin, Waiting, MovesOf, Moves
  <2>2. PICK h \in IF flow[f].kind = "rh" THEN {flow[f].host} ELSE {Elsewhere} \cup serving :
          moving' = [moving EXCEPT ![v[1]] = h]
    BY <1>3 DEF Begin
  <2>3. flow[f].kind # "rh" => serving = {}
    BY <1>1, <2>1, OneFlow DEF Spent
  <2>4. h \notin reserved
    BY <1>1, <2>1, <2>2, <2>3 DEF Spent, TypeOK
  <2> QED
    BY <1>1, <2>1, <2>2, <2>4 DEF ReservedHostsAreSpare, TypeOK
<1>4. ASSUME NEW f \in Failed, EngineStep(f), ~\E v \in MovesOf(f) : Begin(f, v)
      PROVE  moving' = moving
  BY <1>4
  DEF EngineStep, Start, Retry, FallBack, Conclude, TaskFails, Disable, Prepare, Evacuate, Enable,
      Unreserve, Join, Refused, ThreadDies, Confirm, GiveUp, nova
<1>5. ASSUME NEW i \in Instances, Rebuilt(i) \/ RebuildFails(i)
      PROVE  ReservedHostsAreSpare'
  <2>1. reserved' = reserved /\ moving' = [moving EXCEPT ![i] = NoHost]
    BY <1>5 DEF Rebuilt, RebuildFails
  <2>2. place' = place \/ place' = [place EXCEPT ![i] = moving[i]]
    BY <1>5 DEF Rebuilt, RebuildFails
  <2>3. NoHost \notin reserved
    BY <1>1 DEF TypeOK
  <2> QED
    BY <1>1, <2>1, <2>2, <2>3 DEF ReservedHostsAreSpare, TypeOK
<1>6. CASE UNCHANGED vars
  BY <1>1, <1>6 DEF ReservedHostsAreSpare, vars
<1> QED
  BY <1>2, <1>3, <1>4, <1>5, <1>6 DEF Next, NovaStep

\* Under "auto" and "reserved_host" a host that is still offered as reserved holds no instance and
\* none is being rebuilt on it: its flag goes before the first evacuation to it, and the compute
\* service of a reserved host is enabled by no other flow.
THEOREM SpareHosts ==
  Methods \subseteq { "auto", "reserved_host" } => (Spec => []ReservedHostsAreSpare)
<1> SUFFICES ASSUME Methods \subseteq { "auto", "reserved_host" }
             PROVE  Spec => []ReservedHostsAreSpare
  OBVIOUS
<1>1. Init => SpareInv
  BY Initially DEF SpareInv, Init, Spent, Idle, ReservedHostsAreSpare
<1>2. SpareInv /\ [Next]_vars => SpareInv'
  BY TypeStep, HomeStep, BusyStep, SpentStep, SpareStep DEF SpareInv, MoveInv
<1>3. SpareInv => ReservedHostsAreSpare
  BY DEF SpareInv
<1> QED
  BY <1>1, <1>2, <1>3, PTL DEF Spec

-----------------------------------------------------------------------------
(* What a FINISHED recovery has done *)

FinishedOn(f) == CoveredOn(f) /\ SkippedOn(f) /\ (verdict[f] = "finished" => Considered(f) = {})
FinishedInv   == MoveInv /\ \A f \in Failed : FinishedOn(f)

\* A recovery is skipped when nova lists nothing on the host, for no other reason.
LEMMA Skipping ==
  ASSUME MoveInv, NEW f \in Failed, EngineStep(f), flow'[f].pc = "raised", flow'[f].error = "skip"
  PROVE  Considered(f) = {}
<1>1. TypeInv /\ TypeOK
  BY DEF MoveInv, TypeInv
<1>2. ASSUME Start(f) \/ FallBack(f)
      PROVE  FALSE
  BY <1>1, <1>2, Starting, FallingBack
<1>3. ASSUME Retry(f) \/ Disable(f)
      PROVE  FALSE
  BY <1>1, <1>3, Trying
<1>4. ASSUME Conclude(f)
      PROVE  FALSE
  BY <1>1, <1>4, Idling DEF Conclude
<1>5. ASSUME NEW e \in Errors \ {"skip"}, Raise(f, e)
      PROVE  FALSE
  BY <1>1, <1>5, Raising
<1>6. ASSUME TaskFails(f)
      PROVE  FALSE
  BY <1>5, <1>6 DEF TaskFails, Errors
<1>7. ASSUME Prepare(f), Considered(f) # {}
      PROVE  FALSE
  BY <1>1, <1>7, Preparing
<1>8. ASSUME Evacuate(f)
      PROVE  FALSE
  <2>1. ~(flow[f].kind = "rh" /\ Taken(f))
    BY <1>5, <1>8 DEF Evacuate, Errors
  <2> QED
    BY <1>1, <1>8, <2>1, Evacuating
<1>9. ASSUME NEW p \in PCs \ {"raised"}, Goto(f, p)
      PROVE  FALSE
  BY <1>1, <1>9, Going
<1>10. ASSUME Enable(f) \/ Unreserve(f)
       PROVE  FALSE
  BY <1>9, <1>10 DEF Enable, Unreserve, PCs
<1>11. ASSUME Join(f)
       PROVE  FALSE
  <2>1. Judged(f) = {}
    BY <1>5, <1>11 DEF Join, Errors
  <2>2. flow' = [flow EXCEPT ![f] = Idle(@.attempt)]
    BY <1>11, <2>1 DEF Join
  <2> QED
    BY <1>1, <2>2, Idling
<1>12. ASSUME NEW v \in MovesOf(f), Begin(f, v)
       PROVE  FALSE
  BY <1>12 DEF Begin, Waiting
<1>13. ASSUME NEW v \in MovesOf(f), Refused(f, v) \/ ThreadDies(f, v) \/ Confirm(f, v) \/ GiveUp(f, v)
       PROVE  FALSE
  BY <1>1, <1>13, EndedFits, Ending DEF Refused, ThreadDies, Confirm, GiveUp
<1> QED
  BY <1>2, <1>3, <1>4, <1>6, <1>7, <1>8, <1>10, <1>11, <1>12, <1>13 DEF EngineStep

\* The attempt that reaches EvacuateInstancesTask has a PENDING row for every instance on the host.
LEMMA RowsReady ==
  ASSUME MoveInv, NEW f \in Failed, EngineStep(f), flow'[f].pc = "evacuate", NEW i \in Considered(f)'
  PROVE  <<i, flow'[f].attempt>> \in InStatus(f, "pending")'
<1>1. TypeInv /\ TypeOK /\ Home
  BY DEF MoveInv, TypeInv
<1>2. Prepare(f) /\ Considered(f) # {}
  <2>1. ASSUME Start(f) \/ FallBack(f) \/ Retry(f) \/ Disable(f)
        PROVE  FALSE
    BY <1>1, <2>1, Starting, FallingBack, Trying
  <2>2. ASSUME flow' = [flow EXCEPT ![f] = Idle(@.attempt)]
        PROVE  FALSE
    BY <1>1, <2>2, Idling
  <2>3. ASSUME NEW e \in Errors, Raise(f, e)
        PROVE  FALSE
    BY <1>1, <2>3, Raising
  <2>4. ASSUME NEW p \in PCs \ {"evacuate"}, Goto(f, p)
        PROVE  FALSE
    BY <1>1, <2>4, Going
  <2>5. ASSUME Conclude(f) \/ TaskFails(f) \/ Enable(f) \/ Unreserve(f) \/ Join(f)
        PROVE  FALSE
    BY <2>2, <2>3, <2>4, <2>5 DEF Conclude, TaskFails, Enable, Unreserve, Join, Errors, PCs
  <2>6. ASSUME Evacuate(f)
        PROVE  FALSE
    <3>1. ~(flow[f].kind = "rh" /\ Taken(f))
      BY <2>3, <2>6 DEF Evacuate, Errors
    <3> QED
      BY <1>1, <2>6, <3>1, Evacuating
  <2>7. ASSUME NEW v \in MovesOf(f), Begin(f, v)
        PROVE  FALSE
    BY <2>7 DEF Begin, Waiting
  <2>8. ASSUME NEW v \in MovesOf(f), Refused(f, v) \/ ThreadDies(f, v) \/ Confirm(f, v) \/ GiveUp(f, v)
        PROVE  FALSE
    BY <1>1, <2>8, EndedFits, Ending DEF Refused, ThreadDies, Confirm, GiveUp
  <2>9. Prepare(f)
    BY <2>1, <2>5, <2>6, <2>7, <2>8 DEF EngineStep
  <2> QED
    BY <2>3, <2>9 DEF Prepare, Errors
<1> DEFINE k == flow[f].attempt + 1
<1>3. /\ vmove' = [v \in Moves |-> IF v[1] \in Considered(f) /\ v[2] = k THEN "pending" ELSE vmove[v]]
      /\ place' = place /\ inError' = inError
  BY <1>2 DEF Prepare, nova
<1>4. flow'[f].attempt = k /\ k \in Attempts
  BY <1>1, <1>2, Preparing
<1> HIDE DEF k
<1>5. i \in Considered(f) /\ i \in Instances /\ home[i] = f
  BY <1>1, <1>3 DEF Considered, On, Home
<1>6. <<i, k>> \in Moves
  BY <1>4, <1>5 DEF Moves
<1>7. vmove'[<<i, k>>] = "pending"
  BY <1>3, <1>5, <1>6
<1> QED
  BY <1>4, <1>5, <1>6, <1>7 DEF InStatus, MovesOf

\* A thread that ends has moved its instance, or leaves a FAILED row.
LEMMA CoverAfter ==
  ASSUME FinishedInv, NovaAnswers, NEW f \in Failed, EngineStep(f)
  PROVE  CoveredOn(f)'
<1>1. MoveInv /\ TypeOK /\ CoveredOn(f) /\ Busy
  BY DEF FinishedInv, FinishedOn, MoveInv, TypeInv
<1>2. place' = place /\ Considered(f)' \subseteq Considered(f)
  BY <1>1, StepIsLocal DEF Local, Considered, On
<1>3. ASSUME flow'[f].pc = "evacuate"
      PROVE  CoveredOn(f)'
  BY <1>1, <1>3, RowsReady DEF CoveredOn, AtHost
<1>4. ASSUME flow'[f].pc \in AtHost, InStatus(f, "failed")' = {}, NEW i \in Considered(f)
      PROVE  \E w \in flow'[f].todo : w[1] = i
  <2>1. CASE Evacuate(f) /\ ~(flow[f].kind = "rh" /\ Taken(f))
    <3>1. vmove' = vmove /\ flow[f].pc = "evacuate" /\ flow'[f].todo = InStatus(f, "pending")
      BY <1>1, <2>1, Evacuating DEF Evacuate
    <3>2. InStatus(f, "failed") = {}
      BY <1>4, <3>1 DEF InStatus
    <3>3. <<i, flow[f].attempt>> \in InStatus(f, "pending")
      BY <1>1, <1>4, <3>1, <3>2 DEF CoveredOn
    <3>4. <<i, flow[f].attempt>>[1] = i
      OBVIOUS
    <3> QED
      BY <3>1, <3>3, <3>4
  <2>2. ASSUME flow[f].pc \in AtHost, vmove' = vmove, flow'[f].todo = flow[f].todo
        PROVE  \E w \in flow'[f].todo : w[1] = i
    <3>1. InStatus(f, "failed") = {}
      BY <1>4, <2>2 DEF InStatus
    <3> QED
      BY <1>1, <1>4, <2>2, <3>1 DEF CoveredOn
  <2>3. CASE Enable(f) \/ Unreserve(f)
    <3>1. flow[f].pc \in AtHost /\ vmove' = vmove
      BY <2>3 DEF Enable, Unreserve, AtHost
    <3>2. \E p \in PCs : Goto(f, p)
      BY <2>3 DEF Enable, Unreserve, PCs
    <3> QED
      BY <1>1, <2>2, <3>1, <3>2, Going
  <2>4. ASSUME NEW v \in MovesOf(f), Begin(f, v)
        PROVE  \E w \in flow'[f].todo : w[1] = i
    <3>1. flow' = flow /\ flow[f].pc = "move" /\ vmove' = [vmove EXCEPT ![v] = "ongoing"]
      BY <2>4 DEF Begin, Waiting
    <3>2. vmove[v] = "pending"
      BY <2>4 DEF Begin, Waiting
    <3>3. InStatus(f, "failed") = {}
      BY <1>1, <1>4, <3>1, <3>2 DEF InStatus, MovesOf, TypeOK
    <3> QED
      BY <1>1, <1>4, <3>1, <3>3 DEF CoveredOn, AtHost
  <2>5. ASSUME NEW v \in MovesOf(f), Refused(f, v) \/ GiveUp(f, v)
        PROVE  FALSE
    <3>1. v \in Moves /\ vmove' = [vmove EXCEPT ![v] = "failed"]
      BY <2>5 DEF Refused, GiveUp, MovesOf
    <3>2. v \in InStatus(f, "failed")'
      BY <1>1, <3>1 DEF InStatus, MovesOf, TypeOK
    <3> QED
      BY <1>4, <3>2
  <2>6. ASSUME NEW v \in MovesOf(f), Confirm(f, v)
        PROVE  \E w \in flow'[f].todo : w[1] = i
    <3>1. /\ vmove' = [vmove EXCEPT ![v] = "succeeded"] /\ vmove[v] = "ongoing" /\ place[v[1]] # f
          /\ Ended(f, v)
      BY <2>6 DEF Confirm, InPool
    <3>2. InStatus(f, "failed") = {}
      BY <1>1, <1>4, <3>1 DEF InStatus, MovesOf, TypeOK
    <3>3. flow[f].pc = "move"
      BY <1>1, <3>1 DEF Busy
    <3>4. PICK w \in flow[f].todo : w[1] = i
      BY <1>1, <1>4, <3>2, <3>3 DEF CoveredOn, AtHost
    <3>5. w # v
      BY <1>4, <3>1, <3>4 DEF Considered, On
    <3>6. w \in flow'[f].todo
      BY <1>1, <3>1, <3>4, <3>5, Ending
    <3> QED
      BY <3>4, <3>6
  <2>7. ASSUME NEW v \in MovesOf(f), ThreadDies(f, v)
        PROVE  FALSE
    BY <2>7 DEF ThreadDies
  <2> QED
    BY <1>1, <1>4, <2>1, <2>3, <2>4, <2>5, <2>6, <2>7, Arriving
<1> QED
  BY <1>2, <1>3, <1>4 DEF CoveredOn, AtHost

LEMMA FinishedAfter ==
  ASSUME FinishedInv, NEW f \in Failed, EngineStep(f), verdict'[f] = "finished"
  PROVE  Considered(f)' = {}
<1>1. MoveInv /\ TypeOK /\ TypeInv /\ CoveredOn(f) /\ SkippedOn(f) /\ (verdict[f] = "finished" => Considered(f) = {})
  BY DEF FinishedInv, FinishedOn, MoveInv, TypeInv
<1>2. Considered(f)' \subseteq Considered(f)
  BY <1>1, StepIsLocal DEF Local, Considered, On
<1>3. CASE verdict' = verdict
  BY <1>1, <1>2, <1>3
<1>4. CASE Start(f)
  BY <1>1, <1>4 DEF Start, TypeOK, None
<1>5. CASE Conclude(f)
  BY <1>1, <1>2, <1>5 DEF Conclude, Exhausted, SkippedOn, TypeOK
<1>6. CASE Join(f) /\ Judged(f) = {}
  <2>1. flow[f].pc = "move" /\ flow[f].todo = {} /\ InStatus(f, "failed") = {}
    BY <1>6 DEF Join, Judged
  <2> QED
    BY <1>1, <1>2, <2>1 DEF CoveredOn, AtHost
<1> QED
  BY <1>3, <1>4, <1>5, <1>6
  DEF EngineStep, Retry, FallBack, TaskFails, Disable, Prepare, Evacuate, Enable,
      Unreserve, Join, Begin, Refused, ThreadDies, Confirm, GiveUp

LEMMA FinishedStep ==
  ASSUME FinishedInv, NovaAnswers, [Next]_vars
  PROVE  \A f \in Failed : FinishedOn(f)'
<1>1. MoveInv /\ TypeOK /\ \A f \in Failed : FinishedOn(f)
  BY DEF FinishedInv, MoveInv, TypeInv
<1>2. ASSUME NEW g \in Failed, flow'[g] = flow[g], verdict'[g] = verdict[g],
             \A v \in MovesOf(g) : vmove'[v] = vmove[v], Considered(g)' \subseteq Considered(g)
      PROVE  FinishedOn(g)'
  <2>1. \A s : InStatus(g, s)' = InStatus(g, s)
    BY <1>2 DEF InStatus, MovesOf
  <2>2. FinishedOn(g)
    BY <1>1
  <2>3. CoveredOn(g)'
    BY <1>2, <2>1, <2>2 DEF FinishedOn, CoveredOn
  <2> QED
    BY <1>2, <2>2, <2>3 DEF FinishedOn, SkippedOn
<1>3. ASSUME NEW f \in Failed, EngineStep(f), NEW g \in Failed
      PROVE  FinishedOn(g)'
  <2>1. Local(f) /\ Others(f)
    BY <1>1, <1>3, StepIsLocal DEF FlowFits
  <2>2. CASE g = f
    <3>1. Considered(f)' \subseteq Considered(f)
      BY <2>1 DEF Local, Considered, On
    <3>2. SkippedOn(f)'
      BY <1>1, <1>3, <3>1, Skipping DEF SkippedOn
    <3> QED
      BY <1>3, <2>2, <3>2, CoverAfter, FinishedAfter DEF FinishedOn
  <2>3. CASE g # f
    <3>1. \A v \in MovesOf(g) : vmove'[v] = vmove[v]
      BY <2>1, <2>3 DEF Local, MovesOf
    <3>2. flow'[g] = flow[g] /\ verdict'[g] = verdict[g] /\ Considered(g)' \subseteq Considered(g)
      BY <2>1, <2>3 DEF Local, Others, Considered, On
    <3> QED
      BY <1>2, <3>1, <3>2
  <2> QED
    BY <2>2, <2>3
<1>4. ASSUME NEW i \in Instances, Rebuilt(i) \/ RebuildFails(i), NEW g \in Failed
      PROVE  FinishedOn(g)'
  <2>1. UNCHANGED <<vmove, flow, verdict>>
    BY <1>4 DEF Rebuilt, RebuildFails
  <2>2. place' = place \/ (moving[i] # NoHost /\ place' = [place EXCEPT ![i] = moving[i]])
    BY <1>4 DEF Rebuilt, RebuildFails
  <2>3. moving[i] # NoHost => moving[i] \notin Failed
    BY <1>1 DEF TypeOK
  <2>4. \A j \in Instances : place'[j] = g => place[j] = g /\ (j = i => ~Rebuilt(i))
    BY <1>1, <1>4, <2>2, <2>3 DEF Rebuilt, TypeOK
  <2>5. \A j \in Instances : j \in inError => j \in inError' \/ (j = i /\ Rebuilt(i))
    BY <1>4 DEF Rebuilt, RebuildFails, MayErr
  <2>6. Considered(g)' \subseteq Considered(g)
    BY <2>4, <2>5 DEF Considered, On
  <2> QED
    BY <1>2, <2>1, <2>6
<1>5. ASSUME UNCHANGED vars, NEW g \in Failed
      PROVE  FinishedOn(g)'
  <2>1. UNCHANGED <<vmove, flow, verdict>> /\ Considered(g)' = Considered(g)
    BY <1>5 DEF vars, Considered, On
  <2> QED
    BY <1>2, <2>1
<1> QED
  BY <1>3, <1>4, <1>5 DEF Next, NovaStep

\* A FINISHED recovery left no instance on the failed host but those the configuration excludes
\* (not HA_Enabled, or in error when that is to be ignored), however many attempts, reserved hosts
\* and fallbacks it took, if no thread of a VM move dies before its try block.
THEOREM FinishedIsEvacuated == NovaAnswers => (Spec => []FinishedMeansEvacuated)
<1> SUFFICES ASSUME NovaAnswers
             PROVE  Spec => []FinishedMeansEvacuated
  OBVIOUS
<1>1. Init => FinishedInv
  <2> SUFFICES ASSUME Init, NEW f \in Failed
               PROVE  FinishedOn(f)
    BY Initially DEF FinishedInv
  <2>1. flow[f].pc = "idle" /\ verdict[f] = None
    BY DEF Init, Idle
  <2> QED
    BY <2>1 DEF FinishedOn, CoveredOn, SkippedOn, AtHost, None
<1>2. FinishedInv /\ [Next]_vars => FinishedInv'
  BY TypeStep, HomeStep, BusyStep, FinishedStep DEF FinishedInv, MoveInv
<1>3. FinishedInv => FinishedMeansEvacuated
  BY DEF FinishedInv, FinishedOn, FinishedMeansEvacuated
<1> QED
  BY <1>1, <1>2, <1>3, PTL DEF Spec
=============================================================================
