----------------------- MODULE NotificationEngineProofs -----------------------
(***************************************************************************)
(* Theorems about NotificationEngine, for every number of engines, threads, *)
(* hosts and notifications and every value of the intervals.  Three          *)
(* inductive invariants, each built on the one before:                      *)
(*   IInv     the invariants the runs check and what the code relies on      *)
(*            silently: which object a thread has at hand at each point     *)
(*            (AtHand) and what must have happened for it to get there      *)
(*            (History);                                                    *)
(*   OnceInv  for one engine with one periodic thread: what a thread        *)
(*            decides from (Copies) and how many recoveries a row may still *)
(*            get (Budget);                                                 *)
(*   CalmInv  for an engine nobody disturbs: what a thread has read is what *)
(*            the row still says (Fresh), hence the refinement of           *)
(*            NotificationLifecycle.                                        *)
(***************************************************************************)
EXTENDS NotificationEngine, TLAPS

USE EngineAssumption

\* Where the code has a notification object in scope the thread has a row, an
\* unsaved verdict exists between the handler and its save, and only periodic
\* threads hold a listing.
AtHand ==
  \A w \in Workers :
    /\ thread[w].pc \notin {"idle", "loop", "expire"} => thread[w].row \in Notifs
    /\ thread[w].pc = "save" => thread[w].verdict \in Outcomes

\* A thread past Claim has begun a recovery of its row, one about to save
\* FAILED has read ERROR, one about to reconcile a row has read RUNNING, one
\* about to save IGNORED has read a disabled
\* segment, and the segment is disabled by an operator's update only.
History ==
  /\ \A w \in Workers :
       /\ thread[w].pc \in {"handle", "recover", "save", "fail", "stale"}
            => runs[thread[w].row] > 0
       /\ thread[w].pc = "ignore" => updates > 0
  /\ update = "segment" => updates > 0
  /\ ~enabled => updates > 0

IInv == TypeOK /\ AtHand /\ History /\ NewIsUntouched /\ VerdictHasACause

USE DEF Status, Active, Outcomes, Listing, PCs, Updates, Holding, None

-----------------------------------------------------------------------------
(* The records a thread can be in.                                          *)

LEMMA BetweenType ==
  ASSUME NEW p \in PCs
  PROVE  /\ Between(p) \in Thread
         /\ Between(p).pc = p /\ Between(p).row = NoRow
BY DEF Between, Thread

LEMMA AtRowType ==
  ASSUME NEW p \in PCs, NEW n \in Notifs
  PROVE  LET u == [Between(p) EXCEPT !.row = n]
         IN  u \in Thread /\ u.pc = p /\ u.row = n
BY DEF Between, Thread

LEMMA NoBatchType == NoBatch \in [Notifs -> Listing]
BY DEF NoBatch

-----------------------------------------------------------------------------
LEMMA InitIInv == Init => IInv
<1> SUFFICES ASSUME Init PROVE IInv
  OBVIOUS
<1>1. \A w \in Workers : thread[w] \in Thread /\ thread[w].pc = "idle"
  BY BetweenType DEF Init
<1>2. TypeOK
  BY BetweenType, NoBatchType DEF Init, TypeOK
<1>3. AtHand /\ History
  BY <1>1 DEF Init, AtHand, History
<1>4. NewIsUntouched /\ VerdictHasACause
  BY <1>1 DEF Init, NewIsUntouched, VerdictHasACause
<1> QED
  BY <1>2, <1>3, <1>4 DEF IInv

-----------------------------------------------------------------------------
(* How each action moves its thread: worker w goes to one of the points P,  *)
(* with row n at hand where it has one; the other threads stay.             *)

Resting == {"idle", "loop", "expire"}

MovesTo(w, P, n) ==
  \E t \in Thread :
    /\ thread' = [thread EXCEPT ![w] = t]
    /\ t.pc \in P
    /\ t.pc \notin Resting => t.row = n
    /\ t.pc = "save" => t.verdict \in Outcomes

LEMMA AfterMove ==
  ASSUME TypeOK, NEW w \in Workers, NEW P, NEW n, MovesTo(w, P, n)
  PROVE  /\ thread' \in [Workers -> Thread]
         /\ thread'[w].pc \in P
         /\ thread'[w].pc \notin Resting => thread'[w].row = n
         /\ thread'[w].pc = "save" => thread'[w].verdict \in Outcomes
         /\ \A v \in Workers \ {w} : thread'[v] = thread[v]
<1>1. PICK t \in Thread :
        /\ thread' = [thread EXCEPT ![w] = t]
        /\ t.pc \in P
        /\ t.pc \notin Resting => t.row = n
        /\ t.pc = "save" => t.verdict \in Outcomes
  BY DEF MovesTo
<1>2. thread'[w] = t /\ \A v \in Workers \ {w} : thread'[v] = thread[v]
  BY <1>1 DEF TypeOK
<1>3. thread' \in [Workers -> Thread]
  BY <1>1 DEF TypeOK
<1> QED
  BY <1>1, <1>2, <1>3

LEMMA GotoMoves ==
  ASSUME TypeOK, NEW w \in Workers, NEW p \in PCs \ {"save"}, Goto(w, p)
  PROVE  MovesTo(w, {p}, thread[w].row)
<1> DEFINE t == [thread[w] EXCEPT !.pc = p]
<1>1. thread' = [thread EXCEPT ![w] = t]
  BY DEF Goto
<1>2. thread[w] \in Thread
  BY DEF TypeOK
<1>3. t \in Thread /\ t.pc = p /\ t.row = thread[w].row
  BY <1>2 DEF Thread
<1> QED
  BY <1>1, <1>3 DEF MovesTo

LEMMA BetweenMoves ==
  ASSUME NEW w \in Workers, NEW p \in Resting, NEW n,
         thread' = [thread EXCEPT ![w] = Between(p)]
  PROVE  MovesTo(w, {p}, n)
BY BetweenType DEF MovesTo, Resting

LEMMA ReturnedMoves ==
  ASSUME NEW w \in Workers, thread[w].row \in Notifs,
         thread' = [thread EXCEPT ![w] = Returned(w)]
  PROVE  MovesTo(w, {"idle", "recheck"}, thread[w].row)
<1>1. Returned(w) \in Thread
  BY BetweenType, AtRowType DEF Returned
<1>2. Returned(w).pc \in {"idle", "recheck"}
  BY BetweenType, AtRowType DEF Returned
<1>3. Returned(w).pc = "recheck" => Returned(w).row = thread[w].row
  BY BetweenType, AtRowType DEF Returned
<1> QED
  BY <1>1, <1>2, <1>3 DEF MovesTo, Resting

LEMMA ClaimMoves ==
  ASSUME TypeOK, NEW w \in Workers, Claim(w)
  PROVE  MovesTo(w, {"handle"}, thread[w].row)
<1> DEFINE t == [thread[w] EXCEPT !.pc = "handle", !.copy = "running"]
<1>1. thread' = [thread EXCEPT ![w] = t]
  BY DEF Claim
<1>2. thread[w] \in Thread
  BY DEF TypeOK
<1>3. t \in Thread /\ t.pc = "handle" /\ t.row = thread[w].row
  BY <1>2 DEF Thread
<1> QED
  BY <1>1, <1>3 DEF MovesTo

LEMMA DecidedMoves ==
  ASSUME TypeOK, NEW w \in Workers, NEW o \in Outcomes,
         thread' = [thread EXCEPT ![w] = [@ EXCEPT !.pc = "save", !.verdict = o]]
  PROVE  MovesTo(w, {"save"}, thread[w].row)
<1> DEFINE t == [thread[w] EXCEPT !.pc = "save", !.verdict = o]
<1>1. thread' = [thread EXCEPT ![w] = t]
  OBVIOUS
<1>2. thread[w] \in Thread
  BY DEF TypeOK
<1>3. t \in Thread /\ t.pc = "save" /\ t.row = thread[w].row /\ t.verdict = o
  BY <1>2 DEF Thread
<1> QED
  BY <1>1, <1>3 DEF MovesTo

LEMMA HandleMoves ==
  ASSUME TypeOK, NEW w \in Workers, Handle(w)
  PROVE  MovesTo(w, {"recover", "save"}, thread[w].row)
<1> DEFINE k == kind[thread[w].row]
<1>1. CASE k \in Recoverable
  <2>1. Goto(w, "recover")
    BY <1>1 DEF Handle
  <2> QED
    BY <2>1, GotoMoves DEF MovesTo
<1>2. CASE k \notin Recoverable
  <2>1. Settled(k) \in Outcomes
    BY DEF Settled
  <2>2. thread' = [thread EXCEPT ![w] = [@ EXCEPT !.pc = "save", !.verdict = Settled(k)]]
    BY <1>2 DEF Handle
  <2> QED
    BY <2>1, <2>2, DecidedMoves DEF MovesTo
<1> QED
  BY <1>1, <1>2

LEMMA RecoverMoves ==
  ASSUME TypeOK, NEW w \in Workers, Recover(w)
  PROVE  MovesTo(w, {"save"}, thread[w].row)
<1>1. PICK o \in Outcomes :
        thread' = [thread EXCEPT ![w] = [@ EXCEPT !.pc = "save", !.verdict = o]]
  BY DEF Recover
<1> QED
  BY <1>1, DecidedMoves

LEMMA RecheckMoves ==
  ASSUME TypeOK, NEW w \in Workers, Recheck(w)
  PROVE  /\ MovesTo(w, {"fail", "loop"}, thread[w].row)
         /\ thread'[w].pc = "fail" => MustFail(w)
<1>1. CASE MustFail(w)
  <2>1. Goto(w, "fail")
    BY <1>1 DEF Recheck
  <2> QED
    BY <1>1, <2>1, GotoMoves DEF MovesTo
<1>2. CASE ~MustFail(w)
  <2>1. thread' = [thread EXCEPT ![w] = Between("loop")]
    BY <1>2 DEF Recheck
  <2>2. MovesTo(w, {"loop"}, thread[w].row)
    BY <2>1, BetweenMoves DEF Resting
  <2> QED
    BY <2>2, AfterMove DEF MovesTo
<1> QED
  BY <1>1, <1>2

LEMMA AcquireMoves ==
  ASSUME TypeOK, AtHand, NEW w \in Workers, Acquire(w)
  PROVE  MovesTo(w, {"idle", "recheck", "claim"}, thread[w].row)
<1>1. CASE Overtaken(w)
  <2>1. thread' = [thread EXCEPT ![w] = Returned(w)]
    BY <1>1 DEF Acquire
  <2>2. thread[w].row \in Notifs
    BY DEF Acquire, AtHand
  <2> QED
    BY <2>1, <2>2, ReturnedMoves DEF MovesTo
<1>2. CASE ~Overtaken(w)
  <2>1. Goto(w, "claim")
    BY <1>2 DEF Acquire
  <2> QED
    BY <2>1, GotoMoves DEF MovesTo
<1> QED
  BY <1>1, <1>2

LEMMA TakeListedMoves ==
  ASSUME TypeOK, NEW w \in Workers, NEW n \in Notifs, TakeListed(w, n)
  PROVE  MovesTo(w, {"lock", "recheck"}, n)
<1>1. batch[w][n] \in Listing
  BY DEF TypeOK
<1> DEFINE l == [pc |-> "lock", row |-> n, copy |-> batch[w][n], verdict |-> None]
           r == [Between("recheck") EXCEPT !.row = n]
<1>2. l \in Thread /\ l.pc = "lock" /\ l.row = n
  BY <1>1 DEF Thread
<1>3. r \in Thread /\ r.pc = "recheck" /\ r.row = n
  BY AtRowType
<1>4. thread' = [thread EXCEPT ![w] = l] \/ thread' = [thread EXCEPT ![w] = r]
  BY DEF TakeListed
<1> QED
  BY <1>2, <1>3, <1>4 DEF MovesTo

LEMMA DeliverMoves ==
  ASSUME TypeOK, NEW w \in Workers, NEW n \in Notifs, Deliver(w, n)
  PROVE  /\ MovesTo(w, {"lock", "ignore"}, n)
         /\ thread'[w].pc = "ignore" => ~enabled
<1> DEFINE t == [pc |-> IF enabled THEN "lock" ELSE "ignore",
                 row |-> n, copy |-> "new", verdict |-> None]
<1>1. t \in Thread /\ t.row = n /\ t.pc \in {"lock", "ignore"}
  BY DEF Thread
<1>2. t.pc = "ignore" => ~enabled
  OBVIOUS
<1>3. thread' = [thread EXCEPT ![w] = t]
  BY DEF Deliver
<1>4. MovesTo(w, {"lock", "ignore"}, n)
  BY <1>1, <1>3 DEF MovesTo
<1>5. thread'[w] = t
  BY <1>3 DEF TypeOK
<1> QED
  BY <1>2, <1>4, <1>5

LEMMA FindStaleMoves ==
  ASSUME NEW w \in Workers, NEW n \in Notifs, FindStale(w, n)
  PROVE  MovesTo(w, {"stale"}, n)
<1> DEFINE t == [Between("stale") EXCEPT !.row = n]
<1>1. t \in Thread /\ t.pc = "stale" /\ t.row = n
  BY AtRowType
<1>2. thread' = [thread EXCEPT ![w] = t]
  BY DEF FindStale
<1> HIDE DEF t
<1> QED
  BY <1>1, <1>2 DEF MovesTo

LEMMA UnwindMoves ==
  ASSUME TypeOK, NEW w \in Workers, Unwind(w)
  PROVE  /\ MovesTo(w, {"idle"}, thread[w].row)
         /\ thread'[w].pc = "idle"
         /\ batch'[w] = NoBatch
<1>1. thread' = [thread EXCEPT ![w] = Between("idle")]
  BY DEF Unwind
<1>2. MovesTo(w, {"idle"}, thread[w].row)
  BY <1>1, BetweenMoves DEF Resting
<1>3. thread'[w].pc = "idle"
  BY <1>2, AfterMove
<1>4. batch'[w] = NoBatch
  BY DEF Unwind, TypeOK
<1> QED
  BY <1>2, <1>3, <1>4

LEMMA SetBackType ==
  ASSUME TypeOK, NEW W, SetBack(W)
  PROVE  setbacks' \in [Notifs -> Nat]
BY DEF TypeOK, SetBack

-----------------------------------------------------------------------------
(* Types.                                                                   *)

LEMMA EnvironmentTypeOK == TypeOK /\ EnvironmentStep => TypeOK'
<1> SUFFICES ASSUME TypeOK, EnvironmentStep PROVE TypeOK'
  OBVIOUS
<1>1. ASSUME NEW n \in Notifs, NEW cast \in BOOLEAN, Create(n, cast) PROVE TypeOK'
  BY <1>1 DEF TypeOK, Create
<1>2. CASE Tick
  BY <1>2 DEF TypeOK, Tick, Aging
<1>3. ASSUME NEW u \in {"segment"} \cup Hosts, BeginUpdate(u) PROVE TypeOK'
  BY <1>3 DEF TypeOK, BeginUpdate
<1>4. CASE SaveSegment
  BY <1>4 DEF TypeOK, SaveSegment
<1>5. ASSUME NEW h \in Hosts, SaveHost(h) PROVE TypeOK'
  BY <1>5 DEF TypeOK, SaveHost
<1>6. ASSUME NEW e \in Engines, Crash(e) PROVE TypeOK'
  <2>1. setbacks' \in [Notifs -> Nat]
    BY <1>6, SetBackType DEF Crash
  <2> QED
    BY <1>6, <2>1, BetweenType, NoBatchType DEF TypeOK, Crash, db
<1> QED
  BY <1>1, <1>2, <1>3, <1>4, <1>5, <1>6 DEF EnvironmentStep

LEMMA EngineTypeOK == TypeOK /\ AtHand /\ EngineStep => TypeOK'
<1> SUFFICES ASSUME TypeOK, AtHand, NEW w \in Workers,
                    \/ Continue(w) \/ Acquire(w)
                    \/ StartUnfinished(w) \/ StartExpired(w) \/ DatabaseFails(w)
                    \/ \E n \in Notifs : Deliver(w, n) \/ FindStale(w, n)
             PROVE  TypeOK'
  BY DEF EngineStep
<1>1. CASE Ignore(w)
  BY <1>1, BetweenType DEF TypeOK, Ignore
<1>2. CASE Claim(w)
  <2>1. thread' \in [Workers -> Thread]
    BY <1>2, ClaimMoves, AfterMove
  <2>2. status' \in [Notifs -> Status]
    <3>1. status' = [status EXCEPT ![thread[w].row] = "running"]
      BY <1>2 DEF Claim
    <3> QED
      BY <3>1 DEF TypeOK
  <2>3. runs' \in [Notifs -> Nat]
    <3> DEFINE r == thread[w].row
               k == IF runs[r] < RunCap THEN runs[r] + 1 ELSE runs[r]
    <3>1. runs' = [runs EXCEPT ![r] = k]
      BY <1>2 DEF Claim
    <3>2. r \in Notifs => k \in Nat
      BY DEF TypeOK
    <3> HIDE DEF k, r
    <3> QED
      BY <3>1, <3>2 DEF TypeOK
  <2>4. UNCHANGED <<src, kind, age, onMaintenance, enabled, update, casts, lock,
                    batch, setbacks, crashes, updates, faults>>
    BY <1>2 DEF Claim
  <2> QED
    BY <2>1, <2>2, <2>3, <2>4 DEF TypeOK
<1>3. CASE Handle(w)
  <2>1. thread' \in [Workers -> Thread]
    BY <1>3, HandleMoves, AfterMove
  <2>2. onMaintenance' \in [Hosts -> BOOLEAN]
    BY <1>3 DEF TypeOK, Handle
  <2> QED
    BY <1>3, <2>1, <2>2 DEF TypeOK, Handle
<1>4. CASE Recover(w)
  <2>1. thread' \in [Workers -> Thread]
    BY <1>4, RecoverMoves, AfterMove
  <2> QED
    BY <1>4, <2>1 DEF TypeOK, Recover, db
<1>5. CASE Save(w)
  <2>1. thread' \in [Workers -> Thread]
    BY <1>5, ReturnedMoves, AfterMove DEF Save, AtHand
  <2> QED
    BY <1>5, <2>1 DEF TypeOK, AtHand, Save, Leave
<1>a. ASSUME Unwind(w)
      PROVE  /\ thread' \in [Workers -> Thread]
             /\ batch' \in [Workers -> [Notifs -> Listing]]
             /\ lock' \in [Engines -> [Hosts -> Workers \cup {NoWorker}]]
  <2>1. thread' \in [Workers -> Thread]
    BY <1>a, UnwindMoves, AfterMove
  <2>2. batch' \in [Workers -> [Notifs -> Listing]]
    BY <1>a, NoBatchType DEF Unwind, TypeOK
  <2>3. lock' \in [Engines -> [Hosts -> Workers \cup {NoWorker}]]
    <3>1. CASE thread[w].pc \in Holding
      <4>1. Leave(w) /\ thread[w].row \in Notifs
        BY <1>a, <3>1 DEF Unwind, AtHand
      <4> QED
        BY <4>1 DEF TypeOK, Leave
    <3>2. CASE thread[w].pc \notin Holding
      BY <1>a, <3>2 DEF Unwind, TypeOK
    <3> QED
      BY <3>1, <3>2
  <2> QED
    BY <2>1, <2>2, <2>3
<1>6. CASE HandlerDies(w)
  <2>1. Unwind(w)
    BY <1>6 DEF HandlerDies
  <2> QED
    BY <1>6, <1>a, <2>1 DEF TypeOK, HandlerDies, db
<1>16. CASE DatabaseFails(w)
  <2>1. Unwind(w) /\ SetBack({w})
    BY <1>16 DEF DatabaseFails
  <2>2. setbacks' \in [Notifs -> Nat]
    BY <2>1, SetBackType
  <2> QED
    BY <1>16, <1>a, <2>1, <2>2 DEF TypeOK, DatabaseFails, db
<1>17. ASSUME NEW n \in Notifs, FindStale(w, n) PROVE TypeOK'
  <2>1. thread' \in [Workers -> Thread]
    BY <1>17, FindStaleMoves, AfterMove
  <2> QED
    BY <1>17, <2>1 DEF TypeOK, FindStale, db
<1>18. CASE Reconcile(w)
  <2>1. thread' \in [Workers -> Thread]
    BY <1>18, BetweenMoves, AfterMove DEF Reconcile, Resting
  <2>2. setbacks' \in [Notifs -> Nat]
    <3>1. thread[w].row \in Notifs
      BY <1>18 DEF Reconcile, AtHand
    <3>2. setbacks' = [setbacks EXCEPT ![thread[w].row] = @ + 1]
      BY <1>18 DEF Reconcile
    <3> QED
      BY <3>1, <3>2 DEF TypeOK
  <2> QED
    BY <1>18, <2>1, <2>2 DEF TypeOK, Reconcile
<1>7. CASE Recheck(w)
  <2>1. thread' \in [Workers -> Thread]
    BY <1>7, RecheckMoves, AfterMove
  <2> QED
    BY <1>7, <2>1 DEF TypeOK, Recheck, db
<1>8. CASE Fail(w)
  BY <1>8, BetweenType DEF TypeOK, Fail
<1>9. CASE EndBatch(w)
  BY <1>9, BetweenType DEF TypeOK, EndBatch, db
<1>10. ASSUME NEW n \in Notifs, TakeListed(w, n) PROVE TypeOK'
  <2>1. thread' \in [Workers -> Thread]
    BY <1>10, TakeListedMoves, AfterMove
  <2> QED
    BY <1>10, <2>1 DEF TypeOK, TakeListed, db
<1>11. ASSUME NEW n \in Notifs, ExpireListed(w, n) PROVE TypeOK'
  BY <1>11 DEF TypeOK, ExpireListed, Expired
<1>12. CASE Acquire(w)
  <2>1. thread' \in [Workers -> Thread]
    BY <1>12, AcquireMoves, AfterMove
  <2>2. \/ UNCHANGED lock
        \/ lock' = [lock EXCEPT ![EngineOf[w]][src[thread[w].row]] = w]
    BY <1>12 DEF Acquire
  <2>3. lock' \in [Engines -> [Hosts -> Workers \cup {NoWorker}]]
    <3> DEFINE e == EngineOf[w]
               h == src[thread[w].row]
    <3>1. CASE lock' = [lock EXCEPT ![e][h] = w]
      <4>1. [lock[e] EXCEPT ![h] = w] \in [Hosts -> Workers \cup {NoWorker}]
        BY DEF TypeOK
      <4>2. lock' = [lock EXCEPT ![e] = [lock[e] EXCEPT ![h] = w]]
        BY <3>1
      <4> HIDE DEF e, h
      <4> QED
        BY <4>1, <4>2 DEF TypeOK
    <3> QED
      BY <2>2, <3>1 DEF TypeOK
  <2> QED
    BY <1>12, <2>1, <2>3 DEF TypeOK, Acquire, db
<1>13. CASE StartUnfinished(w)
  <2>1. thread' \in [Workers -> Thread]
    BY <1>13, GotoMoves, AfterMove DEF StartUnfinished
  <2> QED
    BY <1>13, <2>1 DEF TypeOK, StartUnfinished, ListRows, Retried, db
<1>14. CASE StartExpired(w)
  <2>1. thread' \in [Workers -> Thread]
    BY <1>14, GotoMoves, AfterMove DEF StartExpired
  <2> QED
    BY <1>14, <2>1 DEF TypeOK, StartExpired, ListRows, Expirable, db
<1>15. ASSUME NEW n \in Notifs, Deliver(w, n) PROVE TypeOK'
  <2>1. thread' \in [Workers -> Thread]
    BY <1>15, DeliverMoves, AfterMove
  <2> QED
    BY <1>15, <2>1 DEF TypeOK, Deliver, db
<1> QED
  BY <1>1, <1>2, <1>3, <1>4, <1>5, <1>6, <1>7, <1>8, <1>9, <1>10, <1>11, <1>12,
     <1>13, <1>14, <1>15, <1>16, <1>17, <1>18 DEF Continue

-----------------------------------------------------------------------------
(* The parts of the invariant about rows and their history.                 *)

RowInv == AtHand /\ History /\ NewIsUntouched /\ VerdictHasACause

\* A thread moves and nothing the invariant reads changes: it suffices that
\* the thread may be where it arrives.
LEMMA QuietMove ==
  ASSUME TypeOK, RowInv, NEW w \in Workers, NEW P, NEW n, MovesTo(w, P, n),
         UNCHANGED <<status, age, enabled, update, runs, updates>>,
         P \subseteq Resting \/ n \in Notifs,
         P \cap {"handle", "recover", "save", "fail", "stale"} = {}
           \/ runs[n] > 0 \/ thread'[w].pc \in Resting,
         thread'[w].pc = "ignore" => updates > 0
  PROVE  RowInv'
<1>1. /\ thread'[w].pc \in P
      /\ thread'[w].pc \notin Resting => thread'[w].row = n
      /\ thread'[w].pc = "save" => thread'[w].verdict \in Outcomes
      /\ \A v \in Workers \ {w} : thread'[v] = thread[v]
  BY AfterMove
<1>2. AtHand'
  BY <1>1 DEF RowInv, AtHand, Resting
<1>3. thread'[w].pc \in {"handle", "recover", "save", "fail", "stale"} =>
        thread'[w].row = n /\ runs[n] > 0
  BY <1>1 DEF Resting
<1>4. History'
  BY <1>1, <1>3 DEF RowInv, History
<1>5. NewIsUntouched'
  BY <1>1, <1>3 DEF RowInv, NewIsUntouched, TypeOK
<1>6. VerdictHasACause'
  BY DEF RowInv, VerdictHasACause
<1> QED
  BY <1>2, <1>4, <1>5, <1>6 DEF RowInv

\* No thread moves and one row gets a status for which there is a cause.
LEMMA RowChange ==
  ASSUME TypeOK, RowInv, NEW n \in Notifs, NEW s \in Status,
         status' = [status EXCEPT ![n] = s],
         UNCHANGED <<thread, age, enabled, update, runs, updates>>,
         s # "absent", s = "new" => status[n] = "absent",
         s \in {"running", "finished", "error"} => runs[n] > 0,
         s = "failed" => runs[n] > 0 \/ age[n] >= ExpiryAge,
         s = "ignored" => runs[n] > 0 \/ updates > 0
  PROVE  RowInv'
<1>1. AtHand'
  BY DEF RowInv, AtHand
<1>2. History'
  BY DEF RowInv, History
<1>3. NewIsUntouched'
  BY DEF RowInv, NewIsUntouched, TypeOK
<1>4. VerdictHasACause'
  BY DEF RowInv, VerdictHasACause, TypeOK
<1> QED
  BY <1>1, <1>2, <1>3, <1>4 DEF RowInv

\* A thread saves a verdict and comes to rest or goes to recheck the row.
LEMMA SavedVerdict ==
  ASSUME TypeOK, RowInv, NEW w \in Workers, NEW n \in Notifs,
         NEW s \in Outcomes \cup {"failed"},
         status' = [status EXCEPT ![n] = s],
         NEW P \in SUBSET (Resting \cup {"recheck"}), MovesTo(w, P, n),
         UNCHANGED <<age, enabled, update, runs, updates>>,
         runs[n] > 0 \/ (s = "ignored" /\ updates > 0)
  PROVE  RowInv'
<1>1. /\ thread'[w].pc \in Resting \cup {"recheck"}
      /\ thread'[w].pc \notin Resting => thread'[w].row = n
      /\ \A v \in Workers \ {w} : thread'[v] = thread[v]
  BY AfterMove
<1>2. AtHand'
  BY <1>1 DEF RowInv, AtHand, Resting
<1>3. History'
  BY <1>1 DEF RowInv, History, Resting
<1>4. NewIsUntouched'
  <2>1. \A m \in Notifs :
          status'[m] \in {"absent", "new"} => m # n /\ status'[m] = status[m]
    BY DEF TypeOK
  <2>2. thread'[w].pc \notin Holding
    BY <1>1 DEF Resting
  <2> QED
    BY <1>1, <2>1, <2>2 DEF RowInv, NewIsUntouched
<1>5. VerdictHasACause'
  BY DEF RowInv, VerdictHasACause, TypeOK
<1> QED
  BY <1>2, <1>3, <1>4, <1>5 DEF RowInv

LEMMA EnvironmentRowInv == TypeOK /\ RowInv /\ EnvironmentStep => RowInv'
<1> SUFFICES ASSUME TypeOK, RowInv, EnvironmentStep PROVE RowInv'
  OBVIOUS
<1>1. ASSUME NEW n \in Notifs, NEW cast \in BOOLEAN, Create(n, cast) PROVE RowInv'
  BY <1>1, RowChange DEF Create
<1>2. CASE Tick
  <2>1. \A n \in Notifs : age'[n] >= age[n]
    BY <1>2 DEF Tick, Aging, TypeOK
  <2>2. AtHand' /\ History' /\ NewIsUntouched'
    BY <1>2 DEF Tick, RowInv, AtHand, History, NewIsUntouched
  <2>3. VerdictHasACause'
    BY <1>2, <2>1 DEF Tick, Aging, RowInv, VerdictHasACause, TypeOK
  <2> QED
    BY <2>2, <2>3 DEF RowInv
<1>3. ASSUME NEW u \in {"segment"} \cup Hosts, BeginUpdate(u) PROVE RowInv'
  <2>1. updates' > 0 /\ UNCHANGED <<status, thread, runs, age, enabled>>
    BY <1>3 DEF BeginUpdate, TypeOK
  <2>2. AtHand' /\ NewIsUntouched'
    BY <2>1 DEF RowInv, AtHand, NewIsUntouched
  <2>3. History' /\ VerdictHasACause'
    BY <2>1 DEF RowInv, History, VerdictHasACause
  <2> QED
    BY <2>2, <2>3 DEF RowInv
<1>4. CASE SaveSegment
  <2>1. updates > 0
    BY <1>4 DEF SaveSegment, RowInv, History
  <2>2. AtHand' /\ NewIsUntouched' /\ VerdictHasACause'
    BY <1>4 DEF SaveSegment, RowInv, AtHand, NewIsUntouched, VerdictHasACause
  <2>3. History'
    BY <1>4, <2>1 DEF SaveSegment, RowInv, History
  <2> QED
    BY <2>2, <2>3 DEF RowInv
<1>5. ASSUME NEW h \in Hosts, SaveHost(h) PROVE RowInv'
  <2>1. UNCHANGED <<status, thread, runs, age, enabled, updates>> /\ update' = "idle"
    BY <1>5 DEF SaveHost
  <2> QED
    BY <2>1 DEF RowInv, AtHand, History, NewIsUntouched, VerdictHasACause
<1>6. ASSUME NEW e \in Engines, Crash(e) PROVE RowInv'
  <2>1. UNCHANGED <<status, runs, age, enabled, update, updates>>
    BY <1>6 DEF Crash, db
  <2>2. \A w \in Workers : thread'[w] = thread[w] \/ thread'[w].pc = "idle"
    BY <1>6, BetweenType DEF Crash
  <2>3. AtHand' /\ History'
    BY <2>1, <2>2 DEF RowInv, AtHand, History
  <2>4. NewIsUntouched' /\ VerdictHasACause'
    BY <2>1, <2>2 DEF RowInv, NewIsUntouched, VerdictHasACause
  <2> QED
    BY <2>3, <2>4 DEF RowInv
<1> QED
  BY <1>1, <1>2, <1>3, <1>4, <1>5, <1>6 DEF EnvironmentStep

LEMMA EngineRowInv == TypeOK /\ RowInv /\ EngineStep => RowInv'
<1> SUFFICES ASSUME TypeOK, RowInv, NEW w \in Workers,
                    \/ Continue(w) \/ Acquire(w)
                    \/ StartUnfinished(w) \/ StartExpired(w) \/ DatabaseFails(w)
                    \/ \E n \in Notifs : Deliver(w, n) \/ FindStale(w, n)
             PROVE  RowInv'
  BY DEF EngineStep
<1> DEFINE n == thread[w].row
<1>0. /\ AtHand
      /\ thread[w].pc \notin Resting => n \in Notifs
      /\ thread[w].pc \in {"handle", "recover", "save", "fail", "stale"} => runs[n] > 0
  BY DEF RowInv, AtHand, History, Resting
<1>1. CASE Ignore(w)
  <2>1. MovesTo(w, {"idle"}, n) /\ updates > 0
    BY <1>1, BetweenMoves DEF Ignore, Resting, RowInv, History
  <2> QED
    BY <1>0, <1>1, <2>1, SavedVerdict DEF Ignore, Resting
<1>2. CASE Claim(w)
  <2>1. /\ thread'[w].pc = "handle" /\ thread'[w].row = n
        /\ \A v \in Workers \ {w} : thread'[v] = thread[v]
    BY <1>2, ClaimMoves, AfterMove DEF Resting
  <2>2. n \in Notifs /\ runs'[n] > 0 /\ \A m \in Notifs \ {n} : runs'[m] = runs[m]
    BY <1>0, <1>2 DEF Claim, TypeOK, Resting
  <2>3. status'[n] = "running" /\ \A m \in Notifs \ {n} : status'[m] = status[m]
    BY <1>2, <2>2 DEF Claim, TypeOK
  <2>4. UNCHANGED <<age, enabled, update, updates>>
    BY <1>2 DEF Claim
  <2>5. AtHand'
    BY <2>1, <2>2 DEF RowInv, AtHand
  <2>6. History'
    BY <2>1, <2>2, <2>4, <1>0 DEF RowInv, History, AtHand
  <2>7. NewIsUntouched'
    BY <2>1, <2>2, <2>3 DEF RowInv, NewIsUntouched
  <2>8. VerdictHasACause'
    BY <2>2, <2>3, <2>4 DEF RowInv, VerdictHasACause
  <2> QED
    BY <2>5, <2>6, <2>7, <2>8 DEF RowInv
<1>3. CASE Handle(w)
  <2>1. MovesTo(w, {"recover", "save"}, n)
    BY <1>3, HandleMoves
  <2>2. thread'[w].pc # "ignore"
    BY <2>1, AfterMove
  <2>3. n \in Notifs /\ runs[n] > 0
    BY <1>0, <1>3 DEF Handle, Resting
  <2>4. UNCHANGED <<status, age, enabled, update, runs, updates>>
    BY <1>3 DEF Handle
  <2> QED
    BY <2>1, <2>2, <2>3, <2>4, QuietMove
<1>4. CASE Recover(w)
  <2>1. MovesTo(w, {"save"}, n)
    BY <1>4, RecoverMoves
  <2>2. thread'[w].pc # "ignore"
    BY <2>1, AfterMove
  <2>3. n \in Notifs /\ runs[n] > 0
    BY <1>0, <1>4 DEF Recover, Resting
  <2>4. UNCHANGED <<status, age, enabled, update, runs, updates>>
    BY <1>4 DEF Recover, db
  <2> QED
    BY <2>1, <2>2, <2>3, <2>4, QuietMove
<1>5. CASE Save(w)
  <2>1. MovesTo(w, {"idle", "recheck"}, n)
    BY <1>0, <1>5, ReturnedMoves DEF Save, Resting
  <2>2. thread[w].verdict \in Outcomes
    BY <1>0, <1>5 DEF Save, AtHand
  <2> QED
    BY <1>0, <1>5, <2>1, <2>2, SavedVerdict DEF Save, Resting
<1>6. CASE HandlerDies(w) \/ DatabaseFails(w)
  <2>1. MovesTo(w, {"idle"}, n)
    BY <1>6, UnwindMoves DEF HandlerDies, DatabaseFails
  <2>2. thread'[w].pc # "ignore"
    BY <2>1, AfterMove
  <2> QED
    BY <1>6, <2>1, <2>2, QuietMove DEF HandlerDies, DatabaseFails, Resting, db
<1>16. CASE DatabaseFails(w)
  BY <1>6, <1>16
<1>17. ASSUME NEW m \in Notifs, FindStale(w, m) PROVE RowInv'
  <2>1. MovesTo(w, {"stale"}, m)
    BY <1>17, FindStaleMoves
  <2>2. thread'[w].pc # "ignore"
    BY <2>1, AfterMove
  <2>3. runs[m] > 0
    BY <1>17 DEF FindStale, RowInv, VerdictHasACause
  <2> QED
    BY <1>17, <2>1, <2>2, <2>3, QuietMove DEF FindStale, db
<1>18. CASE Reconcile(w)
  <2>1. MovesTo(w, {"idle"}, n)
    BY <1>18, BetweenMoves DEF Reconcile, Resting
  <2> QED
    BY <1>0, <1>18, <2>1, SavedVerdict DEF Reconcile, Resting
<1>7. CASE Recheck(w)
  <2>1. MovesTo(w, {"fail", "loop"}, n) /\ (thread'[w].pc = "fail" => MustFail(w))
    BY <1>7, RecheckMoves
  <2>2. n \in Notifs
    BY <1>0, <1>7 DEF Recheck, Resting
  <2>3. MustFail(w) => runs[n] > 0
    BY <2>2 DEF MustFail, RowInv, VerdictHasACause
  <2>4. thread'[w].pc \in {"fail", "loop"}
    BY <2>1, AfterMove
  <2> QED
    BY <1>7, <2>1, <2>2, <2>3, <2>4, QuietMove DEF Recheck, Resting, db
<1>8. CASE Fail(w)
  <2>1. MovesTo(w, {"loop"}, n)
    BY <1>8, BetweenMoves DEF Fail, Resting
  <2> QED
    BY <1>0, <1>8, <2>1, SavedVerdict DEF Fail, Resting
<1>9. CASE EndBatch(w)
  <2>1. MovesTo(w, {"idle"}, n)
    BY <1>9, BetweenMoves DEF EndBatch, Resting
  <2>2. thread'[w].pc # "ignore"
    BY <2>1, AfterMove
  <2> QED
    BY <1>9, <2>1, <2>2, QuietMove DEF EndBatch, Resting, db
<1>10. ASSUME NEW m \in Notifs, TakeListed(w, m) PROVE RowInv'
  <2>1. MovesTo(w, {"lock", "recheck"}, m)
    BY <1>10, TakeListedMoves
  <2>2. thread'[w].pc # "ignore"
    BY <2>1, AfterMove
  <2> QED
    BY <1>10, <2>1, <2>2, QuietMove DEF TakeListed, db
<1>11. ASSUME NEW m \in Notifs, ExpireListed(w, m) PROVE RowInv'
  <2>1. CASE Expired(m)
    BY <1>11, <2>1, RowChange DEF ExpireListed, Expired
  <2>2. CASE ~Expired(m)
    <3>1. UNCHANGED <<status, thread, age, enabled, update, runs, updates>>
      BY <1>11, <2>2 DEF ExpireListed
    <3> QED
      BY <3>1 DEF RowInv, AtHand, History, NewIsUntouched, VerdictHasACause
  <2> QED
    BY <2>1, <2>2
<1>12. CASE Acquire(w)
  <2>1. MovesTo(w, {"idle", "recheck", "claim"}, n)
    BY <1>0, <1>12, AcquireMoves
  <2>2. thread'[w].pc # "ignore"
    BY <2>1, AfterMove
  <2> QED
    BY <1>0, <1>12, <2>1, <2>2, QuietMove DEF Acquire, Resting, db
<1>13. CASE StartUnfinished(w)
  <2>1. MovesTo(w, {"loop"}, n)
    BY <1>13, GotoMoves DEF StartUnfinished
  <2>2. thread'[w].pc # "ignore"
    BY <2>1, AfterMove
  <2> QED
    BY <1>13, <2>1, <2>2, QuietMove DEF StartUnfinished, Resting, db
<1>14. CASE StartExpired(w)
  <2>1. MovesTo(w, {"expire"}, n)
    BY <1>14, GotoMoves DEF StartExpired
  <2>2. thread'[w].pc # "ignore"
    BY <2>1, AfterMove
  <2> QED
    BY <1>14, <2>1, <2>2, QuietMove DEF StartExpired, Resting, db
<1>15. ASSUME NEW m \in Notifs, Deliver(w, m) PROVE RowInv'
  <2>1. MovesTo(w, {"lock", "ignore"}, m) /\ (thread'[w].pc = "ignore" => ~enabled)
    BY <1>15, DeliverMoves
  <2>2. thread'[w].pc = "ignore" => updates > 0
    BY <2>1 DEF RowInv, History
  <2> QED
    BY <1>15, <2>1, <2>2, QuietMove DEF Deliver, db
<1> QED
  BY <1>1, <1>2, <1>3, <1>4, <1>5, <1>6, <1>7, <1>8, <1>9, <1>10, <1>11, <1>12,
     <1>13, <1>14, <1>15, <1>16, <1>17, <1>18 DEF Continue

-----------------------------------------------------------------------------
(* The host lock.                                                           *)

\* The lock is left alone and the moving thread stays inside, or outside, the
\* part of the code it protects.
LEMMA LockUntouched ==
  ASSUME TypeOK, LockMatchesHolder, NEW w \in Workers, NEW P, NEW n,
         MovesTo(w, P, n), UNCHANGED <<lock, src>>,
         \/ thread[w].pc \notin Holding /\ P \cap Holding = {}
         \/ thread[w].pc \in Holding /\ P \subseteq Holding /\ n = thread[w].row
  PROVE  LockMatchesHolder'
<1>1. /\ thread'[w].pc \in P
      /\ thread'[w].pc \notin Resting => thread'[w].row = n
      /\ \A v \in Workers \ {w} : thread'[v] = thread[v]
  BY AfterMove
<1>2. /\ thread'[w].pc \in Holding <=> thread[w].pc \in Holding
      /\ thread'[w].pc \in Holding => thread'[w].row = thread[w].row
  BY <1>1 DEF Resting
<1> QED
  BY <1>1, <1>2 DEF LockMatchesHolder

\* The holder leaves.
LEMMA LockLeft ==
  ASSUME TypeOK, AtHand, LockMatchesHolder, NEW w \in Workers, NEW P, NEW n,
         MovesTo(w, P, n), P \cap Holding = {}, thread[w].pc \in Holding,
         Leave(w), UNCHANGED src
  PROVE  LockMatchesHolder'
<1> DEFINE e == EngineOf[w]
           h == src[thread[w].row]
<1>1. /\ thread'[w].pc \notin Holding
      /\ \A v \in Workers \ {w} : thread'[v] = thread[v]
  BY AfterMove
<1>2. e \in Engines /\ h \in Hosts /\ lock[e][h] = w
  <2>1. thread[w].row \in Notifs
    BY DEF AtHand, Holding
  <2>2. e \in Engines /\ h \in Hosts
    BY <2>1 DEF TypeOK
  <2> QED
    BY <2>2 DEF LockMatchesHolder
<1>3. /\ lock'[e][h] = NoWorker
      /\ \A f \in Engines, g \in Hosts :
           f # e \/ g # h => lock'[f][g] = lock[f][g]
  BY <1>2 DEF Leave, TypeOK
<1>4. SUFFICES ASSUME NEW f \in Engines, NEW g \in Hosts, NEW v \in Workers
               PROVE  lock'[f][g] = v <=> /\ EngineOf[v] = f
                                          /\ thread'[v].pc \in Holding
                                          /\ src[thread'[v].row] = g
  BY DEF LockMatchesHolder
<1>5. CASE f = e /\ g = h
  <2>1. lock'[f][g] # v
    BY <1>3, <1>5
  <2>2. v # w => ~(EngineOf[v] = f /\ thread[v].pc \in Holding /\ src[thread[v].row] = g)
    BY <1>2, <1>5 DEF LockMatchesHolder
  <2> QED
    BY <1>1, <2>1, <2>2
<1>6. CASE f # e \/ g # h
  <2>1. lock'[f][g] = lock[f][g]
    BY <1>3, <1>6
  <2>2. v = w => lock[f][g] # v
    BY <1>6 DEF LockMatchesHolder
  <2> QED
    BY <1>1, <2>1, <2>2 DEF LockMatchesHolder
<1> QED
  BY <1>5, <1>6

\* A thread takes the free lock, unless it finds that it was overtaken.
LEMMA LockTaken ==
  ASSUME TypeOK, AtHand, LockMatchesHolder, NEW w \in Workers, Acquire(w)
  PROVE  LockMatchesHolder'
<1> DEFINE e == EngineOf[w]
           h == src[thread[w].row]
<1>1. /\ thread'[w].pc \in {"idle", "recheck", "claim"}
      /\ thread'[w].pc \notin Resting => thread'[w].row = thread[w].row
      /\ \A v \in Workers \ {w} : thread'[v] = thread[v]
  BY AcquireMoves, AfterMove
<1>2. e \in Engines /\ h \in Hosts /\ lock[e][h] = NoWorker
  BY DEF Acquire, HostLock, TypeOK, AtHand
<1>3. thread[w].pc = "lock" /\ src' = src
  BY DEF Acquire, db
<1>4. CASE Overtaken(w)
  <2>1. thread' = [thread EXCEPT ![w] = Returned(w)] /\ UNCHANGED lock
    BY <1>4 DEF Acquire
  <2>2. thread[w].row \in Notifs
    BY <1>3 DEF AtHand
  <2>3. MovesTo(w, {"idle", "recheck"}, thread[w].row)
    BY <2>1, <2>2, ReturnedMoves
  <2> QED
    BY <1>3, <2>1, <2>3, LockUntouched
<1>5. CASE ~Overtaken(w)
  <2>1. Goto(w, "claim") /\ lock' = [lock EXCEPT ![e][h] = w]
    BY <1>5 DEF Acquire
  <2>2. thread'[w].pc = "claim"
    <3>1. MovesTo(w, {"claim"}, thread[w].row)
      BY <2>1, GotoMoves
    <3> QED
      BY <3>1, AfterMove
  <2>3. /\ lock'[e][h] = w
        /\ \A f \in Engines, g \in Hosts :
             f # e \/ g # h => lock'[f][g] = lock[f][g]
    BY <1>2, <2>1 DEF TypeOK
  <2>4. SUFFICES ASSUME NEW f \in Engines, NEW g \in Hosts, NEW v \in Workers
                 PROVE  lock'[f][g] = v <=> /\ EngineOf[v] = f
                                            /\ thread'[v].pc \in Holding
                                            /\ src[thread'[v].row] = g
    BY <1>3 DEF LockMatchesHolder
  <2>5. CASE v = w
    <3>1. lock[f][g] # w
      BY <1>3 DEF LockMatchesHolder
    <3>2. thread'[w].row = thread[w].row
      BY <1>1, <2>2 DEF Resting
    <3> QED
      BY <2>2, <2>3, <2>5, <3>1, <3>2
  <2>6. CASE v # w
    <3>1. thread'[v] = thread[v]
      BY <1>1, <2>6
    <3>2. CASE f = e /\ g = h
      BY <1>2, <2>3, <2>6, <3>1, <3>2 DEF LockMatchesHolder
    <3>3. CASE f # e \/ g # h
      BY <2>3, <3>1, <3>3 DEF LockMatchesHolder
    <3> QED
      BY <3>2, <3>3
  <2> QED
    BY <2>5, <2>6
<1> QED
  BY <1>4, <1>5

LEMMA EngineLock ==
  TypeOK /\ AtHand /\ LockMatchesHolder /\ EngineStep => LockMatchesHolder'
<1> SUFFICES ASSUME TypeOK, AtHand, LockMatchesHolder, NEW w \in Workers,
                    \/ Continue(w) \/ Acquire(w)
                    \/ StartUnfinished(w) \/ StartExpired(w) \/ DatabaseFails(w)
                    \/ \E n \in Notifs : Deliver(w, n) \/ FindStale(w, n)
             PROVE  LockMatchesHolder'
  BY DEF EngineStep
<1> DEFINE n == thread[w].row
<1>1. CASE Ignore(w)
  BY <1>1, BetweenMoves, LockUntouched DEF Ignore, Resting
<1>2. CASE Claim(w)
  BY <1>2, ClaimMoves, LockUntouched DEF Claim
<1>3. CASE Handle(w)
  <2>1. thread[w].pc = "handle" /\ UNCHANGED <<lock, src>>
    BY <1>3 DEF Handle
  <2> QED
    BY <1>3, <2>1, HandleMoves, LockUntouched
<1>4. CASE Recover(w)
  BY <1>4, RecoverMoves, LockUntouched DEF Recover, db
<1>5. CASE Save(w)
  <2>1. thread[w].row \in Notifs
    BY <1>5 DEF Save, AtHand
  <2> QED
    BY <1>5, <2>1, ReturnedMoves, LockLeft DEF Save
<1>6. ASSUME Unwind(w), UNCHANGED src PROVE LockMatchesHolder'
  <2>1. MovesTo(w, {"idle"}, n)
    BY <1>6, UnwindMoves
  <2>2. CASE thread[w].pc \in Holding
    <3>1. Leave(w)
      BY <1>6, <2>2 DEF Unwind
    <3> QED
      BY <1>6, <2>1, <2>2, <3>1, LockLeft
  <2>3. CASE thread[w].pc \notin Holding
    <3>1. UNCHANGED lock
      BY <1>6, <2>3 DEF Unwind
    <3> QED
      BY <1>6, <2>1, <2>3, <3>1, LockUntouched
  <2> QED
    BY <2>2, <2>3
<1>16. CASE HandlerDies(w) \/ DatabaseFails(w)
  BY <1>6, <1>16 DEF HandlerDies, DatabaseFails, db
<1>17. ASSUME NEW m \in Notifs, FindStale(w, m) PROVE LockMatchesHolder'
  BY <1>17, FindStaleMoves, LockUntouched DEF FindStale, db
<1>18. CASE Reconcile(w)
  BY <1>18, BetweenMoves, LockUntouched DEF Reconcile, Resting
<1>7. CASE Recheck(w)
  BY <1>7, RecheckMoves, LockUntouched DEF Recheck, db
<1>8. CASE Fail(w)
  BY <1>8, BetweenMoves, LockUntouched DEF Fail, Resting
<1>9. CASE EndBatch(w)
  BY <1>9, BetweenMoves, LockUntouched DEF EndBatch, Resting, db
<1>10. ASSUME NEW m \in Notifs, TakeListed(w, m) PROVE LockMatchesHolder'
  BY <1>10, TakeListedMoves, LockUntouched DEF TakeListed, db
<1>11. ASSUME NEW m \in Notifs, ExpireListed(w, m) PROVE LockMatchesHolder'
  BY <1>11 DEF ExpireListed, LockMatchesHolder
<1>12. CASE Acquire(w)
  BY <1>12, LockTaken
<1>13. CASE StartUnfinished(w)
  <2>1. MovesTo(w, {"loop"}, n)
    BY <1>13, GotoMoves DEF StartUnfinished
  <2> QED
    BY <1>13, <2>1, LockUntouched DEF StartUnfinished, db
<1>14. CASE StartExpired(w)
  <2>1. MovesTo(w, {"expire"}, n)
    BY <1>14, GotoMoves DEF StartExpired
  <2> QED
    BY <1>14, <2>1, LockUntouched DEF StartExpired, db
<1>15. ASSUME NEW m \in Notifs, Deliver(w, m) PROVE LockMatchesHolder'
  BY <1>15, DeliverMoves, LockUntouched DEF Deliver, db
<1> QED
  BY <1>1, <1>2, <1>3, <1>4, <1>5, <1>6, <1>7, <1>8, <1>9, <1>10, <1>11, <1>12,
     <1>13, <1>14, <1>15, <1>16, <1>17, <1>18 DEF Continue

LEMMA EnvironmentLock ==
  TypeOK /\ LockMatchesHolder /\ EnvironmentStep => LockMatchesHolder'
<1> SUFFICES ASSUME TypeOK, LockMatchesHolder, EnvironmentStep
             PROVE  LockMatchesHolder'
  OBVIOUS
<1>1. ASSUME NEW e \in Engines, Crash(e) PROVE LockMatchesHolder'
  <2>1. UNCHANGED src
    BY <1>1 DEF Crash, db
  <2>2. \A w \in Workers : IF EngineOf[w] = e THEN thread'[w].pc = "idle"
                            ELSE thread'[w] = thread[w]
    BY <1>1, BetweenType DEF Crash
  <2>3. \A h \in Hosts : lock'[e][h] = NoWorker
    BY <1>1 DEF Crash, TypeOK
  <2>4. \A f \in Engines \ {e}, h \in Hosts : lock'[f][h] = lock[f][h]
    BY <1>1 DEF Crash, TypeOK
  <2> QED
    BY <2>1, <2>2, <2>3, <2>4 DEF LockMatchesHolder
<1>2. CASE ~\E e \in Engines : Crash(e)
  <2>1. UNCHANGED <<lock, thread, src>>
    BY <1>2 DEF EnvironmentStep, Create, Tick, BeginUpdate, SaveSegment, SaveHost
  <2> QED
    BY <2>1 DEF LockMatchesHolder
<1> QED
  BY <1>1, <1>2

-----------------------------------------------------------------------------
(* Theorems.                                                                *)

LEMMA NextIInv == IInv /\ [Next]_vars => IInv'
<1> SUFFICES ASSUME IInv, [Next]_vars PROVE IInv'
  OBVIOUS
<1>1. TypeOK /\ RowInv
  BY DEF IInv, RowInv
<1>2. CASE EnvironmentStep
  BY <1>1, <1>2, EnvironmentTypeOK, EnvironmentRowInv DEF IInv, RowInv
<1>3. CASE EngineStep
  BY <1>1, <1>3, EngineTypeOK, EngineRowInv DEF IInv, RowInv
<1>4. CASE UNCHANGED vars
  BY <1>4 DEF vars, db, IInv, TypeOK, AtHand, History, NewIsUntouched,
              VerdictHasACause
<1> QED
  BY <1>2, <1>3, <1>4 DEF Next

\* The strengthened invariant holds in every reachable state of the engines.
THEOREM InductiveInvariant == Spec => []IInv
BY InitIInv, NextIInv, PTL DEF Spec

\* Every variable keeps its type: no path of _process_notification saves a
\* verdict the handler has not set.
THEOREM TypeCorrect == Spec => []TypeOK
BY InductiveInvariant, PTL DEF IInv

\* A row that reads NEW was touched by no thread of any engine.
THEOREM NewRowsAreUntouched == Spec => []NewIsUntouched
BY InductiveInvariant, PTL DEF IInv

\* No row is FINISHED or in ERROR without a recovery, FAILED without one or
\* expiry, IGNORED without a handler or a disabled segment.
THEOREM VerdictsHaveCauses == Spec => []VerdictHasACause
BY InductiveInvariant, PTL DEF IInv

\* Each engine's lock on a host is held by exactly the thread that is between
\* reading a row of that host and saving its verdict.
THEOREM LocksMatchHolders == Spec => []LockMatchesHolder
<1>1. Init => LockMatchesHolder
  BY BetweenType DEF Init, LockMatchesHolder
<1>2. IInv /\ LockMatchesHolder /\ [Next]_vars => LockMatchesHolder'
  <2>1. UNCHANGED vars /\ LockMatchesHolder => LockMatchesHolder'
    BY DEF vars, db, LockMatchesHolder
  <2> QED
    BY <2>1, EngineLock, EnvironmentLock DEF Next, IInv
<1> QED
  BY <1>1, <1>2, InductiveInvariant, PTL DEF Spec

-----------------------------------------------------------------------------
(* One engine: how often a row is recovered.  A recovery that an RPC        *)
(* handler begins can be followed by a retry; the periodic thread rechecks  *)
(* the row after its own and saves FAILED if it reads ERROR.                *)

OneEngine   == \A v, w \in Workers : EngineOf[v] = EngineOf[w]
OnePeriodic == \A v, w \in Periodic : v = w

AtRow(w, n, P) == thread[w].pc \in P /\ thread[w].row = n

Begun == { "handle", "recover", "save" }

\* The copy a thread decides from: the message says NEW, the list what it
\* filters for; a row is taken off the list before it is processed.
CopyOf(w) ==
  IF w \in Periodic
    THEN /\ thread[w].pc \in {"lock", "claim"} => thread[w].copy \in {"new", "error"}
         /\ thread[w].pc # "expire" => \A n \in Notifs : batch[w][n] # "running"
         /\ thread[w].pc \notin Resting => batch[w][thread[w].row] = None
         /\ thread[w].pc \in {"idle", "stale"} => batch[w] = NoBatch
         /\ thread[w].pc # "ignore"
    ELSE /\ thread[w].pc \notin {"loop", "recheck", "fail", "expire", "stale"}
         /\ thread[w].pc \in {"lock", "claim"} => thread[w].copy = "new"

Copies == \A w \in Workers : CopyOf(w)

\* A recovery of the row may follow that a copy in ERROR, or its status, asks for.
RetryAhead(n) ==
  \/ \E v \in Workers \ Periodic : AtRow(v, n, Begun)
  \/ \E w \in Periodic :
       batch[w][n] = "error" \/ (AtRow(w, n, {"lock", "claim"}) /\ thread[w].copy = "error")
  \/ status[n] = "error" /\ ~\E w \in Periodic : AtRow(w, n, {"recheck", "fail"})

BudgetOf(n) ==
  /\ \A w \in Workers : AtRow(w, n, {"claim"}) /\ thread[w].copy = "new" => runs[n] = 0
  /\ RetryAhead(n) => runs[n] <= 1 + setbacks[n]
  /\ runs[n] <= 2 + setbacks[n]

Budget == \A n \in Notifs : BudgetOf(n)

OnceInv == IInv /\ LockMatchesHolder /\ Copies /\ Budget

\* what a thread decides from when it goes to the lock and past it
LEMMA CopySteps ==
  ASSUME TypeOK, NEW w \in Workers
  PROVE  /\ Acquire(w) /\ thread'[w].pc = "claim" =>
              thread'[w].copy = thread[w].copy /\ thread'[w].row = thread[w].row /\ ~Overtaken(w)
         /\ \A n \in Notifs : Deliver(w, n) => thread'[w].copy = "new"
         /\ \A n \in Notifs : TakeListed(w, n) /\ thread'[w].pc = "lock" =>
              thread'[w].copy = batch[w][n]
<1>1. thread[w] \in Thread /\ thread \in [Workers -> Thread]
  BY DEF TypeOK
<1>2. ASSUME Acquire(w), thread'[w].pc = "claim"
      PROVE  thread'[w].copy = thread[w].copy /\ thread'[w].row = thread[w].row /\ ~Overtaken(w)
  <2>1. ASSUME Overtaken(w) PROVE FALSE
    <3>1. thread' = [thread EXCEPT ![w] = Returned(w)]
      BY <1>2, <2>1 DEF Acquire
    <3>2. thread'[w] = Returned(w)
      BY <1>1, <3>1
    <3> QED
      BY <1>2, <3>2 DEF Returned, Between
  <2>2. Goto(w, "claim")
    BY <1>2, <2>1 DEF Acquire
  <2> QED
    BY <1>1, <2>1, <2>2 DEF Goto, Thread
<1>3. ASSUME NEW n \in Notifs, Deliver(w, n) PROVE thread'[w].copy = "new"
  BY <1>1, <1>3 DEF Deliver
<1>4. ASSUME NEW n \in Notifs, TakeListed(w, n), thread'[w].pc = "lock"
      PROVE  thread'[w].copy = batch[w][n]
  BY <1>1, <1>4 DEF TakeListed, Between
<1> QED
  BY <1>2, <1>3, <1>4

\* nobody else's listing changes
LEMMA Listings ==
  ASSUME TypeOK, NEW w \in Workers,
         \/ Continue(w) \/ Acquire(w) \/ StartUnfinished(w) \/ StartExpired(w)
         \/ DatabaseFails(w)
         \/ \E n \in Notifs : Deliver(w, n) \/ FindStale(w, n)
  PROVE  \A v \in Workers \ {w} : batch'[v] = batch[v] /\ thread'[v] = thread[v]
<1>1. batch \in [Workers -> [Notifs -> Listing]] /\ thread \in [Workers -> Thread]
  BY DEF TypeOK
<1>2. batch' = batch \/ \E b : batch' = [batch EXCEPT ![w] = b]
  BY <1>1
  DEF Continue, Ignore, Claim, Handle, Recover, Save, HandlerDies, Recheck, Fail, EndBatch,
      TakeListed, ExpireListed, Acquire, StartUnfinished, StartExpired, Deliver, ListRows,
      DatabaseFails, Unwind, FindStale, Reconcile
<1>3. thread' = thread \/ \E t : thread' = [thread EXCEPT ![w] = t]
  BY <1>1
  DEF Continue, Ignore, Claim, Handle, Recover, Save, HandlerDies, Recheck, Fail, EndBatch,
      TakeListed, ExpireListed, Acquire, StartUnfinished, StartExpired, Deliver, Goto,
      DatabaseFails, Unwind, FindStale, Reconcile
<1> QED
  BY <1>1, <1>2, <1>3

LEMMA ReturnedTo ==
  ASSUME TypeOK, NEW w \in Workers, thread' = [thread EXCEPT ![w] = Returned(w)]
  PROVE  thread'[w].pc = IF w \in Periodic THEN "recheck" ELSE "idle"
<1>1. thread'[w] = Returned(w)
  BY DEF TypeOK
<1> QED
  BY <1>1 DEF Returned, Between

LEMMA CopyStep ==
  ASSUME TypeOK, AtHand, NEW w \in Workers, CopyOf(w),
         \/ Continue(w) \/ Acquire(w) \/ StartUnfinished(w) \/ StartExpired(w)
         \/ DatabaseFails(w)
         \/ \E n \in Notifs : Deliver(w, n) \/ FindStale(w, n)
  PROVE  CopyOf(w)'
<1> DEFINE n == thread[w].row
<1>0. batch \in [Workers -> [Notifs -> Listing]] /\ (thread[w].pc \notin Resting => n \in Notifs)
  BY DEF TypeOK, AtHand, Resting
<1>1. CASE Ignore(w)
  <2>1. MovesTo(w, {"idle"}, n) /\ thread[w].pc = "ignore"
    BY <1>1, BetweenMoves DEF Ignore, Resting
  <2> QED
    BY <2>1, AfterMove DEF CopyOf
<1>2. CASE Claim(w)
  <2>1. MovesTo(w, {"handle"}, n) /\ thread[w].pc = "claim" /\ batch' = batch
    BY <1>2, ClaimMoves DEF Claim
  <2> QED
    BY <2>1, AfterMove DEF CopyOf, Resting
<1>3. CASE Handle(w)
  <2>1. MovesTo(w, {"recover", "save"}, n) /\ thread[w].pc = "handle" /\ batch' = batch
    BY <1>3, HandleMoves DEF Handle
  <2> QED
    BY <2>1, AfterMove DEF CopyOf, Resting
<1>4. CASE Recover(w)
  <2>1. MovesTo(w, {"save"}, n) /\ thread[w].pc = "recover" /\ batch' = batch
    BY <1>4, RecoverMoves DEF Recover
  <2> QED
    BY <2>1, AfterMove DEF CopyOf, Resting
<1>5. CASE Save(w)
  <2>1. /\ thread' = [thread EXCEPT ![w] = Returned(w)] /\ thread[w].pc = "save"
        /\ batch' = batch /\ n \in Notifs
    BY <1>0, <1>5 DEF Save, Resting
  <2>2. MovesTo(w, {"idle", "recheck"}, n)
    BY <2>1, ReturnedMoves
  <2>3. thread'[w].pc = IF w \in Periodic THEN "recheck" ELSE "idle"
    BY <2>1, ReturnedTo
  <2>4. thread'[w].pc \notin Resting => thread'[w].row = n
    BY <2>2, AfterMove
  <2> QED
    BY <2>1, <2>3, <2>4 DEF CopyOf, Resting
<1>6. CASE HandlerDies(w) \/ DatabaseFails(w)
  <2>1. batch'[w] = NoBatch /\ thread'[w].pc = "idle"
    BY <1>6, UnwindMoves DEF HandlerDies, DatabaseFails
  <2> QED
    BY <2>1 DEF CopyOf, Resting, NoBatch
<1>16. CASE DatabaseFails(w)
  BY <1>6, <1>16
<1>17. ASSUME NEW m \in Notifs, FindStale(w, m) PROVE CopyOf(w)'
  <2>1. /\ MovesTo(w, {"stale"}, m) /\ w \in Periodic /\ thread[w].pc = "idle"
        /\ batch' = batch
    BY <1>17, FindStaleMoves DEF FindStale
  <2>2. thread'[w].pc = "stale" /\ batch'[w] = NoBatch
    BY <2>1, AfterMove DEF CopyOf
  <2>3. thread'[w].row = m
    BY <2>1, <2>2, AfterMove DEF Resting
  <2> QED
    BY <2>1, <2>2, <2>3 DEF CopyOf, Resting, NoBatch
<1>18. CASE Reconcile(w)
  <2>1. MovesTo(w, {"idle"}, n) /\ thread[w].pc = "stale" /\ batch' = batch
    BY <1>18, BetweenMoves DEF Reconcile, Resting
  <2>2. thread'[w].pc = "idle"
    BY <2>1, AfterMove
  <2> QED
    BY <2>1, <2>2 DEF CopyOf, Resting, NoBatch
<1>7. CASE Recheck(w)
  <2>1. MovesTo(w, {"fail", "loop"}, n) /\ thread[w].pc = "recheck" /\ batch' = batch
    BY <1>7, RecheckMoves DEF Recheck
  <2> QED
    BY <2>1, AfterMove DEF CopyOf, Resting
<1>8. CASE Fail(w)
  <2>1. MovesTo(w, {"loop"}, n) /\ thread[w].pc = "fail" /\ batch' = batch
    BY <1>8, BetweenMoves DEF Fail, Resting
  <2> QED
    BY <2>1, AfterMove DEF CopyOf, Resting
<1>9. CASE EndBatch(w)
  <2>1. /\ MovesTo(w, {"idle"}, n) /\ thread[w].pc \in {"loop", "expire"}
        /\ batch' = batch /\ batch[w] = NoBatch
    BY <1>9, BetweenMoves DEF EndBatch, Resting
  <2> QED
    BY <2>1, AfterMove DEF CopyOf, Resting, NoBatch
<1>10. ASSUME NEW m \in Notifs, TakeListed(w, m) PROVE CopyOf(w)'
  <2>1. /\ MovesTo(w, {"lock", "recheck"}, m) /\ thread[w].pc = "loop"
        /\ batch' = [batch EXCEPT ![w][m] = None] /\ batch[w][m] # None
    BY <1>10, TakeListedMoves DEF TakeListed
  <2>2. /\ thread'[w].pc \in {"lock", "recheck"} /\ thread'[w].row = m
        /\ thread'[w].pc = "lock" => thread'[w].copy = batch[w][m]
    BY <1>10, <2>1, AfterMove, CopySteps DEF Resting
  <2>3. /\ batch'[w][m] = None /\ batch[w][m] \in Listing
        /\ \A k \in Notifs : batch'[w][k] = "running" => batch[w][k] = "running"
    BY <1>0, <2>1
  <2> QED
    BY <2>1, <2>2, <2>3 DEF CopyOf
<1>11. ASSUME NEW m \in Notifs, ExpireListed(w, m) PROVE CopyOf(w)'
  BY <1>11 DEF ExpireListed, CopyOf, Resting
<1>12. CASE Acquire(w)
  <2>1. thread[w].pc = "lock" /\ batch' = batch /\ n \in Notifs
    BY <1>0, <1>12 DEF Acquire, Resting
  <2>2. MovesTo(w, {"idle", "recheck", "claim"}, n)
    BY <1>12, AcquireMoves
  <2>3. thread'[w].pc = "claim" \/ thread'[w].pc = IF w \in Periodic THEN "recheck" ELSE "idle"
    <3>1. CASE Overtaken(w)
      BY <1>12, <3>1, ReturnedTo DEF Acquire
    <3>2. CASE ~Overtaken(w)
      <4>1. MovesTo(w, {"claim"}, n)
        BY <1>12, <3>2, GotoMoves DEF Acquire
      <4> QED
        BY <4>1, AfterMove
    <3> QED
      BY <3>1, <3>2
  <2>4. thread'[w].pc = "claim" => thread'[w].copy = thread[w].copy
    BY <1>12, CopySteps
  <2>5. thread'[w].pc \notin Resting => thread'[w].row = n
    BY <2>2, AfterMove
  <2> QED
    BY <2>1, <2>3, <2>4, <2>5 DEF CopyOf, Resting
<1>13. CASE StartUnfinished(w)
  <2>1. MovesTo(w, {"loop"}, n) /\ w \in Periodic
    BY <1>13, GotoMoves DEF StartUnfinished
  <2>2. \A m \in Notifs : batch'[w][m] # "running"
    BY <1>0, <1>13 DEF StartUnfinished, ListRows, Retried
  <2> QED
    BY <2>1, <2>2, AfterMove DEF CopyOf, Resting
<1>14. CASE StartExpired(w)
  <2>1. MovesTo(w, {"expire"}, n) /\ w \in Periodic
    BY <1>14, GotoMoves DEF StartExpired
  <2> QED
    BY <2>1, AfterMove DEF CopyOf, Resting
<1>15. ASSUME NEW m \in Notifs, Deliver(w, m) PROVE CopyOf(w)'
  <2>1. MovesTo(w, {"lock", "ignore"}, m) /\ w \notin Periodic /\ thread'[w].copy = "new"
    BY <1>15, DeliverMoves, CopySteps DEF Deliver
  <2> QED
    BY <2>1, AfterMove DEF CopyOf
<1> QED
  BY <1>1, <1>2, <1>3, <1>4, <1>5, <1>6, <1>7, <1>8, <1>9, <1>10, <1>11, <1>12, <1>13, <1>14,
     <1>15, <1>16, <1>17, <1>18 DEF Continue

\* A step of w asks for no recovery of n that was not ahead before.
LEMMA NoNewRetry ==
  ASSUME TypeOK, OnePeriodic, NEW n \in Notifs, NEW w \in Workers,
         \A v \in Workers \ {w} : batch'[v] = batch[v] /\ thread'[v] = thread[v],
         w \notin Periodic /\ AtRow(w, n, Begun)' => AtRow(w, n, Begun),
         w \in Periodic /\ batch'[w][n] = "error" =>
           batch[w][n] = "error" \/ (thread[w].pc = "idle" /\ status[n] = "error"),
         w \in Periodic /\ AtRow(w, n, {"lock", "claim"})' /\ thread'[w].copy = "error" =>
           batch[w][n] = "error" \/ (AtRow(w, n, {"lock", "claim"}) /\ thread[w].copy = "error"),
         status'[n] = "error" => status[n] = "error" \/ AtRow(w, n, {"save"}),
         w \in Periodic /\ status'[n] = "error" /\ AtRow(w, n, {"recheck", "fail", "save"}) =>
           (status[n] = "error" /\ AtRow(w, n, {"save"})) \/ AtRow(w, n, {"recheck", "fail"})',
         RetryAhead(n)'
  PROVE  RetryAhead(n)
<1>1. CASE \E v \in Workers \ Periodic : AtRow(v, n, Begun)'
  BY <1>1 DEF RetryAhead, AtRow
<1>2. ASSUME NEW u \in Periodic,
             \/ batch'[u][n] = "error"
             \/ AtRow(u, n, {"lock", "claim"})' /\ thread'[u].copy = "error"
      PROVE  RetryAhead(n)
  <2>1. CASE u # w
    BY <1>2, <2>1 DEF RetryAhead, AtRow
  <2>2. CASE u = w
    <3>1. \/ batch[w][n] = "error" \/ (AtRow(w, n, {"lock", "claim"}) /\ thread[w].copy = "error")
          \/ thread[w].pc = "idle" /\ status[n] = "error"
      BY <1>2, <2>2
    <3>2. CASE thread[w].pc = "idle" /\ status[n] = "error"
      <4>1. \A v \in Periodic : ~AtRow(v, n, {"recheck", "fail"})
        BY <2>2, <3>2 DEF OnePeriodic, AtRow
      <4> QED
        BY <3>2, <4>1 DEF RetryAhead
    <3> QED
      BY <1>2, <2>2, <3>1, <3>2 DEF RetryAhead
  <2> QED
    BY <2>1, <2>2
<1>3. ASSUME status'[n] = "error", \A v \in Periodic : ~AtRow(v, n, {"recheck", "fail"})'
      PROVE  RetryAhead(n)
  <2>1. CASE status[n] = "error" /\ \A v \in Periodic : ~AtRow(v, n, {"recheck", "fail"})
    BY <2>1 DEF RetryAhead
  <2>2. ASSUME NEW v \in Periodic, AtRow(v, n, {"recheck", "fail"})
        PROVE  FALSE
    <3>1. v = w
      BY <1>3, <2>2 DEF AtRow
    <3> QED
      BY <1>3, <2>2, <3>1 DEF AtRow
  <2>3. CASE AtRow(w, n, {"save"}) /\ status[n] # "error"
    <3>1. w \notin Periodic
      BY <1>3, <2>3 DEF AtRow
    <3> QED
      BY <2>3, <3>1 DEF RetryAhead, AtRow, Begun
  <2> QED
    BY <1>3, <2>1, <2>2, <2>3
<1> QED
  BY <1>1, <1>2, <1>3 DEF RetryAhead

\* A step that begins no recovery keeps to the budget.
LEMMA Unspent ==
  ASSUME TypeOK, NEW n \in Notifs, BudgetOf(n),
         runs'[n] = runs[n], setbacks'[n] = setbacks[n],
         NEW w \in Workers, \A v \in Workers \ {w} : thread'[v] = thread[v],
         AtRow(w, n, {"claim"})' /\ thread'[w].copy = "new" => runs[n] = 0,
         RetryAhead(n)' => RetryAhead(n)
  PROVE  BudgetOf(n)'
BY DEF BudgetOf, AtRow

\* A row that is set back has one more recovery in its budget.
LEMMA SetBackBudget ==
  ASSUME TypeOK, NEW n \in Notifs, BudgetOf(n),
         runs'[n] = runs[n], setbacks'[n] = setbacks[n] + 1,
         \A v \in Workers : thread'[v] = thread[v] \/ thread'[v].pc = "idle"
  PROVE  BudgetOf(n)'
<1>1. \A v \in Workers :
        AtRow(v, n, {"claim"})' /\ thread'[v].copy = "new" => runs'[n] = 0
  BY DEF BudgetOf, AtRow
<1>2. runs'[n] <= 1 + setbacks'[n] /\ runs'[n] <= 2 + setbacks'[n]
  <2>1. runs[n] \in Nat /\ setbacks[n] \in Nat /\ runs[n] <= 2 + setbacks[n]
    BY DEF TypeOK, BudgetOf
  <2> QED
    BY <2>1
<1> QED
  BY <1>1, <1>2 DEF BudgetOf

\* Two threads of one engine are never past the lock with the same row.
LEMMA Alone ==
  ASSUME TypeOK, AtHand, LockMatchesHolder, OneEngine, NEW v \in Workers, NEW w \in Workers,
         thread[v].pc \in Holding, thread[w].pc \in Holding, thread[v].row = thread[w].row
  PROVE  v = w
<1>1. EngineOf[v] = EngineOf[w] /\ EngineOf[w] \in Engines
  BY DEF OneEngine
<1>2. src[thread[w].row] \in Hosts
  BY DEF TypeOK, AtHand
<1> QED
  BY <1>1, <1>2 DEF LockMatchesHolder

LEMMA ClaimBudget ==
  ASSUME OnceInv, OneEngine, OnePeriodic, NEW w \in Workers, Claim(w), NEW n \in Notifs
  PROVE  BudgetOf(n)'
<1>1. TypeOK /\ AtHand /\ LockMatchesHolder /\ CopyOf(w) /\ BudgetOf(n)
  BY DEF OnceInv, IInv, Copies, Budget
<1> DEFINE m == thread[w].row
<1>2. m \in Notifs /\ thread[w].pc = "claim"
  BY <1>1 DEF Claim, AtHand
<1>3. /\ status' = [status EXCEPT ![m] = "running"] /\ batch' = batch /\ setbacks' = setbacks
      /\ runs' = [runs EXCEPT ![m] = IF @ < RunCap THEN @ + 1 ELSE @]
  BY DEF Claim
<1>4. /\ thread'[w].pc = "handle" /\ thread'[w].row = m
      /\ \A v \in Workers \ {w} : thread'[v] = thread[v]
  BY <1>1, ClaimMoves, AfterMove DEF Resting
<1>5. runs[n] \in Nat /\ setbacks[n] \in Nat /\ runs \in [Notifs -> Nat]
  BY <1>1 DEF TypeOK
<1>6. CASE n # m
  <2>1. runs'[n] = runs[n] /\ status'[n] = status[n]
    BY <1>1, <1>2, <1>3, <1>5, <1>6 DEF TypeOK
  <2>2. ~AtRow(w, n, {"claim", "handle", "recover", "save", "lock", "recheck", "fail"})'
    BY <1>4, <1>6 DEF AtRow
  <2>3. ~AtRow(w, n, {"recheck", "fail", "save"})
    BY <1>2 DEF AtRow
  <2>4. RetryAhead(n)' => RetryAhead(n)
    BY <1>1, <1>3, <1>4, <2>1, <2>2, <2>3, NoNewRetry DEF AtRow, Begun
  <2> QED
    BY <1>1, <1>3, <1>4, <2>1, <2>2, <2>4 DEF BudgetOf, AtRow
<1>7. CASE n = m
  <2>1. runs'[n] <= runs[n] + 1 /\ runs'[n] \in Nat /\ status'[n] = "running"
    BY <1>1, <1>2, <1>3, <1>5, <1>7 DEF TypeOK
  <2>2. ASSUME NEW v \in Workers, AtRow(v, n, Holding)'
        PROVE  v = w
    BY <1>1, <1>2, <1>4, <1>7, <2>2, Alone DEF AtRow
  <2>3. \A v \in Workers : ~AtRow(v, n, {"claim"})'
    BY <1>4, <2>2 DEF AtRow
  <2>4. CASE thread[w].copy = "new"
    <3>1. runs[n] = 0
      BY <1>1, <1>2, <1>7, <2>4 DEF BudgetOf, AtRow
    <3>2. runs'[n] <= 1 + setbacks'[n] /\ runs'[n] <= 2 + setbacks'[n]
      BY <1>3, <1>5, <2>1, <3>1
    <3> QED
      BY <2>3, <3>2 DEF BudgetOf
  <2>5. CASE thread[w].copy # "new"
    <3>1. w \in Periodic /\ thread[w].copy = "error" /\ batch[w][n] = None
      BY <1>1, <1>2, <1>7, <2>5 DEF CopyOf, Resting
    <3>2. RetryAhead(n)
      BY <1>2, <1>7, <3>1 DEF RetryAhead, AtRow
    <3>3. runs'[n] <= 2 + setbacks'[n]
      BY <1>1, <1>3, <1>5, <2>1, <3>2 DEF BudgetOf
    <3>4. \A v \in Workers \ Periodic : ~AtRow(v, n, Begun)'
      BY <2>2, <3>1 DEF AtRow, Begun
    <3>5. \A u \in Periodic : u = w
      BY <3>1 DEF OnePeriodic
    <3>6. ~RetryAhead(n)'
      BY <1>3, <1>4, <2>1, <3>1, <3>4, <3>5 DEF RetryAhead, AtRow
    <3> QED
      BY <2>3, <3>3, <3>6 DEF BudgetOf
  <2> QED
    BY <2>4, <2>5
<1> QED
  BY <1>6, <1>7

\* The two lemmas above in one: when a step other than Claim keeps to the budget.
LEMMA KeepsBudget ==
  ASSUME TypeOK, OnePeriodic, NEW n \in Notifs, NEW w \in Workers, BudgetOf(n),
         runs'[n] = runs[n], setbacks'[n] = setbacks[n],
         \A v \in Workers \ {w} : batch'[v] = batch[v] /\ thread'[v] = thread[v],
         AtRow(w, n, {"claim"})' /\ thread'[w].copy = "new" => runs[n] = 0,
         w \notin Periodic /\ AtRow(w, n, Begun)' => AtRow(w, n, Begun),
         w \in Periodic /\ batch'[w][n] = "error" =>
           batch[w][n] = "error" \/ (thread[w].pc = "idle" /\ status[n] = "error"),
         w \in Periodic /\ AtRow(w, n, {"lock", "claim"})' /\ thread'[w].copy = "error" =>
           batch[w][n] = "error" \/ (AtRow(w, n, {"lock", "claim"}) /\ thread[w].copy = "error"),
         status'[n] = "error" => status[n] = "error" \/ AtRow(w, n, {"save"}),
         w \in Periodic /\ status'[n] = "error" /\ AtRow(w, n, {"recheck", "fail", "save"}) =>
           (status[n] = "error" /\ AtRow(w, n, {"save"})) \/ AtRow(w, n, {"recheck", "fail"})'
  PROVE  BudgetOf(n)'
<1>1. ASSUME RetryAhead(n)' PROVE RetryAhead(n)
  BY <1>1, NoNewRetry
<1>2. \A v \in Workers \ {w} : thread'[v] = thread[v]
  OBVIOUS
<1> QED
  BY <1>1, <1>2, Unspent

\* the same for a step that keeps the listings and settles on none of the
\* points the budget looks at
LEMMA RestsInBudget ==
  ASSUME TypeOK, OnePeriodic, NEW n \in Notifs, NEW w \in Workers, BudgetOf(n),
         runs'[n] = runs[n], setbacks'[n] = setbacks[n],
         \A v \in Workers \ {w} : batch'[v] = batch[v] /\ thread'[v] = thread[v],
         \A m \in Notifs : batch'[w][m] = "error" => batch[w][m] = "error",
         thread'[w].pc \in Resting \cup {"lock", "ignore", "recheck", "fail", "stale"},
         thread'[w].pc = "lock" => w \notin Periodic,
         status'[n] = "error" => status[n] = "error" \/ AtRow(w, n, {"save"}),
         w \in Periodic /\ status'[n] = "error" /\ AtRow(w, n, {"recheck", "fail", "save"}) =>
           (status[n] = "error" /\ AtRow(w, n, {"save"})) \/ AtRow(w, n, {"recheck", "fail"})'
  PROVE  BudgetOf(n)'
<1>1. ~AtRow(w, n, {"claim"})' /\ ~AtRow(w, n, Begun)'
  BY DEF AtRow, Begun, Resting
<1>2. w \in Periodic => ~AtRow(w, n, {"lock", "claim"})'
  BY DEF AtRow, Resting
<1> QED
  BY <1>1, <1>2, KeepsBudget

\* Every step of the one engine's threads keeps to the budget of every row.
LEMMA EngineBudget ==
  ASSUME OnceInv, OneEngine, OnePeriodic, NEW n \in Notifs, NEW w \in Workers,
         \/ Continue(w) \/ Acquire(w) \/ StartUnfinished(w) \/ StartExpired(w)
         \/ DatabaseFails(w)
         \/ \E m \in Notifs : Deliver(w, m) \/ FindStale(w, m)
  PROVE  BudgetOf(n)'
<1> DEFINE m == thread[w].row
<1>0. TypeOK /\ AtHand /\ CopyOf(w) /\ BudgetOf(n) /\ NewIsUntouched
  BY DEF OnceInv, IInv, Copies, Budget
<1>a. /\ batch \in [Workers -> [Notifs -> Listing]] /\ status \in [Notifs -> Status]
      /\ thread[w].pc \notin Resting => m \in Notifs
  BY <1>0 DEF TypeOK, AtHand, Resting
<1>b. \A v \in Workers \ {w} : batch'[v] = batch[v] /\ thread'[v] = thread[v]
  BY <1>0, Listings
<1>1. CASE Ignore(w)
  <2>1. MovesTo(w, {"idle"}, m)
    BY <1>1, BetweenMoves DEF Ignore, Resting
  <2>2. /\ thread'[w].pc = "idle" /\ thread[w].pc = "ignore"
        /\ batch' = batch /\ UNCHANGED <<runs, setbacks>>
    BY <1>0, <1>1, <2>1, AfterMove DEF Ignore
  <2>3. status'[n] = "error" => status[n] = "error"
    BY <1>1, <1>a, <2>2 DEF Ignore, Resting
  <2> QED
    BY <1>0, <1>b, <2>2, <2>3, RestsInBudget DEF AtRow, Resting
<1>2. CASE Claim(w)
  BY <1>2, ClaimBudget
<1>3. CASE Handle(w)
  <2>1. MovesTo(w, {"recover", "save"}, m)
    BY <1>0, <1>3, HandleMoves
  <2>2. thread'[w].pc \in {"recover", "save"} /\ thread'[w].row = m
    BY <1>0, <2>1, AfterMove DEF Resting
  <2>3. thread[w].pc = "handle" /\ batch' = batch /\ UNCHANGED <<status, runs, setbacks>>
    BY <1>3 DEF Handle
  <2> QED
    BY <1>0, <1>b, <2>2, <2>3, KeepsBudget DEF AtRow, Begun
<1>4. CASE Recover(w)
  <2>1. MovesTo(w, {"save"}, m)
    BY <1>0, <1>4, RecoverMoves
  <2>2. thread'[w].pc \in {"save"} /\ thread'[w].row = m
    BY <1>0, <2>1, AfterMove DEF Resting
  <2>3. thread[w].pc = "recover" /\ batch' = batch /\ UNCHANGED <<status, runs, setbacks>>
    BY <1>4 DEF Recover, db
  <2> QED
    BY <1>0, <1>b, <2>2, <2>3, KeepsBudget DEF AtRow, Begun
<1>5. CASE Save(w)
  <2>1. /\ thread' = [thread EXCEPT ![w] = Returned(w)] /\ thread[w].pc = "save"
        /\ batch' = batch /\ m \in Notifs /\ UNCHANGED <<runs, setbacks>>
    BY <1>a, <1>5 DEF Save, Resting
  <2>2. MovesTo(w, {"idle", "recheck"}, m)
    BY <2>1, ReturnedMoves
  <2>3. thread'[w].pc = IF w \in Periodic THEN "recheck" ELSE "idle"
    BY <1>0, <2>1, ReturnedTo
  <2>4. thread'[w].pc \notin Resting => thread'[w].row = m
    BY <1>0, <2>2, AfterMove
  <2>5. status'[n] = "error" => status[n] = "error" \/ n = m
    BY <1>5, <1>a, <2>1 DEF Save
  <2> QED
    BY <1>0, <1>b, <2>1, <2>3, <2>4, <2>5, RestsInBudget DEF AtRow, Resting
<1>6. CASE HandlerDies(w)
  <2>1. Unwind(w)
    BY <1>6 DEF HandlerDies
  <2>2. thread'[w].pc = "idle" /\ batch'[w] = NoBatch
    BY <1>0, <2>1, UnwindMoves
  <2>3. thread[w].pc \in {"handle", "recover"} /\ UNCHANGED <<status, runs, setbacks>>
    BY <1>6 DEF HandlerDies, db
  <2>4. \A k \in Notifs : batch'[w][k] # "error"
    BY <2>2 DEF NoBatch
  <2> QED
    BY <1>0, <1>b, <2>2, <2>3, <2>4, RestsInBudget DEF AtRow, Resting
<1>16. CASE DatabaseFails(w)
  <2>1. Unwind(w) /\ SetBack({w})
    BY <1>16 DEF DatabaseFails
  <2>2. thread'[w].pc = "idle" /\ batch'[w] = NoBatch
    BY <1>0, <2>1, UnwindMoves
  <2>3. UNCHANGED <<status, runs>>
    BY <1>16 DEF DatabaseFails, db
  <2>4. CASE AtRow(w, n, {"recheck", "fail"})
    <3>1. setbacks'[n] = setbacks[n] + 1
      BY <2>1, <2>4 DEF SetBack, AtRow
    <3> QED
      BY <1>0, <1>b, <2>2, <2>3, <3>1, SetBackBudget
  <2>5. CASE ~AtRow(w, n, {"recheck", "fail"})
    <3>1. setbacks'[n] = setbacks[n]
      BY <2>1, <2>5 DEF SetBack, AtRow
    <3>2. \A k \in Notifs : batch'[w][k] # "error"
      BY <2>2 DEF NoBatch
    <3> QED
      BY <1>0, <1>b, <2>2, <2>3, <2>5, <3>1, <3>2, RestsInBudget DEF AtRow, Resting
  <2> QED
    BY <2>4, <2>5
<1>17. ASSUME NEW k \in Notifs, FindStale(w, k) PROVE BudgetOf(n)'
  <2>1. MovesTo(w, {"stale"}, k)
    BY <1>17, FindStaleMoves
  <2>2. thread'[w].pc = "stale"
    BY <1>0, <2>1, AfterMove
  <2>3. thread[w].pc = "idle" /\ batch' = batch /\ UNCHANGED <<status, runs, setbacks>>
    BY <1>17 DEF FindStale, db
  <2> QED
    BY <1>0, <1>b, <2>2, <2>3, RestsInBudget DEF AtRow, Resting
<1>18. CASE Reconcile(w)
  <2>1. MovesTo(w, {"idle"}, m)
    BY <1>18, BetweenMoves DEF Reconcile, Resting
  <2>2. thread'[w].pc = "idle"
    BY <1>0, <2>1, AfterMove
  <2>3. /\ thread[w].pc = "stale" /\ batch' = batch /\ runs' = runs /\ m \in Notifs
        /\ status' = [status EXCEPT ![m] = "error"]
        /\ setbacks' = [setbacks EXCEPT ![m] = @ + 1]
    BY <1>18, <1>a DEF Reconcile, Resting
  <2>4. setbacks \in [Notifs -> Nat]
    BY <1>0 DEF TypeOK
  <2>5. CASE n = m
    <3>1. setbacks'[n] = setbacks[n] + 1
      BY <2>3, <2>4, <2>5
    <3> QED
      BY <1>0, <1>b, <2>2, <2>3, <3>1, SetBackBudget
  <2>6. CASE n # m
    <3>1. setbacks'[n] = setbacks[n] /\ status'[n] = status[n]
      BY <1>a, <2>3, <2>4, <2>6
    <3> QED
      BY <1>0, <1>b, <2>2, <2>3, <3>1, RestsInBudget DEF AtRow, Resting
  <2> QED
    BY <2>5, <2>6
<1>7. CASE Recheck(w)
  <2>1. MovesTo(w, {"fail", "loop"}, m)
    BY <1>0, <1>7, RecheckMoves
  <2>2. /\ thread'[w].pc \in {"fail", "loop"}
        /\ thread'[w].pc = "fail" => thread'[w].row = m
    BY <1>0, <2>1, AfterMove DEF Resting
  <2>3. thread[w].pc = "recheck" /\ batch' = batch /\ UNCHANGED <<status, runs, setbacks>>
    BY <1>7 DEF Recheck, db
  <2>4. ASSUME status[m] = "error" PROVE thread'[w].pc = "fail"
    <3>1. Goto(w, "fail")
      BY <1>7, <2>4 DEF Recheck, MustFail
    <3>2. MovesTo(w, {"fail"}, m)
      BY <1>0, <3>1, GotoMoves
    <3> QED
      BY <1>0, <3>2, AfterMove
  <2> QED
    BY <1>0, <1>b, <2>2, <2>3, <2>4, RestsInBudget DEF AtRow, Resting
<1>8. CASE Fail(w)
  <2>1. MovesTo(w, {"loop"}, m)
    BY <1>8, BetweenMoves DEF Fail, Resting
  <2>2. /\ thread'[w].pc = "loop" /\ thread[w].pc = "fail"
        /\ batch' = batch /\ UNCHANGED <<runs, setbacks>>
    BY <1>0, <1>8, <2>1, AfterMove DEF Fail
  <2>3. status'[n] = "error" => status[n] = "error" /\ n # m
    BY <1>8, <1>a, <2>2 DEF Fail, Resting
  <2> QED
    BY <1>0, <1>b, <2>2, <2>3, RestsInBudget DEF AtRow, Resting
<1>9. CASE EndBatch(w)
  <2>1. MovesTo(w, {"idle"}, m)
    BY <1>9, BetweenMoves DEF EndBatch, Resting
  <2>2. thread'[w].pc = "idle"
    BY <1>0, <2>1, AfterMove
  <2>3. /\ thread[w].pc \in {"loop", "expire"} /\ batch' = batch
        /\ UNCHANGED <<status, runs, setbacks>>
    BY <1>9 DEF EndBatch, db
  <2> QED
    BY <1>0, <1>b, <2>2, <2>3, RestsInBudget DEF AtRow, Resting
<1>10. ASSUME NEW k \in Notifs, TakeListed(w, k) PROVE BudgetOf(n)'
  <2>1. MovesTo(w, {"lock", "recheck"}, k)
    BY <1>0, <1>10, TakeListedMoves
  <2>2. thread'[w].pc \in {"lock", "recheck"} /\ thread'[w].row = k
    BY <1>0, <2>1, AfterMove DEF Resting
  <2>3. thread'[w].pc = "lock" => thread'[w].copy = batch[w][k]
    BY <1>0, <1>10, CopySteps
  <2>4. thread[w].pc = "loop" /\ UNCHANGED <<status, runs, setbacks>>
    BY <1>10 DEF TakeListed, db
  <2>5. batch'[w][n] = "error" => batch[w][n] = "error"
    BY <1>10, <1>a DEF TakeListed
  <2> QED
    BY <1>0, <1>b, <2>2, <2>3, <2>4, <2>5, KeepsBudget DEF AtRow, Begun
<1>11. ASSUME NEW k \in Notifs, ExpireListed(w, k) PROVE BudgetOf(n)'
  <2>1. thread[w].pc = "expire" /\ UNCHANGED <<thread, runs, setbacks>>
    BY <1>11 DEF ExpireListed
  <2>2. \A j \in Notifs : batch'[w][j] = "error" => batch[w][j] = "error"
    BY <1>11, <1>a DEF ExpireListed
  <2>3. status'[n] = "error" => status[n] = "error"
    BY <1>11, <1>a DEF ExpireListed
  <2> QED
    BY <1>0, <1>b, <2>1, <2>2, <2>3, RestsInBudget DEF AtRow, Resting
<1>12. CASE Acquire(w)
  <2>1. /\ thread[w].pc = "lock" /\ batch' = batch /\ m \in Notifs
        /\ UNCHANGED <<status, runs, setbacks>>
    BY <1>a, <1>12 DEF Acquire, Resting, db
  <2>2. MovesTo(w, {"idle", "recheck", "claim"}, m)
    BY <1>0, <1>12, AcquireMoves
  <2>3. /\ thread'[w].pc \in {"idle", "recheck", "claim"}
        /\ thread'[w].pc \notin Resting => thread'[w].row = m
    BY <1>0, <2>2, AfterMove
  <2>4. thread'[w].pc = "claim" => thread'[w].copy = thread[w].copy /\ ~Overtaken(w)
    BY <1>0, <1>12, CopySteps
  <2>5. thread'[w].pc = "claim" /\ thread'[w].copy = "new" => runs[m] = 0
    BY <1>0, <2>1, <2>4 DEF Overtaken, NewIsUntouched
  <2>6. AtRow(w, n, {"claim"})' /\ thread'[w].copy = "new" => runs[n] = 0
    BY <2>3, <2>5 DEF AtRow, Resting
  <2>7. ~AtRow(w, n, Begun)' /\ ~AtRow(w, n, {"lock"})'
    BY <2>3 DEF AtRow, Begun
  <2>8. AtRow(w, n, {"lock", "claim"})' /\ thread'[w].copy = "error" =>
          AtRow(w, n, {"lock", "claim"}) /\ thread[w].copy = "error"
    BY <2>1, <2>3, <2>4 DEF AtRow, Resting
  <2>9. ~AtRow(w, n, {"recheck", "fail", "save"})
    BY <2>1 DEF AtRow
  <2> QED
    BY <1>0, <1>b, <2>1, <2>6, <2>7, <2>8, <2>9, KeepsBudget
<1>13. CASE StartUnfinished(w)
  <2>1. MovesTo(w, {"loop"}, m)
    BY <1>0, <1>13, GotoMoves DEF StartUnfinished
  <2>2. thread'[w].pc = "loop"
    BY <1>0, <2>1, AfterMove
  <2>3. thread[w].pc = "idle" /\ UNCHANGED <<status, runs, setbacks>>
    BY <1>13 DEF StartUnfinished, db
  <2>4. batch'[w][n] = "error" => status[n] = "error"
    BY <1>13, <1>a DEF StartUnfinished, ListRows
  <2> QED
    BY <1>0, <1>b, <2>2, <2>3, <2>4, KeepsBudget DEF AtRow, Begun
<1>14. CASE StartExpired(w)
  <2>1. MovesTo(w, {"expire"}, m)
    BY <1>0, <1>14, GotoMoves DEF StartExpired
  <2>2. thread'[w].pc = "expire"
    BY <1>0, <2>1, AfterMove
  <2>3. thread[w].pc = "idle" /\ UNCHANGED <<status, runs, setbacks>>
    BY <1>14 DEF StartExpired, db
  <2>4. batch'[w][n] = "error" => status[n] = "error"
    BY <1>14, <1>a DEF StartExpired, ListRows
  <2> QED
    BY <1>0, <1>b, <2>2, <2>3, <2>4, KeepsBudget DEF AtRow, Begun
<1>15. ASSUME NEW k \in Notifs, Deliver(w, k) PROVE BudgetOf(n)'
  <2>1. MovesTo(w, {"lock", "ignore"}, k) /\ w \notin Periodic
    BY <1>0, <1>15, DeliverMoves DEF Deliver
  <2>2. thread'[w].pc \in {"lock", "ignore"}
    BY <1>0, <2>1, AfterMove
  <2>3. batch' = batch /\ UNCHANGED <<status, runs, setbacks>>
    BY <1>15 DEF Deliver, db
  <2> QED
    BY <1>0, <1>b, <2>1, <2>2, <2>3, RestsInBudget DEF AtRow, Resting
<1> QED
  BY <1>1, <1>2, <1>3, <1>4, <1>5, <1>6, <1>7, <1>8, <1>9, <1>10, <1>11, <1>12, <1>13, <1>14,
     <1>15, <1>16, <1>17, <1>18 DEF Continue

\* The environment begins no recovery; a crash sets back what it interrupts.
LEMMA EnvironmentBudget ==
  ASSUME OnceInv, OneEngine, EnvironmentStep
  PROVE  Copies' /\ Budget'
<1>0. TypeOK /\ Copies /\ Budget
  BY DEF OnceInv, IInv
<1>1. CASE /\ UNCHANGED <<thread, batch, runs, setbacks>>
           /\ \A n \in Notifs : status'[n] = "error" => status[n] = "error"
  <2>1. Copies'
    BY <1>0, <1>1 DEF Copies, CopyOf
  <2>2. ASSUME NEW n \in Notifs PROVE BudgetOf(n)'
    <3>1. RetryAhead(n)' => RetryAhead(n)
      BY <1>1 DEF RetryAhead, AtRow
    <3> QED
      BY <1>0, <1>1, <3>1 DEF Budget, BudgetOf, AtRow
  <2> QED
    BY <2>1, <2>2 DEF Budget
<1>2. ASSUME NEW e \in Engines, Crash(e) PROVE Copies' /\ Budget'
  <2>1. /\ batch \in [Workers -> [Notifs -> Listing]] /\ runs \in [Notifs -> Nat]
        /\ setbacks \in [Notifs -> Nat] /\ thread \in [Workers -> Thread]
    BY <1>0 DEF TypeOK
  <2>2. ASSUME NEW w \in Workers
        PROVE  \/ thread'[w].pc = "idle" /\ batch'[w] = NoBatch
               \/ thread'[w] = thread[w] /\ batch'[w] = batch[w]
    BY <1>2, <2>1, BetweenType DEF Crash
  <2>3. Copies'
    <3> SUFFICES ASSUME NEW w \in Workers PROVE CopyOf(w)'
      BY DEF Copies
    <3>1. CopyOf(w)
      BY <1>0 DEF Copies
    <3>2. CASE thread'[w].pc = "idle" /\ batch'[w] = NoBatch
      BY <3>2 DEF CopyOf, NoBatch, Resting
    <3>3. CASE thread'[w] = thread[w] /\ batch'[w] = batch[w]
      BY <3>1, <3>3 DEF CopyOf
    <3> QED
      BY <2>2, <3>2, <3>3
  <2>4. ASSUME NEW n \in Notifs PROVE BudgetOf(n)'
    <3> DEFINE W == { w \in Workers : EngineOf[w] = e }
    <3>1. runs' = runs /\ status' = status /\ SetBack(W) /\ BudgetOf(n)
      BY <1>0, <1>2 DEF Crash, Budget, db
    <3>2. \A w \in Workers : thread'[w] = thread[w] \/ thread'[w].pc = "idle"
      BY <2>2
    <3>3. CASE \E w \in W : AtRow(w, n, {"recheck", "fail"})
      <4>1. setbacks'[n] = setbacks[n] + 1
        BY <3>1, <3>3 DEF SetBack, AtRow
      <4> QED
        BY <1>0, <3>1, <3>2, <4>1, SetBackBudget
    <3>4. CASE ~\E w \in W : AtRow(w, n, {"recheck", "fail"})
      <4>1. setbacks'[n] = setbacks[n]
        BY <3>1, <3>4 DEF SetBack, AtRow
      <4>2. \A w \in Workers : AtRow(w, n, {"recheck", "fail"}) => AtRow(w, n, {"recheck", "fail"})'
        <5>1. \A w \in Workers \ W : thread'[w] = thread[w]
          BY <1>2, <2>1 DEF Crash
        <5> QED
          BY <3>4, <5>1 DEF AtRow
      <4>3. ASSUME RetryAhead(n)' PROVE RetryAhead(n)
        <5>1. \A w \in Workers : batch'[w][n] = "error" => batch[w][n] = "error"
          BY <2>2 DEF NoBatch
        <5>2. \A w \in Workers, P \in {Begun, {"lock", "claim"}} :
                AtRow(w, n, P)' => AtRow(w, n, P) /\ thread'[w] = thread[w]
          BY <3>2 DEF AtRow, Begun
        <5> QED
          BY <3>1, <4>2, <4>3, <5>1, <5>2 DEF RetryAhead
      <4>4. \A w \in Workers : AtRow(w, n, {"claim"})' /\ thread'[w].copy = "new" => runs[n] = 0
        BY <3>1, <3>2 DEF BudgetOf, AtRow
      <4> QED
        BY <3>1, <4>1, <4>3, <4>4 DEF BudgetOf
    <3> QED
      BY <3>3, <3>4
  <2> QED
    BY <2>3, <2>4 DEF Budget
<1>3. ASSUME NEW n \in Notifs, NEW cast \in BOOLEAN, Create(n, cast)
      PROVE  /\ UNCHANGED <<thread, batch, runs, setbacks>>
             /\ \A m \in Notifs : status'[m] = "error" => status[m] = "error"
  BY <1>0, <1>3 DEF Create, TypeOK
<1>4. ASSUME \/ Tick \/ SaveSegment \/ (\E u \in {"segment"} \cup Hosts : BeginUpdate(u))
             \/ \E h \in Hosts : SaveHost(h)
      PROVE  UNCHANGED <<thread, batch, runs, setbacks, status>>
  BY <1>4 DEF Tick, SaveSegment, BeginUpdate, SaveHost
<1> QED
  BY <1>1, <1>2, <1>3, <1>4 DEF EnvironmentStep

LEMMA InitOnceInv == Init => OnceInv
<1> SUFFICES ASSUME Init PROVE OnceInv
  OBVIOUS
<1>1. \A w \in Workers : thread[w].pc = "idle" /\ batch[w] = NoBatch
  BY BetweenType DEF Init
<1>2. Copies
  BY <1>1 DEF Copies, CopyOf, Resting, NoBatch
<1>3. ASSUME NEW n \in Notifs PROVE BudgetOf(n)
  <2>1. \A w \in Workers : batch[w][n] # "error"
    BY <1>1 DEF NoBatch
  <2>2. ~RetryAhead(n) /\ runs[n] = 0 /\ setbacks[n] = 0
    BY <1>1, <2>1 DEF RetryAhead, AtRow, Begun, Init
  <2> QED
    BY <1>1, <2>2 DEF BudgetOf, AtRow
<1>4. LockMatchesHolder
  BY BetweenType DEF Init, LockMatchesHolder
<1> QED
  BY <1>2, <1>3, <1>4, InitIInv DEF OnceInv, Budget

LEMMA NextOnceInv ==
  ASSUME OneEngine, OnePeriodic, OnceInv, [Next]_vars
  PROVE  OnceInv'
<1>1. IInv'
  BY NextIInv DEF OnceInv
<1>2. CASE UNCHANGED vars
  <2>1. LockMatchesHolder' /\ Copies' /\ Budget'
    BY <1>2 DEF vars, db, OnceInv, LockMatchesHolder, Copies, CopyOf, Budget, BudgetOf,
                RetryAhead, AtRow
  <2> QED
    BY <1>1, <2>1 DEF OnceInv
<1>3. CASE EnvironmentStep
  BY <1>1, <1>3, EnvironmentBudget, EnvironmentLock DEF OnceInv, IInv
<1>4. CASE EngineStep
  <2>1. PICK w \in Workers :
          \/ Continue(w) \/ Acquire(w) \/ StartUnfinished(w) \/ StartExpired(w)
          \/ DatabaseFails(w)
          \/ \E m \in Notifs : Deliver(w, m) \/ FindStale(w, m)
    BY <1>4 DEF EngineStep
  <2>2. \A v \in Workers \ {w} : batch'[v] = batch[v] /\ thread'[v] = thread[v]
    BY <2>1, Listings DEF OnceInv, IInv
  <2>3. CopyOf(w)'
    BY <2>1, CopyStep DEF OnceInv, IInv, Copies
  <2>4. Copies'
    BY <2>2, <2>3 DEF OnceInv, Copies, CopyOf
  <2>5. Budget'
    BY <2>1, EngineBudget DEF Budget
  <2>6. LockMatchesHolder'
    BY <1>4, EngineLock DEF OnceInv, IInv
  <2> QED
    BY <1>1, <2>4, <2>5, <2>6 DEF OnceInv
<1> QED
  BY <1>2, <1>3, <1>4 DEF Next

\* One engine, one periodic thread: a notification is recovered at most twice,
\* plus once for each time it was set back.
THEOREM RetriedOnce == OneEngine /\ OnePeriodic => (Spec => []AtMostOneRetry)
<1> SUFFICES ASSUME OneEngine, OnePeriodic PROVE Spec => []AtMostOneRetry
  OBVIOUS
<1>1. OnceInv /\ [Next]_vars => OnceInv'
  BY NextOnceInv
<1>2. OnceInv => AtMostOneRetry
  BY DEF OnceInv, Budget, BudgetOf, AtMostOneRetry
<1> QED
  BY <1>1, <1>2, InitOnceInv, PTL DEF Spec

-----------------------------------------------------------------------------
(* Refinement: one engine, no operator update, no expiry and no stale       *)
(* reconciliation.  Then nobody overtakes a thread between its read of a    *)
(* row and its write: what a thread is about to do still fits what the row  *)
(* says (Fresh), so Claim is an Attempt, Save a Settle, Fail a GiveUp and a *)
(* crash or a database error a Disturb of the abstract specification, and   *)
(* every other step leaves its variables alone.                             *)

Undisturbed ==
  /\ OneEngine /\ OnePeriodic
  /\ ~Staged /\ MaxUpdates = 0
  /\ MaxAge < ExpiryAge
  /\ RunCap >= 2 + MaxCrashes + MaxFaults

FreshOf(w) ==
  /\ thread[w].pc # "stale"
  /\ thread[w].pc = "claim" => status[thread[w].row] = thread[w].copy
  /\ thread[w].pc \in Begun => status[thread[w].row] = "running"
  /\ thread[w].pc = "fail" => status[thread[w].row] = "error"
  /\ thread[w].pc = "lock" /\ thread[w].copy = "error" => status[thread[w].row] = "error"
  /\ w \in Periodic => \A n \in Notifs : batch[w][n] = "error" => status[n] = "error"

Fresh == \A w \in Workers : FreshOf(w)

\* no update, no row old enough to expire, no more setbacks than disturbances
Calm ==
  /\ updates = 0
  /\ crashes <= MaxCrashes /\ faults <= MaxFaults
  /\ \A n \in Notifs : age[n] <= MaxAge /\ setbacks[n] <= crashes + faults

CalmInv == OnceInv /\ Fresh /\ Calm

\* How a step of a thread writes a status, if it writes one at all.
Writes(w, n) ==
  \/ Claim(w) /\ status[n] = thread[w].copy /\ thread[w].copy \in {"new", "error"}
     /\ (thread[w].copy = "error" => w \in Periodic)
  \/ Save(w) /\ status[n] = "running"
  \/ Fail(w) /\ status[n] = "error" /\ w \in Periodic

LEMMA StatusWritten ==
  ASSUME CalmInv, Undisturbed, NEW w \in Workers, NEW n \in Notifs, status'[n] # status[n],
         \/ Continue(w) \/ Acquire(w) \/ StartUnfinished(w) \/ StartExpired(w)
         \/ DatabaseFails(w)
         \/ \E m \in Notifs : Deliver(w, m) \/ FindStale(w, m)
  PROVE  Writes(w, n) /\ n = thread[w].row
<1>0. /\ TypeOK /\ AtHand /\ History /\ CopyOf(w) /\ FreshOf(w) /\ Calm
      /\ status \in [Notifs -> Status]
  BY DEF CalmInv, OnceInv, IInv, Copies, Fresh, TypeOK
<1>1. ASSUME Ignore(w) PROVE FALSE
  BY <1>0, <1>1 DEF Ignore, History, Calm
<1>2. CASE Claim(w)
  <2>1. thread[w].pc = "claim" /\ n = thread[w].row
    BY <1>0, <1>2 DEF Claim
  <2> QED
    BY <1>0, <1>2, <2>1 DEF Writes, FreshOf, CopyOf
<1>3. CASE Save(w)
  <2>1. thread[w].pc = "save" /\ n = thread[w].row
    BY <1>0, <1>3 DEF Save
  <2> QED
    BY <1>0, <1>3, <2>1 DEF Writes, FreshOf, Begun
<1>4. CASE Fail(w)
  <2>1. thread[w].pc = "fail" /\ n = thread[w].row
    BY <1>0, <1>4 DEF Fail
  <2> QED
    BY <1>0, <1>4, <2>1 DEF Writes, FreshOf, CopyOf
<1>5. ASSUME NEW m \in Notifs, ExpireListed(w, m) PROVE FALSE
  <2>1. ~Expired(m)
    BY <1>0 DEF Expired, Calm, TypeOK, Undisturbed
  <2> QED
    BY <1>5, <2>1 DEF ExpireListed
<1>6. ASSUME \/ Handle(w) \/ Recover(w) \/ HandlerDies(w) \/ Recheck(w) \/ EndBatch(w)
             \/ Acquire(w) \/ StartUnfinished(w) \/ StartExpired(w) \/ DatabaseFails(w)
             \/ \E m \in Notifs : TakeListed(w, m) \/ Deliver(w, m) \/ FindStale(w, m)
      PROVE  FALSE
  BY <1>6 DEF Handle, Recover, HandlerDies, Recheck, EndBatch, Acquire, StartUnfinished,
              StartExpired, DatabaseFails, TakeListed, Deliver, FindStale, db
<1>7. ASSUME Reconcile(w) PROVE FALSE
  BY <1>0, <1>7 DEF Reconcile, FreshOf
<1> QED
  BY <1>1, <1>2, <1>3, <1>4, <1>5, <1>6, <1>7 DEF Continue

\* What one thread writes takes nothing away from another.
LEMMA OthersStayFresh ==
  ASSUME CalmInv, Undisturbed, NEW w \in Workers, NEW v \in Workers \ {w},
         \/ Continue(w) \/ Acquire(w) \/ StartUnfinished(w) \/ StartExpired(w)
         \/ DatabaseFails(w)
         \/ \E m \in Notifs : Deliver(w, m) \/ FindStale(w, m)
  PROVE  FreshOf(v)'
<1>0. TypeOK /\ AtHand /\ LockMatchesHolder /\ CopyOf(v) /\ FreshOf(v) /\ OneEngine /\ OnePeriodic
  BY DEF CalmInv, OnceInv, IInv, Copies, Fresh, Undisturbed
<1>1. batch'[v] = batch[v] /\ thread'[v] = thread[v]
  BY <1>0, Listings
<1>2. thread[v].pc \notin Resting => thread[v].row \in Notifs
  BY <1>0 DEF AtHand, Resting
<1>3. ASSUME NEW n \in Notifs, status'[n] # status[n]
      PROVE  Writes(w, n) /\ n = thread[w].row
  BY <1>3, StatusWritten
<1>4. v \in Periodic => w \notin Periodic
  BY <1>0 DEF OnePeriodic
<1>5. ASSUME NEW n \in Notifs, v \in Periodic, status[n] = "error" PROVE status'[n] = "error"
  BY <1>3, <1>4, <1>5 DEF Writes
<1>6. ASSUME thread[v].pc \in Holding PROVE status'[thread[v].row] = status[thread[v].row]
  <2> DEFINE n == thread[v].row
  <2>1. n \in Notifs
    BY <1>2, <1>6 DEF Resting
  <2>2. CASE thread[w].pc \in Holding /\ thread[w].row = n
    BY <1>0, <1>6, <2>2, Alone
  <2>3. ASSUME Fail(w), status[n] = "error", w \in Periodic PROVE FALSE
    <3>1. v \notin Periodic
      BY <1>4, <2>3
    <3> QED
      BY <1>0, <1>6, <2>3, <3>1 DEF CopyOf, FreshOf, Begun
  <2>4. CASE thread[w].row # n \/ thread[w].pc \notin Holding
    <3>1. Claim(w) \/ Save(w) => thread[w].pc \in Holding
      BY DEF Claim, Save
    <3> QED
      BY <1>3, <2>1, <2>3, <2>4, <3>1 DEF Writes
  <2> QED
    BY <2>2, <2>4
<1>7. /\ thread'[v].pc = "claim" => status'[thread'[v].row] = thread'[v].copy
      /\ thread'[v].pc \in Begun => status'[thread'[v].row] = "running"
  BY <1>0, <1>1, <1>6 DEF FreshOf, Begun
<1>8. /\ thread'[v].pc = "fail" => status'[thread'[v].row] = "error"
      /\ thread'[v].pc = "lock" /\ thread'[v].copy = "error" => status'[thread'[v].row] = "error"
  BY <1>0, <1>1, <1>2, <1>5 DEF FreshOf, CopyOf, Resting
<1>9. v \in Periodic => \A n \in Notifs : batch'[v][n] = "error" => status'[n] = "error"
  BY <1>0, <1>1, <1>5 DEF FreshOf
<1>10. thread'[v].pc # "stale"
  BY <1>0, <1>1 DEF FreshOf
<1> QED
  BY <1>7, <1>8, <1>9, <1>10 DEF FreshOf

\* What a thread does next fits what it has read or written just now.
LEMMA StaysFresh ==
  ASSUME CalmInv, Undisturbed, NEW w \in Workers,
         \/ Continue(w) \/ Acquire(w) \/ StartUnfinished(w) \/ StartExpired(w)
         \/ DatabaseFails(w)
         \/ \E m \in Notifs : Deliver(w, m) \/ FindStale(w, m)
  PROVE  FreshOf(w)'
<1> DEFINE m == thread[w].row
           ListingFits == w \in Periodic =>
                            \A n \in Notifs : batch'[w][n] = "error" => status'[n] = "error"
<1>0. TypeOK /\ AtHand /\ History /\ CopyOf(w) /\ FreshOf(w) /\ Calm
  BY DEF CalmInv, OnceInv, IInv, Copies, Fresh
<1>a. /\ batch \in [Workers -> [Notifs -> Listing]] /\ status \in [Notifs -> Status]
      /\ thread[w].pc \notin Resting => m \in Notifs
  BY <1>0 DEF TypeOK, AtHand, Resting
<1>b. ASSUME NEW n \in Notifs, status'[n] # status[n] PROVE Writes(w, n) /\ n = m
  BY <1>b, StatusWritten
<1>c. ASSUME batch' = batch \/ \E k \in Notifs : batch' = [batch EXCEPT ![w][k] = None]
      PROVE  ListingFits
  <2> SUFFICES ASSUME w \in Periodic, NEW n \in Notifs, batch'[w][n] = "error"
               PROVE  status'[n] = "error"
    OBVIOUS
  <2>1. batch[w][n] = "error"
    BY <1>c, <1>a
  <2>2. status[n] = "error"
    BY <1>0, <2>1 DEF FreshOf
  <2>3. ASSUME status'[n] # status[n] PROVE FALSE
    <3>1. n = m /\ thread[w].pc \in {"claim", "save", "fail"}
      BY <1>b, <2>3 DEF Writes, Claim, Save, Fail
    <3>2. batch[w][n] = None
      BY <1>0, <3>1 DEF CopyOf, Resting
    <3> QED
      BY <2>1, <3>2
  <2> QED
    BY <2>2, <2>3
<1>1. ASSUME Ignore(w) PROVE FALSE
  BY <1>0, <1>1 DEF Ignore, History, Calm
<1>2. CASE Claim(w)
  <2>1. MovesTo(w, {"handle"}, m)
    BY <1>0, <1>2, ClaimMoves
  <2>2. thread'[w].pc = "handle" /\ thread'[w].row = m
    BY <1>0, <2>1, AfterMove DEF Resting
  <2>3. status'[m] = "running" /\ batch' = batch
    BY <1>2, <1>a DEF Claim, Resting
  <2> QED
    BY <1>c, <2>2, <2>3 DEF FreshOf
<1>3. CASE Handle(w)
  <2>1. MovesTo(w, {"recover", "save"}, m)
    BY <1>0, <1>3, HandleMoves
  <2>2. thread'[w].pc \in {"recover", "save"} /\ thread'[w].row = m
    BY <1>0, <2>1, AfterMove DEF Resting
  <2>3. status' = status /\ batch' = batch /\ status[m] = "running"
    BY <1>0, <1>3 DEF Handle, FreshOf, Begun
  <2> QED
    BY <1>c, <2>2, <2>3 DEF FreshOf
<1>4. CASE Recover(w)
  <2>1. MovesTo(w, {"save"}, m)
    BY <1>0, <1>4, RecoverMoves
  <2>2. thread'[w].pc = "save" /\ thread'[w].row = m
    BY <1>0, <2>1, AfterMove DEF Resting
  <2>3. status' = status /\ batch' = batch /\ status[m] = "running"
    BY <1>0, <1>4 DEF Recover, FreshOf, Begun, db
  <2> QED
    BY <1>c, <2>2, <2>3 DEF FreshOf
<1>5. CASE Save(w)
  <2>1. /\ thread' = [thread EXCEPT ![w] = Returned(w)] /\ batch' = batch /\ m \in Notifs
    BY <1>5, <1>a DEF Save, Resting
  <2>2. MovesTo(w, {"idle", "recheck"}, m)
    BY <2>1, ReturnedMoves
  <2>3. thread'[w].pc \in {"idle", "recheck"}
    BY <1>0, <2>2, AfterMove
  <2> QED
    BY <1>c, <2>1, <2>3 DEF FreshOf, Begun
<1>6. CASE HandlerDies(w) \/ DatabaseFails(w)
  <2>1. thread'[w].pc = "idle" /\ batch'[w] = NoBatch
    BY <1>0, <1>6, UnwindMoves DEF HandlerDies, DatabaseFails
  <2>2. \A n \in Notifs : batch'[w][n] # "error"
    BY <2>1 DEF NoBatch
  <2> QED
    BY <2>1, <2>2 DEF FreshOf, Begun
<1>15. ASSUME \/ Reconcile(w)
              \/ \E k \in Notifs : FindStale(w, k)
       PROVE  FALSE
  BY <1>0, <1>15 DEF Reconcile, FindStale, FreshOf, Undisturbed
<1>7. CASE Recheck(w)
  <2>1. MovesTo(w, {"fail", "loop"}, m)
    BY <1>0, <1>7, RecheckMoves
  <2>2. /\ thread'[w].pc \in {"fail", "loop"}
        /\ thread'[w].pc = "fail" => thread'[w].row = m
    BY <1>0, <2>1, AfterMove DEF Resting
  <2>3. status' = status /\ batch' = batch
    BY <1>7 DEF Recheck, db
  <2>4. ASSUME status[m] # "error" PROVE thread'[w].pc = "loop"
    <3>1. MovesTo(w, {"loop"}, m)
      BY <1>7, <2>4, BetweenMoves DEF Recheck, MustFail, Resting
    <3> QED
      BY <1>0, <3>1, AfterMove
  <2> QED
    BY <1>c, <2>2, <2>3, <2>4 DEF FreshOf, Begun
<1>8. CASE Fail(w)
  <2>1. MovesTo(w, {"loop"}, m)
    BY <1>8, BetweenMoves DEF Fail, Resting
  <2>2. thread'[w].pc = "loop" /\ batch' = batch
    BY <1>0, <1>8, <2>1, AfterMove DEF Fail
  <2> QED
    BY <1>c, <2>2 DEF FreshOf, Begun
<1>9. CASE EndBatch(w)
  <2>1. MovesTo(w, {"idle"}, m)
    BY <1>9, BetweenMoves DEF EndBatch, Resting
  <2>2. thread'[w].pc = "idle" /\ batch' = batch
    BY <1>0, <1>9, <2>1, AfterMove DEF EndBatch
  <2> QED
    BY <1>c, <2>2 DEF FreshOf, Begun
<1>10. ASSUME NEW k \in Notifs, TakeListed(w, k) PROVE FreshOf(w)'
  <2>1. MovesTo(w, {"lock", "recheck"}, k)
    BY <1>0, <1>10, TakeListedMoves
  <2>2. thread'[w].pc \in {"lock", "recheck"} /\ thread'[w].row = k
    BY <1>0, <2>1, AfterMove DEF Resting
  <2>3. thread'[w].pc = "lock" => thread'[w].copy = batch[w][k]
    BY <1>0, <1>10, CopySteps
  <2>4. /\ thread[w].pc = "loop" /\ status' = status
        /\ batch' = [batch EXCEPT ![w][k] = None]
    BY <1>10 DEF TakeListed, db
  <2>5. w \in Periodic
    BY <1>0, <2>4 DEF CopyOf
  <2>6. ListingFits
    BY <1>c, <2>4
  <2>7. batch[w][k] = "error" => status[k] = "error"
    BY <1>0, <2>5 DEF FreshOf
  <2> QED
    BY <2>2, <2>3, <2>4, <2>6, <2>7 DEF FreshOf, Begun
<1>11. ASSUME NEW k \in Notifs, ExpireListed(w, k) PROVE FreshOf(w)'
  <2>1. /\ thread[w].pc = "expire" /\ thread' = thread
        /\ batch' = [batch EXCEPT ![w][k] = None]
    BY <1>11 DEF ExpireListed
  <2>2. ListingFits
    BY <1>c, <2>1
  <2> QED
    BY <2>1, <2>2 DEF FreshOf, Begun
<1>12. CASE Acquire(w)
  <2>1. thread[w].pc = "lock" /\ batch' = batch /\ m \in Notifs /\ status' = status
    BY <1>a, <1>12 DEF Acquire, Resting, db
  <2>2. MovesTo(w, {"idle", "recheck", "claim"}, m)
    BY <1>0, <1>12, AcquireMoves
  <2>3. /\ thread'[w].pc \in {"idle", "recheck", "claim"}
        /\ thread'[w].pc = "claim" => thread'[w].row = m
    BY <1>0, <2>2, AfterMove DEF Resting
  <2>4. thread'[w].pc = "claim" => thread'[w].copy = thread[w].copy /\ ~Overtaken(w)
    BY <1>0, <1>12, CopySteps
  <2>5. thread[w].copy \in {"new", "error"} /\ (thread[w].copy = "error" => status[m] = "error")
    BY <1>0, <2>1 DEF CopyOf, FreshOf
  <2>6. thread'[w].pc = "claim" => status[m] = thread[w].copy
    BY <2>4, <2>5 DEF Overtaken
  <2> QED
    BY <1>c, <2>1, <2>3, <2>4, <2>6 DEF FreshOf, Begun
<1>13. ASSUME StartUnfinished(w) \/ StartExpired(w) PROVE FreshOf(w)'
  <2>1. MovesTo(w, {"loop"}, m) \/ MovesTo(w, {"expire"}, m)
    <3>1. Goto(w, "loop") \/ Goto(w, "expire")
      BY <1>13 DEF StartUnfinished, StartExpired
    <3> QED
      BY <1>0, <3>1, GotoMoves
  <2>2. thread'[w].pc \in {"loop", "expire"}
    <3>1. ASSUME MovesTo(w, {"loop"}, m) PROVE thread'[w].pc = "loop"
      BY <1>0, <3>1, AfterMove
    <3>2. ASSUME MovesTo(w, {"expire"}, m) PROVE thread'[w].pc = "expire"
      BY <1>0, <3>2, AfterMove
    <3> QED
      BY <2>1, <3>1, <3>2
  <2>3. PICK S : ListRows(w, S) /\ status' = status
    BY <1>13 DEF StartUnfinished, StartExpired, db
  <2>4. \A n \in Notifs : batch'[w][n] = "error" => status'[n] = "error"
    BY <1>a, <2>3 DEF ListRows
  <2> QED
    BY <2>2, <2>4 DEF FreshOf, Begun
<1>14. ASSUME NEW k \in Notifs, Deliver(w, k) PROVE FreshOf(w)'
  <2>1. MovesTo(w, {"lock", "ignore"}, k) /\ w \notin Periodic /\ thread'[w].copy = "new"
    BY <1>0, <1>14, DeliverMoves, CopySteps DEF Deliver
  <2>2. thread'[w].pc \in {"lock", "ignore"}
    BY <1>0, <2>1, AfterMove
  <2> QED
    BY <2>1, <2>2 DEF FreshOf, Begun
<1> QED
  BY <1>1, <1>2, <1>3, <1>4, <1>5, <1>6, <1>7, <1>8, <1>9, <1>10, <1>11, <1>12, <1>13, <1>14,
     <1>15 DEF Continue

\* A setback counts one disturbance at most.
LEMMA SetBackCount ==
  ASSUME TypeOK, NEW W, SetBack(W), NEW n \in Notifs
  PROVE  setbacks'[n] = setbacks[n] \/ setbacks'[n] = setbacks[n] + 1
BY DEF SetBack, TypeOK

LEMMA EngineCalm ==
  ASSUME Undisturbed, CalmInv, NEW w \in Workers,
         \/ Continue(w) \/ Acquire(w) \/ StartUnfinished(w) \/ StartExpired(w)
         \/ DatabaseFails(w)
         \/ \E m \in Notifs : Deliver(w, m) \/ FindStale(w, m)
  PROVE  Calm'
<1>1. TypeOK /\ Calm /\ FreshOf(w) /\ ~Staged
  BY DEF CalmInv, OnceInv, IInv, Fresh, Undisturbed
<1>2. ~Reconcile(w) /\ ~\E m \in Notifs : FindStale(w, m)
  BY <1>1 DEF Reconcile, FindStale, FreshOf
<1>3. CASE DatabaseFails(w)
  <2>1. /\ UNCHANGED <<crashes, updates, age>> /\ faults' = faults + 1 /\ faults' <= MaxFaults
        /\ SetBack({w})
    BY <1>1, <1>3 DEF DatabaseFails, db, TypeOK
  <2>2. ASSUME NEW n \in Notifs PROVE setbacks'[n] <= crashes' + faults'
    <3>1. setbacks'[n] = setbacks[n] \/ setbacks'[n] = setbacks[n] + 1
      BY <1>1, <2>1, SetBackCount
    <3>2. setbacks[n] \in Nat /\ crashes \in Nat /\ faults \in Nat /\ setbacks[n] <= crashes + faults
      BY <1>1 DEF TypeOK, Calm
    <3> QED
      BY <2>1, <3>1, <3>2
  <2> QED
    BY <1>1, <2>1, <2>2 DEF Calm
<1>4. CASE ~DatabaseFails(w)
  <2>1. UNCHANGED <<crashes, updates, faults, setbacks, age>>
    BY <1>2, <1>4
    DEF Continue, Ignore, Claim, Handle, Recover, Save, HandlerDies, Recheck, Fail, EndBatch,
        TakeListed, ExpireListed, Acquire, StartUnfinished, StartExpired, Deliver, db
  <2> QED
    BY <1>1, <2>1 DEF Calm
<1> QED
  BY <1>3, <1>4

LEMMA CrashCalm ==
  ASSUME Undisturbed, CalmInv, NEW e \in Engines, Crash(e)
  PROVE  Fresh' /\ Calm'
<1>1. TypeOK /\ Calm /\ Fresh
  BY DEF CalmInv, OnceInv, IInv
<1>2. /\ UNCHANGED <<status, updates, age, faults>>
      /\ crashes' = crashes + 1 /\ crashes' <= MaxCrashes
      /\ SetBack({ w \in Workers : EngineOf[w] = e })
  BY <1>1 DEF Crash, db, TypeOK
<1>3. ASSUME NEW w \in Workers PROVE FreshOf(w)'
  <2>1. FreshOf(w)
    BY <1>1 DEF Fresh
  <2>2. CASE EngineOf[w] = e
    <3>1. thread'[w].pc = "idle" /\ batch'[w] = NoBatch
      BY <2>2, BetweenType DEF Crash
    <3>2. \A n \in Notifs : batch'[w][n] # "error"
      BY <3>1 DEF NoBatch
    <3> QED
      BY <3>1, <3>2 DEF FreshOf, Begun
  <2>3. CASE EngineOf[w] # e
    <3>1. thread'[w] = thread[w] /\ batch'[w] = batch[w]
      BY <2>3 DEF Crash
    <3> QED
      BY <1>2, <2>1, <3>1 DEF FreshOf
  <2> QED
    BY <2>2, <2>3
<1>4. ASSUME NEW n \in Notifs PROVE setbacks'[n] <= crashes' + faults'
  <2>1. setbacks'[n] = setbacks[n] \/ setbacks'[n] = setbacks[n] + 1
    BY <1>1, <1>2, SetBackCount
  <2>2. setbacks[n] \in Nat /\ crashes \in Nat /\ faults \in Nat /\ setbacks[n] <= crashes + faults
    BY <1>1 DEF TypeOK, Calm
  <2> QED
    BY <1>2, <2>1, <2>2
<1> QED
  BY <1>1, <1>2, <1>3, <1>4 DEF Fresh, Calm

LEMMA NextCalmInv ==
  ASSUME Undisturbed, CalmInv, [Next]_vars
  PROVE  CalmInv'
<1>0. /\ OnceInv /\ TypeOK /\ AtHand /\ History /\ Fresh /\ Calm /\ OneEngine /\ OnePeriodic
      /\ MaxUpdates = 0
  BY DEF CalmInv, OnceInv, IInv, Undisturbed
<1>1. OnceInv'
  BY <1>0, NextOnceInv
<1>2. CASE UNCHANGED vars
  BY <1>0, <1>1, <1>2 DEF vars, db, CalmInv, Fresh, FreshOf, Calm
<1>3. CASE EngineStep
  <2>1. PICK w \in Workers :
          \/ Continue(w) \/ Acquire(w) \/ StartUnfinished(w) \/ StartExpired(w)
          \/ DatabaseFails(w)
          \/ \E m \in Notifs : Deliver(w, m) \/ FindStale(w, m)
    BY <1>3 DEF EngineStep
  <2>2. Fresh'
    BY <2>1, StaysFresh, OthersStayFresh DEF Fresh
  <2>3. Calm'
    BY <2>1, EngineCalm
  <2> QED
    BY <1>1, <2>2, <2>3 DEF CalmInv
<1>4. ASSUME NEW e \in Engines, Crash(e) PROVE CalmInv'
  BY <1>1, <1>4, CrashCalm DEF CalmInv
<1> DEFINE Rest == EnvironmentStep /\ ~\E e \in Engines : Crash(e)
<1>5. ASSUME Rest
      PROVE  UNCHANGED <<thread, batch, setbacks, crashes, updates, faults>>
  <2>1. ASSUME NEW u \in {"segment"} \cup Hosts, BeginUpdate(u) PROVE FALSE
    BY <1>0, <2>1 DEF BeginUpdate, Calm
  <2> QED
    BY <1>5, <2>1 DEF EnvironmentStep, Create, Tick, SaveSegment, SaveHost
<1>6. ASSUME Rest
      PROVE  \A n \in Notifs : status[n] # "absent" => status'[n] = status[n]
  <2>1. status \in [Notifs -> Status]
    BY <1>0 DEF TypeOK
  <2> QED
    BY <1>6, <2>1 DEF EnvironmentStep, Create, Tick, SaveSegment, SaveHost, BeginUpdate
<1>7. ASSUME Rest
      PROVE  \A n \in Notifs : age'[n] <= MaxAge
  <2>1. age \in [Notifs -> Nat] /\ \A n \in Notifs : age[n] <= MaxAge
    BY <1>0 DEF TypeOK, Calm
  <2>2. CASE Tick
    <3>1. ASSUME NEW n \in Notifs PROVE age'[n] <= MaxAge
      <4>1. age'[n] = age[n] \/ (age[n] < MaxAge /\ age'[n] = age[n] + 1)
        BY <2>2 DEF Tick, Aging
      <4> QED
        BY <2>1, <4>1
    <3> QED
      BY <3>1
  <2>3. CASE ~Tick
    <3>1. age' = age
      BY <1>7, <2>3 DEF EnvironmentStep, Create, SaveSegment, SaveHost, BeginUpdate
    <3> QED
      BY <2>1, <3>1
  <2> QED
    BY <2>2, <2>3
<1>8. CASE Rest
  <2>1. ASSUME NEW w \in Workers PROVE FreshOf(w)'
    <3>1. FreshOf(w) /\ thread'[w] = thread[w] /\ batch'[w] = batch[w] /\ CopyOf(w)
      BY <1>0, <1>5, <1>8 DEF Fresh, OnceInv, Copies
    <3>2. thread[w].pc \notin Resting => thread[w].row \in Notifs
      BY <1>0 DEF AtHand, Resting
    <3>3. thread[w].pc = "claim" => thread[w].copy \in {"new", "error"}
      BY <3>1 DEF CopyOf
    <3> QED
      BY <1>6, <1>8, <3>1, <3>2, <3>3 DEF FreshOf, Begun, Resting
  <2>2. Calm'
    BY <1>0, <1>5, <1>7, <1>8 DEF Calm
  <2> QED
    BY <1>1, <2>1, <2>2 DEF CalmInv, Fresh
<1> QED
  BY <1>2, <1>3, <1>4, <1>8 DEF Next

\* Claim is an Attempt: the row is NEW and nobody has begun, or in ERROR and
\* begun once more than it was set back.
LEMMA ClaimIsAttempt ==
  ASSUME CalmInv, Undisturbed, NEW w \in Workers, Claim(w)
  PROVE  Lifecycle!Attempt(thread[w].row)
<1> DEFINE n == thread[w].row
<1>1. /\ TypeOK /\ CopyOf(w) /\ FreshOf(w) /\ thread[w].pc = "claim" /\ n \in Notifs
      /\ setbacks[n] <= crashes + faults /\ crashes <= MaxCrashes /\ faults <= MaxFaults
  BY DEF CalmInv, OnceInv, IInv, Copies, Fresh, Calm, Claim, AtHand
<1>2. BudgetOf(n)
  BY <1>1 DEF CalmInv, OnceInv, Budget
<1>3. status[n] = thread[w].copy /\ thread[w].copy \in {"new", "error"}
  BY <1>1 DEF FreshOf, CopyOf
<1>4. /\ runs[n] \in Nat /\ runs \in [Notifs -> Nat]
      /\ setbacks[n] \in Nat /\ crashes \in Nat /\ faults \in Nat
  BY <1>1 DEF TypeOK
<1>5. runs[n] < 2 + setbacks[n]
  <2>1. CASE thread[w].copy = "new"
    BY <1>1, <1>2, <1>4, <2>1 DEF BudgetOf, AtRow
  <2>2. CASE thread[w].copy = "error"
    <3>1. RetryAhead(n)
      BY <1>1, <2>2 DEF RetryAhead, AtRow, CopyOf
    <3> QED
      BY <1>1, <1>2, <1>4, <3>1 DEF BudgetOf
  <2> QED
    BY <1>3, <2>1, <2>2
<1>6. runs' = [runs EXCEPT ![n] = @ + 1]
  <2>1. runs[n] < RunCap
    BY <1>1, <1>4, <1>5 DEF Undisturbed
  <2>2. runs' = [runs EXCEPT ![n] = IF runs[n] < RunCap THEN runs[n] + 1 ELSE runs[n]]
    BY DEF Claim
  <2> QED
    BY <2>1, <2>2
<1>7. status' = [status EXCEPT ![n] = "running"] /\ UNCHANGED setbacks
  BY DEF Claim
<1> QED
  BY <1>3, <1>5, <1>6, <1>7 DEF Lifecycle!Attempt

\* What stops a thread is a Disturb of the abstract specification.
LEMMA SetBackDisturbs ==
  ASSUME NEW W, SetBack(W), UNCHANGED <<status, runs>>
  PROVE  Lifecycle!Next
<1> DEFINE N == { n \in Notifs :
                    \E w \in W : thread[w].pc \in {"recheck", "fail"} /\ thread[w].row = n }
<1>1. setbacks' = [n \in Notifs |-> IF n \in N THEN setbacks[n] + 1 ELSE setbacks[n]]
  BY DEF SetBack
<1>2. N \in SUBSET Notifs
  OBVIOUS
<1> QED
  BY <1>1, <1>2 DEF Lifecycle!Disturb, Lifecycle!Next

\* Every step maps to a step of the abstract specification or to a stutter.
LEMMA StepRefines ==
  ASSUME Undisturbed, CalmInv, [Next]_vars
  PROVE  [Lifecycle!Next]_(Lifecycle!vars)
<1>0. TypeOK /\ AtHand /\ Calm /\ Fresh
  BY DEF CalmInv, OnceInv, IInv
<1>1. CASE UNCHANGED vars
  BY <1>1 DEF vars, db, Lifecycle!vars
<1>2. CASE EnvironmentStep
  <2>1. ASSUME NEW n \in Notifs, NEW cast \in BOOLEAN, Create(n, cast)
        PROVE  Lifecycle!Next
    BY <2>1 DEF Create, Lifecycle!Report, Lifecycle!Next
  <2>2. ASSUME NEW e \in Engines, Crash(e) PROVE Lifecycle!Next
    BY <2>2, SetBackDisturbs DEF Crash, db
  <2>3. ASSUME ~\E n \in Notifs, cast \in BOOLEAN : Create(n, cast),
               ~\E e \in Engines : Crash(e)
        PROVE  UNCHANGED <<status, runs, setbacks>>
    BY <1>2, <2>3 DEF EnvironmentStep, Tick, SaveSegment, SaveHost, BeginUpdate
  <2> QED
    BY <2>1, <2>2, <2>3 DEF Lifecycle!vars
<1>3. CASE EngineStep
  <2>1. PICK w \in Workers :
          \/ Continue(w) \/ Acquire(w) \/ StartUnfinished(w) \/ StartExpired(w)
          \/ DatabaseFails(w)
          \/ \E m \in Notifs : Deliver(w, m) \/ FindStale(w, m)
    BY <1>3 DEF EngineStep
  <2> DEFINE n == thread[w].row
  <2>2. CASE Claim(w)
    <3>1. n \in Notifs
      BY <1>0, <2>2 DEF Claim, AtHand
    <3> QED
      BY <2>2, <3>1, ClaimIsAttempt DEF Lifecycle!Next
  <2>3. ASSUME Save(w), NEW o \in Notifs, status'[o] # status[o] PROVE Lifecycle!Next
    <3>1. n \in Notifs /\ thread[w].verdict \in Outcomes /\ UNCHANGED <<runs, setbacks>>
      BY <1>0, <2>3 DEF Save, AtHand
    <3>2. status[n] = "running" /\ status' = [status EXCEPT ![n] = thread[w].verdict]
      BY <2>1, <2>3, StatusWritten DEF Writes, Claim, Save, Fail
    <3> QED
      BY <3>1, <3>2 DEF Lifecycle!Settle, Lifecycle!Next
  <2>4. ASSUME Fail(w), NEW o \in Notifs, status'[o] # status[o] PROVE Lifecycle!Next
    <3>1. n \in Notifs /\ UNCHANGED <<runs, setbacks>>
      BY <1>0, <2>4 DEF Fail, AtHand
    <3>2. status[n] = "error" /\ status' = [status EXCEPT ![n] = "failed"]
      BY <2>1, <2>4, StatusWritten DEF Writes, Claim, Save, Fail
    <3> QED
      BY <3>1, <3>2 DEF Lifecycle!GiveUp, Lifecycle!Next
  <2>8. ~Reconcile(w)
    BY <1>0 DEF Reconcile, Fresh, FreshOf
  <2>9. CASE DatabaseFails(w)
    BY <2>9, SetBackDisturbs DEF DatabaseFails, db
  <2>5. ASSUME ~Claim(w), ~DatabaseFails(w) PROVE UNCHANGED <<runs, setbacks>>
    BY <2>1, <2>5, <2>8
    DEF Continue, Ignore, Handle, Recover, Save, HandlerDies, Recheck, Fail, EndBatch,
        TakeListed, ExpireListed, Acquire, StartUnfinished, StartExpired, Deliver, FindStale
  <2>6. ASSUME \A o \in Notifs : status'[o] = status[o] PROVE UNCHANGED status
    <3>1. status \in [Notifs -> Status] /\ status' \in [Notifs -> Status]
      BY <1>0, EngineTypeOK, <1>3 DEF TypeOK
    <3> QED
      BY <2>6, <3>1
  <2>7. ASSUME ~Claim(w), NEW o \in Notifs, status'[o] # status[o] PROVE Save(w) \/ Fail(w)
    BY <2>1, <2>7, StatusWritten DEF Writes
  <2> QED
    BY <2>2, <2>3, <2>4, <2>5, <2>6, <2>7, <2>9 DEF Lifecycle!vars
<1> QED
  BY <1>1, <1>2, <1>3 DEF Next

\* One engine, no operator update, no expiry, no stale reconciliation: the rows
\* live the life NotificationLifecycle promises to whoever reported the failure,
\* whatever crashes and whichever exceptions stop a thread.
THEOREM Refinement == Undisturbed => (Spec => ImplementsLifecycle)
<1> SUFFICES ASSUME Undisturbed PROVE Spec => ImplementsLifecycle
  OBVIOUS
<1>1. Init => CalmInv
  <2> SUFFICES ASSUME Init PROVE CalmInv
    OBVIOUS
  <2>1. \A w \in Workers : thread[w].pc = "idle" /\ batch[w] = NoBatch
    BY BetweenType DEF Init
  <2>2. Fresh /\ Calm
    BY <2>1 DEF Fresh, FreshOf, Begun, NoBatch, Calm, Init
  <2> QED
    BY <2>2, InitOnceInv DEF CalmInv
<1>2. CalmInv /\ [Next]_vars => CalmInv'
  BY NextCalmInv
<1>3. Init => Lifecycle!Init
  BY DEF Init, Lifecycle!Init
<1>4. CalmInv /\ [Next]_vars => [Lifecycle!Next]_(Lifecycle!vars)
  BY StepRefines
<1> QED
  BY <1>1, <1>2, <1>3, <1>4, PTL DEF Spec, ImplementsLifecycle, Lifecycle!Spec
=============================================================================
