-------------------------- MODULE AdminConfigProofs --------------------------
(***************************************************************************)
(* Theorems about AdminConfig, for every number of requests, whatever      *)
(* changes they bring: what apply jobs say of the limit, and what drafts   *)
(* say of their changes.                                                   *)
(*                                                                         *)
(* The argument: a job is written by its own request only, which has its   *)
(* copy of the changes, so what a job says is read off the point its       *)
(* request has come to (JobTells); only a list of valid limits is ever     *)
(* applied (LimitIsGood).  What a request finds it finds of its copy; a    *)
(* draft it writes that has other changes by then is among `crossed', and  *)
(* new changes take every finding with them (DraftTells).                  *)
(***************************************************************************)
EXTENDS AdminConfig, TLAPS

USE AdminConfigAssumption

Changes == Seq(Change)

Statuses == { "draft", "valid", "invalid", "applied" }

DraftRow == [row : { None, "live", "deleted" }, values : Changes, status : Statuses,
             validation : SUBSET Changes, plan : SUBSET Changes]
JobRow   == [status : { "queued", "succeeded", "failed" }, draft : Ids, plan : Changes]
NoCall   == [op |-> None]

\* the points of a request that has no job yet, and of one that has
Before == { "idle", "read", "write", "etcd", "invalid", "unsupported", "queue" }
After  == { "set", "failed", "applied" }

TypeInv ==
  /\ drafts \in [Ids -> DraftRow]
  /\ jobs \in [Requests -> JobRow \cup {NoJob}]
  /\ runtime \in [value : Int, by : Ids]
  /\ pc \in [Requests -> Before \cup After \cup {"ended"}]
  /\ call \in [Requests -> Calls \cup {NoCall}]
  /\ copy \in [Requests -> Changes]
  /\ set \in [Requests -> Nat]
  /\ crossed \in SUBSET Ids
  /\ DOMAIN answer = Requests

\* A request at work has a call that leads to where it is.
AtWork(r) ==
  /\ pc[r] \notin { "idle", "ended" } => call[r] \in Calls
  /\ pc[r] = "read" => call[r].op \in DraftOps
  /\ pc[r] = "write" => call[r].op \in DraftOps \cup { "create" }
  /\ pc[r] \in { "invalid", "unsupported", "queue" } \cup After => call[r].op = "apply"

\* The i-th change of request r is the limit in etcd.
InForce(r, i) == i \in DOMAIN copy[r] /\ runtime.value = copy[r][i].value

\* What a job says of its changes, by how far its request has come.
JobTells(r) ==
  /\ answer[r] # 0 => pc[r] = "ended"
  /\ pc[r] \in Before => ~Job(r) /\ set[r] = 0 /\ runtime.by # r
  /\ pc[r] \in After => Job(r)
  /\ pc[r] \in { "queue" } => RuntimeApplySupported(copy[r])
  /\ pc[r] \in { "set", "failed" } => jobs[r].status = "queued"
  /\ pc[r] = "set" \/ (Job(r) /\ jobs[r].status = "succeeded") => (runtime.by = r => InForce(r, set[r]))
  /\ pc[r] = "failed" => set[r] < Len(copy[r])
  /\ pc[r] = "applied" => jobs[r].status = "succeeded"
  /\ Job(r) =>
       /\ jobs[r].draft = call[r].draft /\ jobs[r].plan = copy[r] /\ RuntimeApplySupported(copy[r])
       /\ set[r] <= Len(copy[r])
       /\ runtime.by = r => InForce(r, set[r]) \/ InForce(r, set[r] + 1)
       /\ jobs[r].status = "succeeded" => set[r] = Len(copy[r])
       /\ jobs[r].status = "failed" => set[r] < Len(copy[r])
       /\ jobs[r].status = "queued" /\ pc[r] = "ended" => answer[r] \in { NoReply, 500 }
       /\ answer[r] \in 200 .. 299 => jobs[r].status = "succeeded"

JobInv == \A r \in Requests : AtWork(r) /\ JobTells(r)

LimitIsGood == runtime.value >= 0

\* A job has applied these changes of draft d.
Done(d, changes) ==
  \E r \in Requests : /\ Job(r) /\ jobs[r].status = "succeeded"
                      /\ jobs[r].draft = d /\ jobs[r].plan = changes

\* What row w of draft d says is of the changes it has.
Says(d, w) ==
  /\ w.status \in { "valid", "invalid" } => w.status = Validated(w.values)
  /\ w.validation \cup w.plan \subseteq { w.values }
  /\ w.status = "applied" => Done(d, w.values)

DraftTells(d) == d \notin crossed => Says(d, drafts[d])

DraftInv == \A d \in Ids : DraftTells(d)

IInv == TypeInv /\ JobInv /\ LimitIsGood /\ DraftInv

-----------------------------------------------------------------------------
LEMMA InitIInv == Init => IInv
<1> SUFFICES ASSUME Init PROVE IInv
  OBVIOUS
<1>1. First \in Changes /\ << >> \in Changes
  BY DEF Changes
<1>2. Fresh(First) \in DraftRow /\ [Fresh(<< >>) EXCEPT !.row = None] \in DraftRow
  BY <1>1 DEF Fresh, DraftRow, Statuses
<1>3. TypeInv
  BY <1>1, <1>2 DEF Init, TypeInv, NoCall, NoJob, Before, Ids
<1>4. JobInv
  BY DEF Init, JobInv, AtWork, JobTells, Job, NoJob, Before, After, Ids
<1>5. DraftInv
  BY DEF Init, DraftInv, DraftTells, Says, Fresh
<1> QED
  BY <1>3, <1>4, <1>5 DEF IInv, LimitIsGood, Init

\* A change of a list that can be applied is a limit of at least one.
LEMMA LimitsAreGood ==
  ASSUME NEW changes \in Changes, RuntimeApplySupported(changes), NEW i \in 1 .. Len(changes)
  PROVE  changes[i].value \in Int /\ changes[i].value >= 1
<1>1. changes[i] \in Change /\ changes[i].kind = "runtime" /\ ~BadValue(changes[i])
  BY DEF RuntimeApplySupported, HasErrors, Changes
<1> QED
  BY <1>1 DEF Change, BadValue

\* A request with changes left to write has a queued job of them.
LEMMA NotAllSet ==
  ASSUME TypeInv, NEW r \in Requests, JobTells(r), pc[r] = "set", ~AllSet(r)
  PROVE  /\ answer[r] = 0 /\ Job(r) /\ jobs[r].status = "queued" /\ RuntimeApplySupported(copy[r])
         /\ copy[r] \in Changes /\ set[r] \in Nat /\ Len(copy[r]) \in Nat /\ set[r] < Len(copy[r])
<1>1. answer[r] = 0 /\ Job(r) /\ jobs[r].status = "queued"
  BY DEF JobTells, After
<1>2. RuntimeApplySupported(copy[r]) /\ set[r] <= Len(copy[r])
  BY <1>1 DEF JobTells
<1>3. copy[r] \in Changes /\ set[r] \in Nat
  BY DEF TypeInv
<1>4. Len(copy[r]) \in Nat
  BY <1>3 DEF Changes
<1>5. set[r] # Len(copy[r])
  BY DEF AllSet
<1>6. set[r] < Len(copy[r])
  BY <1>2, <1>3, <1>4, <1>5
<1> QED
  BY <1>1, <1>2, <1>3, <1>4, <1>6

\* which request a step is of, and what it leaves to the others
LEMMA Alone ==
  ASSUME TypeInv, NEW r \in Requests, Arrive(r) \/ Step(r) \/ Die(r)
  PROVE  \A q \in Requests \ {r} :
           /\ pc'[q] = pc[q] /\ call'[q] = call[q] /\ copy'[q] = copy[q] /\ set'[q] = set[q]
           /\ jobs'[q] = jobs[q] /\ answer'[q] = answer[q]
           /\ runtime' = runtime \/ runtime'.by # q
<1>1. ASSUME NEW found, NEW code, Save(r, found, code)
      PROVE  \E c : Ends(r, c)
  BY <1>1 DEF Save
<1>2. CASE Arrive(r) \/ Read(r) \/ Die(r) \/ TransactionFails(r)
  BY <1>2 DEF Arrive, Read, Die, TransactionFails, Ends, Goto, mine, TypeInv
<1>3. CASE Write(r)
  <2>1. \E c : Ends(r, c)
    BY <1>1, <1>3 DEF Write, Create, Update, Delete, Validate, Plan
  <2> QED
    BY <1>3, <2>1 DEF Write, Ends, mine, TypeInv
<1>4. CASE RefuseInvalid(r) \/ RefuseUnsupported(r) \/ MarkApplied(r)
  <2>1. \E c : Ends(r, c)
    BY <1>1, <1>4 DEF RefuseInvalid, RefuseUnsupported, MarkApplied
  <2> QED
    BY <1>4, <2>1 DEF RefuseInvalid, RefuseUnsupported, MarkApplied, Ends, mine, TypeInv
<1>5. CASE Queue(r) \/ RecordFailure(r) \/ RecordSuccess(r)
  BY <1>5 DEF Queue, RecordFailure, RecordSuccess, Settled, Ends, Goto, mine, TypeInv
<1>6. CASE SetNext(r) \/ SetFails(r) \/ SetLimit(r) \/ ClearLimit(r) \/ LimitFails(r)
  BY <1>6 DEF SetNext, SetFails, SetLimit, ClearLimit, LimitFails, Ends, Goto, mine, TypeInv
<1> QED
  BY <1>2, <1>3, <1>4, <1>5, <1>6 DEF Step

-----------------------------------------------------------------------------
(* The types *)

LEMMA EndsType ==
  ASSUME TypeInv, NEW r \in Requests, NEW code, Ends(r, code)
  PROVE  /\ pc' \in [Requests -> Before \cup After \cup {"ended"}] /\ DOMAIN answer' = Requests
         /\ pc'[r] = "ended" /\ answer'[r] = code
BY DEF TypeInv, Ends

LEMMA GotoType ==
  ASSUME TypeInv, NEW r \in Requests, NEW p \in Before \cup After, Goto(r, p)
  PROVE  /\ pc' \in [Requests -> Before \cup After \cup {"ended"}] /\ DOMAIN answer' = Requests
         /\ pc'[r] = p /\ answer'[r] = answer[r]
BY DEF TypeInv, Goto

\* what a request finds and writes of its draft
LEMMA SaveType ==
  ASSUME TypeInv, NEW r \in Requests, call[r].draft \in Ids, NEW found \in DraftRow, NEW code,
         Save(r, found, code)
  PROVE  /\ drafts' \in [Ids -> DraftRow] /\ crossed' \in SUBSET Ids
         /\ Ends(r, code) \/ Ends(r, 500)
         /\ \A d \in Ids \ {call[r].draft} : drafts'[d] = drafts[d]
         /\ \A d \in Ids \ {call[r].draft} : d \in crossed' <=> d \in crossed
         /\ \/ UNCHANGED <<drafts, crossed>>
            \/ drafts'[call[r].draft] = found /\
               (drafts[call[r].draft].values # copy[r] => call[r].draft \in crossed') /\
               (call[r].draft \in crossed => call[r].draft \in crossed')
<1>1. drafts \in [Ids -> DraftRow] /\ crossed \in SUBSET Ids
  BY DEF TypeInv
<1> QED
  BY <1>1 DEF Save

\* the findings
LEMMA Findings ==
  ASSUME TypeInv, NEW r \in Requests, call[r].draft \in Ids
  PROVE  /\ [Draft(r) EXCEPT !.status = Validated(copy[r]), !.validation = {copy[r]}] \in DraftRow
         /\ [Draft(r) EXCEPT !.plan = {copy[r]}] \in DraftRow
         /\ [Draft(r) EXCEPT !.validation = {copy[r]}, !.plan = {copy[r]}] \in DraftRow
         /\ [Draft(r) EXCEPT !.status = "applied", !.validation = {copy[r]}, !.plan = {copy[r]}] \in DraftRow
<1>1. Draft(r) \in DraftRow /\ copy[r] \in Changes
  BY DEF TypeInv, Draft
<1>2. Validated(copy[r]) \in Statuses /\ "applied" \in Statuses
  BY DEF Validated, Statuses
<1> QED
  BY <1>1, <1>2 DEF DraftRow

\* how the draft of a request comes to be after its write
LEMMA Saves ==
  ASSUME TypeInv, NEW r \in Requests, AtWork(r),
         Write(r) \/ RefuseInvalid(r) \/ RefuseUnsupported(r) \/ MarkApplied(r)
  PROVE  /\ drafts' \in [Ids -> DraftRow] /\ crossed' \in SUBSET Ids
         /\ \E code : Ends(r, code)
         /\ UNCHANGED <<jobs, runtime, mine>>
<1>0. drafts \in [Ids -> DraftRow] /\ crossed \in SUBSET Ids /\ r \in Ids
  BY DEF TypeInv, Ids
<1>1. CASE Write(r)
  <2>1. pc[r] = "write" /\ UNCHANGED <<jobs, runtime, mine>> /\ call[r] \in Calls
        /\ call[r].op \in DraftOps \cup { "create" }
    BY <1>1 DEF Write, AtWork
  <2>2. CASE Create(r) /\ call[r].op = "create"
    <3>1. Fresh(call[r].values) \in DraftRow
      BY <2>1, <2>2 DEF Fresh, DraftRow, Statuses, Changes
    <3> QED
      BY <1>0, <2>1, <2>2, <3>1 DEF Create
  <2>3. CASE Update(r) /\ call[r].op = "update"
    <3>1. call[r].draft \in Ids /\ drafts[call[r].draft] \in DraftRow
      BY <1>0, <2>1, <2>3 DEF DraftOps
    <3>2. "values" \in DOMAIN call[r] => Reset(drafts[call[r].draft], call[r].values) \in DraftRow
      BY <2>1, <3>1 DEF Reset, DraftRow, Statuses, Changes
    <3> QED
      BY <1>0, <2>1, <2>3, <3>1, <3>2 DEF Update
  <2>4. CASE Delete(r) /\ call[r].op = "delete"
    <3>1. call[r].draft \in Ids /\ drafts[call[r].draft] \in DraftRow
      BY <1>0, <2>1, <2>4 DEF DraftOps
    <3>2. [drafts[call[r].draft] EXCEPT !.row = "deleted"] \in DraftRow
      BY <3>1 DEF DraftRow
    <3>3. drafts' \in [Ids -> DraftRow]
      BY <1>0, <2>4, <3>2 DEF Delete
    <3> QED
      BY <1>0, <2>1, <2>4, <3>3 DEF Delete
  <2>5. CASE (Validate(r) \/ Plan(r)) /\ call[r].op \in DraftOps
    <3>1. call[r].draft \in Ids
      BY <2>1, <2>5
    <3>2. PICK found \in DraftRow : Save(r, found, 200)
      BY <2>5, <3>1, Findings DEF Validate, Plan
    <3> QED
      BY <2>1, <3>1, <3>2, SaveType
  <2> QED
    BY <1>1, <2>1, <2>2, <2>3, <2>4, <2>5 DEF Write, DraftOps
<1>2. CASE RefuseInvalid(r) \/ RefuseUnsupported(r) \/ MarkApplied(r)
  <2>1. UNCHANGED <<jobs, runtime, mine>> /\ call[r].draft \in Ids
    BY <1>2 DEF RefuseInvalid, RefuseUnsupported, MarkApplied, AtWork, After, DraftOps
  <2>2. PICK found \in DraftRow, code \in { 400, 409, 202 } : Save(r, found, code)
    <3>1. /\ [Draft(r) EXCEPT !.status = Validated(copy[r]), !.validation = {copy[r]}] \in DraftRow
          /\ [Draft(r) EXCEPT !.validation = {copy[r]}, !.plan = {copy[r]}] \in DraftRow
          /\ [Draft(r) EXCEPT !.status = "applied", !.validation = {copy[r]}, !.plan = {copy[r]}] \in DraftRow
      BY <2>1, Findings
    <3>2. CASE RefuseInvalid(r)
      BY <3>1, <3>2 DEF RefuseInvalid
    <3>3. CASE RefuseUnsupported(r)
      BY <3>1, <3>3 DEF RefuseUnsupported
    <3>4. CASE MarkApplied(r)
      BY <3>1, <3>4 DEF MarkApplied
    <3> QED
      BY <1>2, <3>2, <3>3, <3>4
  <2> QED
    BY <2>1, <2>2, SaveType
<1> QED
  BY <1>1, <1>2

LEMMA NextTypeInv == ASSUME TypeInv, JobInv, [Next]_vars PROVE TypeInv'
<1>1. CASE UNCHANGED vars
  BY <1>1 DEF vars, TypeInv
<1>2. ASSUME NEW r \in Requests, Arrive(r) \/ Step(r) \/ Die(r) PROVE TypeInv'
  <2> USE DEF mine
  <2>0. AtWork(r) /\ JobTells(r) /\ r \in Ids
    BY DEF JobInv, Ids
  <2>1. CASE Arrive(r)
    <3>1. PICK c \in Calls : call' = [call EXCEPT ![r] = c] /\ Goto(r, FirstStep(c))
      BY <2>1 DEF Arrive
    <3>2. FirstStep(c) \in Before \cup After
      BY DEF FirstStep, Before
    <3>3. pc' \in [Requests -> Before \cup After \cup {"ended"}] /\ DOMAIN answer' = Requests
      BY <3>1, <3>2, GotoType
    <3> QED
      BY <2>1, <3>1, <3>3 DEF Arrive, TypeInv
  <2>2. CASE Read(r)
    <3>1. call[r].draft \in Ids /\ drafts[call[r].draft].values \in Changes
      BY <2>0, <2>2 DEF Read, AtWork, TypeInv, DraftRow
    <3>2. \/ \E code : Ends(r, code) /\ UNCHANGED copy
          \/ \E p \in Before \cup After : Goto(r, p) /\ copy' = [copy EXCEPT ![r] = drafts[call[r].draft].values]
      BY <2>2 DEF Read, Continues, Before
    <3>3. pc' \in [Requests -> Before \cup After \cup {"ended"}] /\ DOMAIN answer' = Requests
      BY <3>2, GotoType, EndsType
    <3>4. copy' \in [Requests -> Changes]
      BY <3>1, <3>2 DEF TypeInv
    <3> QED
      BY <2>2, <3>3, <3>4 DEF Read, TypeInv
  <2>3. CASE Write(r) \/ RefuseInvalid(r) \/ RefuseUnsupported(r) \/ MarkApplied(r)
    BY <2>0, <2>3, Saves, EndsType DEF TypeInv
  <2>4. CASE Queue(r)
    <3>1. call[r].draft \in Ids /\ copy[r] \in Changes
      BY <2>0, <2>4 DEF Queue, AtWork, TypeInv, DraftOps
    <3>2. [status |-> "queued", draft |-> call[r].draft, plan |-> copy[r]] \in JobRow
      BY <3>1 DEF JobRow
    <3>3. pc' \in [Requests -> Before \cup After \cup {"ended"}] /\ DOMAIN answer' = Requests
      BY <2>4, GotoType DEF Queue, After
    <3> QED
      BY <2>4, <3>2, <3>3 DEF Queue, TypeInv
  <2>5. CASE SetNext(r) \/ SetFails(r)
    <3>0. pc[r] = "set" /\ ~AllSet(r)
      BY <2>5 DEF SetNext, SetFails
    <3>1. copy[r] \in Changes /\ set[r] \in Nat /\ Len(copy[r]) \in Nat /\ set[r] < Len(copy[r])
      BY <2>0, <3>0, NotAllSet
    <3>2. pc' \in [Requests -> Before \cup After \cup {"ended"}] /\ DOMAIN answer' = Requests
      BY <2>5, GotoType DEF SetNext, SetFails, TypeInv, After
    <3>3. set' \in [Requests -> Nat]
      <4>1. set \in [Requests -> Nat]
        BY DEF TypeInv
      <4>2. set' = set \/ set' = [set EXCEPT ![r] = set[r] + 1]
        BY <2>5 DEF SetNext, SetFails
      <4> QED
        BY <4>1, <4>2
    <3>4. runtime' \in [value : Int, by : Ids]
      <4>1. copy[r][set[r] + 1] \in Change
        BY <3>1 DEF Changes
      <4>2. [value |-> copy[r][set[r] + 1].value, by |-> r] \in [value : Int, by : Ids]
        BY <2>0, <4>1 DEF Change
      <4>3. runtime' \in { runtime, [value |-> copy[r][set[r] + 1].value, by |-> r] }
        BY <2>5 DEF SetNext, SetFails
      <4> QED
        BY <4>2, <4>3 DEF TypeInv
    <3> QED
      BY <2>5, <3>2, <3>3, <3>4 DEF SetNext, SetFails, TypeInv
  <2>6. ASSUME NEW s \in { "succeeded", "failed" }, Settled(r, s), Job(r)
        PROVE  jobs' \in [Requests -> JobRow \cup {NoJob}]
    <3>1. jobs \in [Requests -> JobRow \cup {NoJob}]
      BY DEF TypeInv
    <3>2. jobs[r] \in JobRow
      BY <2>6, <3>1 DEF Job, NoJob
    <3>3. [jobs[r] EXCEPT !.status = s] \in JobRow
      BY <3>2 DEF JobRow
    <3>4. jobs' = [jobs EXCEPT ![r] = [jobs[r] EXCEPT !.status = s]]
      BY <2>6 DEF Settled
    <3> QED
      BY <3>1, <3>3, <3>4
  <2>7. CASE RecordFailure(r)
    <3>1. jobs' \in [Requests -> JobRow \cup {NoJob}]
      BY <2>0, <2>6, <2>7 DEF RecordFailure, JobTells, After
    <3> QED
      BY <2>7, <3>1, EndsType DEF RecordFailure, TypeInv
  <2>8. CASE RecordSuccess(r)
    <3>1. jobs' \in [Requests -> JobRow \cup {NoJob}]
      BY <2>0, <2>6, <2>8 DEF RecordSuccess, JobTells, After
    <3>2. pc' \in [Requests -> Before \cup After \cup {"ended"}] /\ DOMAIN answer' = Requests
      BY <2>8, GotoType DEF RecordSuccess, After
    <3> QED
      BY <2>8, <3>1, <3>2 DEF RecordSuccess, TypeInv
  <2>9. CASE SetLimit(r) \/ ClearLimit(r) \/ LimitFails(r)
    <3>1. runtime' \in [value : Int, by : Ids]
      <4>1. call[r].op = "set_limit" => call[r].value \in Int
        BY <2>0, <2>9 DEF SetLimit, ClearLimit, LimitFails, AtWork
      <4> QED
        BY <2>0, <2>9, <4>1 DEF SetLimit, ClearLimit, LimitFails, TypeInv
    <3>2. \E code : Ends(r, code)
      BY <2>9 DEF SetLimit, ClearLimit, LimitFails
    <3> QED
      BY <2>9, <3>1, <3>2, EndsType DEF SetLimit, ClearLimit, LimitFails, TypeInv
  <2>10. CASE Die(r) \/ TransactionFails(r)
    BY <2>10, EndsType DEF Die, TransactionFails, TypeInv
  <2> QED
    BY <1>2, <2>1, <2>2, <2>3, <2>4, <2>5, <2>7, <2>8, <2>9, <2>10 DEF Step
<1> QED
  BY <1>1, <1>2 DEF Next

-----------------------------------------------------------------------------
(* The jobs *)

\* A request tells of its own job what it told before, when it ends at a
\* point where the answer says no more than the job.
LEMMA EndsTells ==
  ASSUME TypeInv, NEW r \in Requests, JobTells(r), NEW code, Ends(r, code),
         UNCHANGED <<jobs, runtime, mine>>,
         Job(r) => code \in { NoReply, 500 } \/ jobs[r].status = "succeeded"
  PROVE  AtWork(r)' /\ JobTells(r)'
<1>1. pc'[r] = "ended" /\ answer'[r] = code
  BY EndsType
<1>2. UNCHANGED <<jobs, runtime, copy, set, call>>
  BY DEF mine
<1>3. AtWork(r)'
  BY <1>1 DEF AtWork, After
<1>4. Job(r)' <=> Job(r)
  BY <1>2 DEF Job
<1>5. Job(r) => code = 1 \/ code = 500 \/ jobs[r].status = "succeeded"
  BY DEF NoReply
<1>6. code = 1 \/ code = 500 => code \notin 200 .. 299
  <2>1. 1 \notin 200 .. 299
    OBVIOUS
  <2>2. 500 \notin 200 .. 299
    OBVIOUS
  <2>3. CASE code = 1
    BY <2>1, <2>3, Zenon
  <2>4. CASE code = 500
    BY <2>2, <2>4, Zenon
  <2> QED
    BY <2>3, <2>4, Zenon
<1>7. Job(r) /\ jobs[r].status = "queued" => code \in { NoReply, 500 }
  BY <1>5 DEF NoReply
<1>8. code \in 200 .. 299 /\ Job(r) => jobs[r].status = "succeeded"
  BY <1>5, <1>6
<1>9. JobTells(r)'
  BY <1>1, <1>2, <1>4, <1>7, <1>8 DEF JobTells, InForce, Before, After
<1> QED
  BY <1>3, <1>9

LEMMA NextJobInv == ASSUME TypeInv, JobInv, [Next]_vars PROVE JobInv'
<1>1. CASE UNCHANGED vars
  BY <1>1 DEF vars, JobInv, AtWork, JobTells, InForce, Job
<1>2. ASSUME NEW r \in Requests, Arrive(r) \/ Step(r) \/ Die(r) PROVE JobInv'
  <2>1. \A q \in Requests \ {r} : AtWork(q)' /\ JobTells(q)'
    <3> SUFFICES ASSUME NEW q \in Requests \ {r} PROVE AtWork(q)' /\ JobTells(q)'
      OBVIOUS
    <3>1. /\ pc'[q] = pc[q] /\ call'[q] = call[q] /\ copy'[q] = copy[q] /\ set'[q] = set[q]
          /\ jobs'[q] = jobs[q] /\ answer'[q] = answer[q]
          /\ runtime' = runtime \/ runtime'.by # q
      BY <1>2, Alone
    <3>2. AtWork(q) /\ JobTells(q)
      BY DEF JobInv
    <3>3. AtWork(q)'
      BY <3>1, <3>2 DEF AtWork
    <3>4. Job(q)' <=> Job(q)
      BY <3>1 DEF Job
    <3>5. runtime'.by = q => runtime.by = q /\ runtime'.value = runtime.value
      BY <3>1
    <3>6. JobTells(q)'
      BY <3>1, <3>2, <3>4, <3>5 DEF JobTells, InForce
    <3> QED
      BY <3>3, <3>6
  <2>2. AtWork(r) /\ JobTells(r) /\ r # 0
    BY DEF JobInv
  <2>3. CASE Arrive(r)
    <3>1. PICK c \in Calls : call' = [call EXCEPT ![r] = c] /\ Goto(r, FirstStep(c))
      BY <2>3 DEF Arrive
    <3>2. pc[r] = "idle" /\ UNCHANGED <<jobs, runtime, copy, set>> /\ call'[r] = c
      BY <2>3, <3>1 DEF Arrive, TypeInv
    <3>3. FirstStep(c) \in { "read", "write", "etcd" }
      BY DEF FirstStep
    <3>4. pc'[r] = FirstStep(c) /\ answer'[r] = answer[r]
      BY <3>1, <3>3, GotoType DEF Before
    <3>5. AtWork(r)'
      BY <3>2, <3>3, <3>4 DEF AtWork, FirstStep, DraftOps, After
    <3>6. JobTells(r)'
      BY <2>2, <3>2, <3>3, <3>4 DEF JobTells, Job, None, Before, After
    <3> QED
      BY <2>1, <3>5, <3>6 DEF JobInv
  <2>4. CASE Read(r)
    <3>1. pc[r] = "read" /\ UNCHANGED <<jobs, runtime, call, set>> /\ ~Job(r) /\ set[r] = 0
          /\ answer[r] = 0 /\ runtime.by # r
      BY <2>2, <2>4 DEF Read, JobTells, Before
    <3>2. CASE \E code : Ends(r, code) /\ UNCHANGED copy
      <4>1. AtWork(r)' /\ JobTells(r)'
        BY <2>2, <3>1, <3>2, EndsTells DEF mine
      <4> QED
        BY <2>1, <4>1 DEF JobInv
    <3>3. CASE /\ copy' = [copy EXCEPT ![r] = drafts[call[r].draft].values]
               /\ Goto(r, Continues(call[r], drafts[call[r].draft].values))
      <4>1. Continues(call[r], drafts[call[r].draft].values) \in { "write", "invalid", "unsupported", "queue" }
        BY DEF Continues
      <4>2. /\ pc'[r] = Continues(call[r], drafts[call[r].draft].values) /\ answer'[r] = answer[r]
        BY <3>3, <4>1, GotoType DEF Before
      <4>3. copy'[r] = drafts[call[r].draft].values
        BY <3>3 DEF TypeInv
      <4>4. AtWork(r)'
        <5>1. call[r] \in Calls /\ call[r].op \in DraftOps /\ call'[r] = call[r]
          BY <2>2, <3>1 DEF AtWork
        <5>2. pc'[r] # "write" => call[r].op = "apply"
          BY <4>2 DEF Continues
        <5> QED
          BY <4>1, <4>2, <5>1, <5>2 DEF AtWork, After
      <4>5. pc'[r] = "queue" => RuntimeApplySupported(copy'[r])
        BY <4>2, <4>3 DEF Continues
      <4>6. JobTells(r)'
        BY <3>1, <4>1, <4>2, <4>5 DEF JobTells, Job, None, Before, After
      <4> QED
        BY <2>1, <4>4, <4>6 DEF JobInv
    <3> QED
      BY <2>4, <3>2, <3>3 DEF Read
  <2>5. CASE Write(r) \/ RefuseInvalid(r) \/ RefuseUnsupported(r) \/ MarkApplied(r)
    <3>1. UNCHANGED <<jobs, runtime, mine>> /\ \E code : Ends(r, code)
      BY <2>2, <2>5, Saves
    <3>0. pc[r] \in { "write", "invalid", "unsupported", "applied" }
      BY <2>5 DEF Write, RefuseInvalid, RefuseUnsupported, MarkApplied
    <3>2. ~Job(r) \/ (pc[r] = "applied" /\ jobs[r].status = "succeeded")
      BY <2>2, <3>0 DEF JobTells, Before
    <3>3. AtWork(r)' /\ JobTells(r)'
      BY <2>2, <3>1, <3>2, EndsTells DEF After
    <3> QED
      BY <2>1, <3>3 DEF JobInv
  <2>6. CASE Queue(r)
    <3>1. /\ pc[r] = "queue" /\ set[r] = 0 /\ runtime.by # r /\ answer[r] = 0
          /\ RuntimeApplySupported(copy[r]) /\ call[r].op = "apply" /\ call[r] \in Calls
      BY <2>2, <2>6 DEF Queue, AtWork, JobTells, Before
    <3>2. pc'[r] = "set" /\ answer'[r] = answer[r] /\ UNCHANGED <<runtime, mine>>
      BY <2>6, GotoType DEF Queue, After
    <3>3. jobs'[r] = [status |-> "queued", draft |-> call[r].draft, plan |-> copy[r]]
      BY <2>6 DEF Queue, TypeInv
    <3>4. copy[r] \in Changes /\ Len(copy[r]) \in Nat
      BY DEF TypeInv, Changes
    <3>5. AtWork(r)'
      BY <3>1, <3>2 DEF AtWork, mine, After
    <3>6. JobTells(r)'
      BY <3>1, <3>2, <3>3, <3>4 DEF JobTells, Job, None, Before, After, mine
    <3> QED
      BY <2>1, <3>5, <3>6 DEF JobInv
  <2>7. CASE SetNext(r)
    <3>0. pc[r] = "set" /\ ~AllSet(r)
      BY <2>7 DEF SetNext
    <3>1. /\ pc[r] = "set" /\ answer[r] = 0 /\ Job(r) /\ jobs[r].status = "queued"
          /\ set[r] < Len(copy[r]) /\ set[r] \in Nat /\ copy[r] \in Changes /\ Len(copy[r]) \in Nat
      BY <2>2, <3>0, NotAllSet
    <3>2. UNCHANGED <<jobs, call, copy, answer, pc>>
      BY <2>7 DEF SetNext
    <3>3. set'[r] = set[r] + 1 /\ runtime'.by = r /\ runtime'.value = copy[r][set[r] + 1].value
      BY <2>7 DEF SetNext, TypeInv
    <3>4. AtWork(r)'
      BY <2>2, <3>2 DEF AtWork
    <3>5. InForce(r, set[r])'
      <4>1. set[r] + 1 \in DOMAIN copy[r]
        BY <3>1 DEF Changes
      <4> QED
        BY <3>2, <3>3, <4>1 DEF InForce
    <3>6. JobTells(r)'
      <4>1. set'[r] <= Len(copy[r]) /\ 0 \notin 200 .. 299
        BY <3>1, <3>3
      <4> QED
        BY <2>2, <3>1, <3>2, <3>5, <4>1 DEF JobTells, Job, None, Before, After
    <3> QED
      BY <2>1, <3>4, <3>6 DEF JobInv
  <2>13. CASE SetFails(r)
    <3>0. pc[r] = "set" /\ ~AllSet(r)
      BY <2>13 DEF SetFails
    <3>1. /\ pc[r] = "set" /\ answer[r] = 0 /\ Job(r) /\ jobs[r].status = "queued"
          /\ set[r] < Len(copy[r]) /\ set[r] \in Nat /\ copy[r] \in Changes /\ Len(copy[r]) \in Nat
      BY <2>2, <3>0, NotAllSet
    <3>2. UNCHANGED <<jobs, mine>> /\ pc'[r] = "failed" /\ answer'[r] = answer[r]
      BY <2>13, GotoType DEF SetFails, After
    <3>3. runtime'.by = r => InForce(r, set[r])' \/ InForce(r, set[r] + 1)'
      <4>1. CASE runtime' = runtime
        BY <2>2, <3>1, <3>2, <4>1 DEF JobTells, InForce, mine
      <4>2. CASE runtime' = [value |-> copy[r][set[r] + 1].value, by |-> r]
        <5>1. set[r] + 1 \in DOMAIN copy[r] /\ runtime'.value = copy[r][set[r] + 1].value
          BY <3>1, <4>2 DEF Changes
        <5> QED
          BY <3>2, <5>1 DEF InForce, mine
      <4> QED
        BY <2>13, <4>1, <4>2 DEF SetFails
    <3>4. AtWork(r)'
      BY <2>2, <3>1, <3>2 DEF AtWork, After, mine
    <3>5. JobTells(r)'
      BY <2>2, <3>1, <3>2, <3>3 DEF JobTells, Job, None, Before, After, mine
    <3> QED
      BY <2>1, <3>4, <3>5 DEF JobInv
  <2>8. ASSUME NEW s \in { "succeeded", "failed" }, Settled(r, s), Job(r)
        PROVE  jobs'[r].status = s /\ jobs'[r].draft = jobs[r].draft /\ jobs'[r].plan = jobs[r].plan
    <3>1. jobs[r] \in JobRow
      BY <2>8 DEF TypeInv, Job, NoJob
    <3>2. jobs'[r] = [jobs[r] EXCEPT !.status = s]
      BY <2>8 DEF Settled, TypeInv
    <3> QED
      BY <3>1, <3>2 DEF JobRow
  <2>9. CASE RecordFailure(r)
    <3>1. pc[r] = "failed" /\ Job(r) /\ set[r] < Len(copy[r])
      BY <2>2, <2>9 DEF RecordFailure, JobTells, After
    <3>2. jobs'[r].status = "failed" /\ jobs'[r].draft = jobs[r].draft /\ jobs'[r].plan = jobs[r].plan
      BY <2>8, <2>9, <3>1 DEF RecordFailure
    <3>3. PICK code \in { 400, 500 } : Ends(r, code)
      BY <2>9 DEF RecordFailure
    <3>4. pc'[r] = "ended" /\ answer'[r] = code /\ UNCHANGED <<runtime, mine>>
      BY <2>9, <3>3, EndsType DEF RecordFailure
    <3>5. AtWork(r)'
      BY <3>4 DEF AtWork, After
    <3>6. JobTells(r)'
      <4>1. code \notin 200 .. 299
        BY <3>3
      <4> QED
        BY <2>2, <3>1, <3>2, <3>4, <4>1 DEF JobTells, InForce, Job, None, Before, After, mine
    <3> QED
      BY <2>1, <3>5, <3>6 DEF JobInv
  <2>10. CASE RecordSuccess(r)
    <3>1. pc[r] = "set" /\ Job(r) /\ set[r] = Len(copy[r]) /\ answer[r] = 0
      BY <2>2, <2>10 DEF RecordSuccess, AllSet, JobTells, After
    <3>2. jobs'[r].status = "succeeded" /\ jobs'[r].draft = jobs[r].draft /\ jobs'[r].plan = jobs[r].plan
      BY <2>8, <2>10, <3>1 DEF RecordSuccess
    <3>3. pc'[r] = "applied" /\ answer'[r] = answer[r] /\ UNCHANGED <<runtime, mine>>
      BY <2>10, GotoType DEF RecordSuccess, After
    <3>5. AtWork(r)'
      BY <2>2, <3>1, <3>3 DEF AtWork, After, mine
    <3>6. JobTells(r)'
      BY <2>2, <3>1, <3>2, <3>3 DEF JobTells, InForce, Job, None, Before, After, mine
    <3> QED
      BY <2>1, <3>5, <3>6 DEF JobInv
  <2>11. CASE SetLimit(r) \/ ClearLimit(r) \/ LimitFails(r)
    <3>1. pc[r] = "etcd" /\ UNCHANGED <<jobs, mine>> /\ ~Job(r) /\ set[r] = 0
      BY <2>2, <2>11 DEF SetLimit, ClearLimit, LimitFails, JobTells, Before
    <3>2. pc'[r] = "ended"
      BY <2>11, EndsType DEF SetLimit, ClearLimit, LimitFails
    <3>3. AtWork(r)'
      BY <3>2 DEF AtWork, After
    <3>4. JobTells(r)'
      BY <3>1, <3>2 DEF JobTells, Job, None, Before, After, mine
    <3> QED
      BY <2>1, <3>3, <3>4 DEF JobInv
  <2>12. CASE Die(r) \/ TransactionFails(r)
    <3>1. PICK code \in { NoReply, 500 } : Ends(r, code)
      BY <2>12 DEF Die, TransactionFails
    <3>2. UNCHANGED <<jobs, runtime, mine>>
      BY <2>12 DEF Die, TransactionFails
    <3>3. AtWork(r)' /\ JobTells(r)'
      BY <2>2, <3>1, <3>2, EndsTells
    <3> QED
      BY <2>1, <3>3 DEF JobInv
  <2> QED
    BY <1>2, <2>3, <2>4, <2>5, <2>6, <2>7, <2>9, <2>10, <2>11, <2>12, <2>13 DEF Step
<1> QED
  BY <1>1, <1>2 DEF Next

-----------------------------------------------------------------------------
(* The limit *)

LEMMA NextLimitIsGood ==
  ASSUME TypeInv, JobInv, LimitIsGood, [Next]_vars
  PROVE  LimitIsGood'
<1>1. CASE runtime' = runtime
  BY <1>1 DEF LimitIsGood
<1>2. ASSUME NEW r \in Requests, SetNext(r) \/ SetFails(r) PROVE LimitIsGood'
  <2>0. pc[r] = "set" /\ ~AllSet(r) /\ JobTells(r)
    BY <1>2 DEF SetNext, SetFails, JobInv
  <2>1. /\ RuntimeApplySupported(copy[r]) /\ copy[r] \in Changes /\ set[r] \in Nat
        /\ set[r] < Len(copy[r]) /\ Len(copy[r]) \in Nat
    BY <2>0, NotAllSet
  <2>2. copy[r][set[r] + 1].value >= 1 /\ copy[r][set[r] + 1].value \in Int
    BY <2>1, LimitsAreGood
  <2> QED
    BY <1>1, <1>2, <2>2 DEF SetNext, SetFails, LimitIsGood
<1>3. ASSUME NEW r \in Requests, SetLimit(r) \/ ClearLimit(r) \/ LimitFails(r) PROVE LimitIsGood'
  <2>1. call[r].op = "set_limit" => call[r].value \in Int
    BY <1>3 DEF SetLimit, ClearLimit, LimitFails, JobInv, AtWork
  <2> QED
    BY <1>1, <1>3, <2>1 DEF SetLimit, ClearLimit, LimitFails, LimitIsGood
<1>4. ASSUME NEW r \in Requests, Arrive(r) \/ Step(r) \/ Die(r) PROVE LimitIsGood'
  <2>1. CASE Write(r) \/ RefuseInvalid(r) \/ RefuseUnsupported(r) \/ MarkApplied(r)
    BY <1>1, <2>1 DEF Write, RefuseInvalid, RefuseUnsupported, MarkApplied
  <2>2. CASE Arrive(r) \/ Read(r) \/ Die(r) \/ TransactionFails(r) \/ Queue(r)
             \/ RecordFailure(r) \/ RecordSuccess(r)
    BY <1>1, <2>2 DEF Arrive, Read, Die, TransactionFails, Queue, RecordFailure, RecordSuccess
  <2> QED
    BY <1>2, <1>3, <1>4, <2>1, <2>2 DEF Step
<1> QED
  BY <1>1, <1>4 DEF Next, vars

-----------------------------------------------------------------------------
(* The drafts *)

\* A job that has succeeded stays as it is.
LEMMA SuccessStays ==
  ASSUME TypeInv, JobInv, [Next]_vars, NEW q \in Requests, Job(q), jobs[q].status = "succeeded"
  PROVE  jobs'[q] = jobs[q]
<1>1. CASE UNCHANGED vars
  BY <1>1 DEF vars
<1>2. ASSUME NEW r \in Requests, Arrive(r) \/ Step(r) \/ Die(r) PROVE jobs'[q] = jobs[q]
  <2>1. CASE q # r
    BY <1>2, <2>1, Alone
  <2>2. CASE q = r
    <3>1. pc[r] \notin { "queue", "set", "failed" }
      BY <2>2 DEF JobInv, JobTells, Before
    <3>2. CASE Write(r) \/ RefuseInvalid(r) \/ RefuseUnsupported(r) \/ MarkApplied(r)
      BY <3>2 DEF Write, RefuseInvalid, RefuseUnsupported, MarkApplied
    <3> QED
      BY <1>2, <3>1, <3>2 DEF Step, Arrive, Read, Die, TransactionFails, SetLimit, ClearLimit, LimitFails,
                              Queue, SetNext, SetFails, RecordFailure, RecordSuccess
  <2> QED
    BY <2>1, <2>2
<1> QED
  BY <1>1, <1>2 DEF Next

LEMMA DoneStays ==
  ASSUME TypeInv, JobInv, [Next]_vars, NEW d, NEW changes, Done(d, changes)
  PROVE  Done(d, changes)'
<1>1. PICK q \in Requests : /\ Job(q) /\ jobs[q].status = "succeeded"
                            /\ jobs[q].draft = d /\ jobs[q].plan = changes
  BY DEF Done
<1>2. jobs'[q] = jobs[q]
  BY <1>1, SuccessStays
<1> QED
  BY <1>1, <1>2 DEF Done, Job

\* A row that keeps its findings keeps what it says.
LEMMA SaysStays ==
  ASSUME TypeInv, JobInv, [Next]_vars, NEW d, NEW w, Says(d, w),
         NEW v, v.values = w.values, v.status = w.status,
         v.validation = w.validation, v.plan = w.plan
  PROVE  Says(d, v)'
BY DoneStays DEF Says

\* A request that writes what it found leaves a draft that is not crossed
\* with findings of its changes.
LEMMA SaveTells ==
  ASSUME TypeInv, JobInv, DraftInv, [Next]_vars, NEW r \in Requests, call[r].draft \in Ids,
         NEW found \in DraftRow, NEW code, Save(r, found, code),
         Draft(r).values = copy[r] /\ Says(call[r].draft, Draft(r)) => Says(call[r].draft, found)
  PROVE  DraftInv'
<1>0. drafts \in [Ids -> DraftRow] /\ crossed \in SUBSET Ids
  BY DEF TypeInv
<1> SUFFICES ASSUME NEW d \in Ids, d \notin crossed' PROVE Says(d, drafts[d])'
  BY DEF DraftInv, DraftTells
<1>1. CASE d \notin crossed /\ drafts'[d] = drafts[d]
  <2> DEFINE w == drafts[d]
  <2>1. Says(d, drafts[d])
    BY <1>1 DEF DraftInv, DraftTells
  <2> SUFFICES ASSUME NEW v, v = drafts'[d] PROVE Says(d, v)'
    OBVIOUS
  <2> QED
    BY <1>1, <2>1, SaysStays
<1>2. CASE d = call[r].draft /\ drafts'[d] = found /\ drafts[d].values = copy[r] /\ d \notin crossed
  <2>1. Says(d, drafts[d])
    BY <1>2 DEF DraftInv, DraftTells
  <2>2. Says(d, found)
    BY <1>2, <2>1 DEF Draft
  <2>3. Says(d, found)'
    BY <2>2, SaysStays
  <2> QED
    BY <1>2, <2>3
<1>3. \/ UNCHANGED <<drafts, crossed>>
      \/ /\ drafts' = [drafts EXCEPT ![call[r].draft] = found]
         /\ crossed' = IF drafts[call[r].draft].values = copy[r] THEN crossed ELSE crossed \cup {call[r].draft}
  BY DEF Save
<1> QED
  BY <1>0, <1>1, <1>2, <1>3

\* What each request finds is of its copy.
LEMMA FindingsTell ==
  ASSUME TypeInv, JobInv, NEW r \in Requests, call[r].draft \in Ids,
         Draft(r).values = copy[r], Says(call[r].draft, Draft(r))
  PROVE  /\ Says(call[r].draft, [Draft(r) EXCEPT !.status = Validated(copy[r]), !.validation = {copy[r]}])
         /\ Says(call[r].draft, [Draft(r) EXCEPT !.plan = {copy[r]}])
         /\ Says(call[r].draft, [Draft(r) EXCEPT !.validation = {copy[r]}, !.plan = {copy[r]}])
         /\ pc[r] = "applied" =>
              Says(call[r].draft, [Draft(r) EXCEPT !.status = "applied", !.validation = {copy[r]}, !.plan = {copy[r]}])
<1>1. Draft(r) \in DraftRow
  BY DEF TypeInv, Draft
<1>2. Validated(copy[r]) \in { "valid", "invalid" }
  BY DEF Validated
<1>3. pc[r] = "applied" => Done(call[r].draft, copy[r])
  BY DEF JobInv, JobTells, Done, After
<1> QED
  BY <1>1, <1>2, <1>3 DEF Says, DraftRow

LEMMA NextDraftInv ==
  ASSUME TypeInv, JobInv, DraftInv, [Next]_vars
  PROVE  DraftInv'
<1>0. drafts \in [Ids -> DraftRow] /\ crossed \in SUBSET Ids
  BY DEF TypeInv
<1>1. \A d \in Ids : \A w : d \notin crossed /\ w = drafts'[d] /\ w.values = drafts[d].values
                            /\ w.status = drafts[d].status /\ w.validation = drafts[d].validation
                            /\ w.plan = drafts[d].plan => Says(d, w)'
  <2> SUFFICES ASSUME NEW d \in Ids, NEW w, d \notin crossed, w.values = drafts[d].values,
                      w.status = drafts[d].status, w.validation = drafts[d].validation,
                      w.plan = drafts[d].plan
               PROVE  Says(d, w)'
    OBVIOUS
  <2>1. Says(d, drafts[d])
    BY DEF DraftInv, DraftTells
  <2> QED
    BY <2>1, SaysStays
<1>2. CASE UNCHANGED <<drafts, crossed>>
  BY <1>0, <1>1, <1>2 DEF DraftInv, DraftTells
<1>3. ASSUME NEW r \in Requests, Write(r) PROVE DraftInv'
  <2>1. call[r] \in Calls /\ call[r].op \in DraftOps \cup { "create" }
    BY <1>3 DEF Write, JobInv, AtWork
  <2>2. CASE Create(r) /\ call[r].op = "create"
    <3> SUFFICES ASSUME NEW d \in Ids, d \notin crossed', NEW w, w = drafts'[d] PROVE Says(d, w)'
      BY DEF DraftInv, DraftTells
    <3>1. CASE d = r
      <4>1. w = Fresh(call[r].values)
        BY <1>0, <2>2, <3>1 DEF Create
      <4> QED
        BY <4>1 DEF Fresh, Says
    <3>2. CASE d # r
      BY <1>0, <1>1, <2>2, <3>2 DEF Create
    <3> QED
      BY <3>1, <3>2
  <2>3. CASE Update(r) /\ call[r].op = "update"
    <3> SUFFICES ASSUME NEW d \in Ids, d \notin crossed', NEW w, w = drafts'[d] PROVE Says(d, w)'
      BY DEF DraftInv, DraftTells
    <3>1. CASE d = call[r].draft /\ Exists(d) /\ "values" \in DOMAIN call[r]
      <4>1. w = Reset(drafts[d], call[r].values) /\ drafts[d] \in DraftRow
        BY <1>0, <2>3, <3>1 DEF Update
      <4>2. w.status = "draft" /\ w.validation = {} /\ w.plan = {}
        BY <4>1 DEF Reset, DraftRow
      <4> QED
        BY <4>2 DEF Says
    <3>2. CASE ~(d = call[r].draft /\ Exists(d) /\ "values" \in DOMAIN call[r])
      <4>1. drafts'[d] = drafts[d] /\ d \notin crossed
        BY <1>0, <2>3, <3>2 DEF Update
      <4> QED
        BY <1>1, <4>1
    <3> QED
      BY <3>1, <3>2
  <2>4. CASE Delete(r) /\ call[r].op = "delete"
    <3> SUFFICES ASSUME NEW d \in Ids, d \notin crossed', NEW w, w = drafts'[d] PROVE Says(d, w)'
      BY DEF DraftInv, DraftTells
    <3>1. d \notin crossed /\ drafts[d] \in DraftRow
      BY <1>0, <2>4 DEF Delete
    <3>2. w = drafts[d] \/ w = [drafts[d] EXCEPT !.row = "deleted"]
      BY <1>0, <2>4 DEF Delete
    <3> QED
      BY <1>1, <3>1, <3>2 DEF DraftRow
  <2>5. CASE (Validate(r) \/ Plan(r)) /\ call[r].op \in DraftOps
    <3>1. call[r].draft \in Ids
      BY <2>1, <2>5
    <3>2. CASE Validate(r)
      <4> DEFINE found == [Draft(r) EXCEPT !.status = Validated(copy[r]), !.validation = {copy[r]}]
      <4>1. found \in DraftRow
        BY <3>1, Findings
      <4>2. Draft(r).values = copy[r] /\ Says(call[r].draft, Draft(r)) => Says(call[r].draft, found)
        BY <3>1, FindingsTell
      <4>3. Save(r, found, 200)
        BY <3>2 DEF Validate
      <4> QED
        BY <3>1, <4>1, <4>2, <4>3, SaveTells
    <3>3. CASE Plan(r)
      <4> DEFINE found == [Draft(r) EXCEPT !.plan = {copy[r]}]
      <4>1. found \in DraftRow
        BY <3>1, Findings
      <4>2. Draft(r).values = copy[r] /\ Says(call[r].draft, Draft(r)) => Says(call[r].draft, found)
        BY <3>1, FindingsTell
      <4>3. Save(r, found, 200)
        BY <3>3 DEF Plan
      <4> QED
        BY <3>1, <4>1, <4>2, <4>3, SaveTells
    <3> QED
      BY <2>5, <3>2, <3>3
  <2> QED
    BY <1>3, <2>1, <2>2, <2>3, <2>4, <2>5 DEF Write, DraftOps
<1>4. ASSUME NEW r \in Requests, RefuseInvalid(r) PROVE DraftInv'
  <2> DEFINE found == [Draft(r) EXCEPT !.status = Validated(copy[r]), !.validation = {copy[r]}]
  <2>1. call[r].draft \in Ids
    BY <1>4 DEF RefuseInvalid, JobInv, AtWork, DraftOps
  <2>2. found \in DraftRow
    BY <2>1, Findings
  <2>3. Draft(r).values = copy[r] /\ Says(call[r].draft, Draft(r)) => Says(call[r].draft, found)
    BY <2>1, FindingsTell
  <2>4. Save(r, found, 400)
    BY <1>4 DEF RefuseInvalid
  <2> QED
    BY <2>1, <2>2, <2>3, <2>4, SaveTells
<1>5. ASSUME NEW r \in Requests, RefuseUnsupported(r) PROVE DraftInv'
  <2> DEFINE found == [Draft(r) EXCEPT !.validation = {copy[r]}, !.plan = {copy[r]}]
  <2>1. call[r].draft \in Ids
    BY <1>5 DEF RefuseUnsupported, JobInv, AtWork, DraftOps
  <2>2. found \in DraftRow
    BY <2>1, Findings
  <2>3. Draft(r).values = copy[r] /\ Says(call[r].draft, Draft(r)) => Says(call[r].draft, found)
    BY <2>1, FindingsTell
  <2>4. Save(r, found, 409)
    BY <1>5 DEF RefuseUnsupported
  <2> QED
    BY <2>1, <2>2, <2>3, <2>4, SaveTells
<1>6. ASSUME NEW r \in Requests, MarkApplied(r) PROVE DraftInv'
  <2> DEFINE found == [Draft(r) EXCEPT !.status = "applied", !.validation = {copy[r]}, !.plan = {copy[r]}]
  <2>1. call[r].draft \in Ids /\ pc[r] = "applied"
    BY <1>6 DEF MarkApplied, JobInv, AtWork, DraftOps, After
  <2>2. found \in DraftRow
    BY <2>1, Findings
  <2>3. Draft(r).values = copy[r] /\ Says(call[r].draft, Draft(r)) => Says(call[r].draft, found)
    BY <2>1, FindingsTell
  <2>4. Save(r, found, 202)
    BY <1>6 DEF MarkApplied
  <2> QED
    BY <2>1, <2>2, <2>3, <2>4, SaveTells
<1>7. ASSUME NEW r \in Requests, Arrive(r) \/ Step(r) \/ Die(r) PROVE DraftInv'
  <2>1. CASE Arrive(r) \/ Read(r) \/ Die(r) \/ Queue(r) \/ SetNext(r) \/ RecordFailure(r)
             \/ RecordSuccess(r) \/ SetLimit(r) \/ ClearLimit(r)
             \/ SetFails(r) \/ LimitFails(r) \/ TransactionFails(r)
    BY <1>2, <2>1 DEF Arrive, Read, Die, Queue, SetNext, RecordFailure, RecordSuccess, SetLimit, ClearLimit,
                      SetFails, LimitFails, TransactionFails
  <2> QED
    BY <1>3, <1>4, <1>5, <1>6, <1>7, <2>1 DEF Step
<1> QED
  BY <1>2, <1>7 DEF Next, vars

-----------------------------------------------------------------------------
(* Theorems *)

\* The invariant the two theorems below follow from: by how far its request has
\* come, what a job and the limit are; of what changes the findings of a draft.
THEOREM InductiveInvariant == Spec => []IInv
<1>1. Init => IInv
  BY InitIInv
<1>2. IInv /\ [Next]_vars => IInv'
  BY NextTypeInv, NextJobInv, NextLimitIsGood, NextDraftInv DEF IInv
<1> QED
  BY <1>1, <1>2, PTL DEF Spec

\* An apply job says what became of the limit: succeeded, all of its changes
\* are written and the last is in force until somebody else writes; failed or
\* queued for ever, at most the change after the last confirmed one is, and
\* nobody was told of success (AdminConfigDraftsController.apply and
\* _record_apply_failure), whatever puts, transactions and processes fail
\* between its writes.
THEOREM JobsAreTrue == Spec => []JobsTellTheTruth
<1>1. IInv => JobsTellTheTruth
  <2> SUFFICES ASSUME IInv PROVE JobsTellTheTruth
    OBVIOUS
  <2>1. Effective \in Int /\ Effective >= 1
    BY DEF IInv, TypeInv, LimitIsGood, Effective
  <2>2. ASSUME NEW r \in Requests, Job(r)
        PROVE  /\ jobs[r].status = "succeeded" =>
                    /\ set[r] = Len(jobs[r].plan)
                    /\ runtime.by = r => Effective = jobs[r].plan[Len(jobs[r].plan)].value
               /\ jobs[r].status = "failed" => set[r] < Len(jobs[r].plan)
               /\ runtime.by = r => \E i \in DOMAIN jobs[r].plan \cap { set[r], set[r] + 1 } :
                                      Effective = jobs[r].plan[i].value
    <3>1. JobTells(r)
      BY DEF IInv, JobInv
    <3>2. /\ jobs[r].plan = copy[r] /\ RuntimeApplySupported(copy[r]) /\ copy[r] \in Changes
          /\ set[r] \in Nat /\ Len(copy[r]) \in Nat
      BY <2>2, <3>1 DEF IInv, TypeInv, JobTells, Changes
    <3>3. ASSUME NEW i, InForce(r, i) PROVE i \in DOMAIN copy[r] /\ Effective = copy[r][i].value
      <4>1. i \in 1 .. Len(copy[r]) /\ runtime.value = copy[r][i].value
        BY <3>2, <3>3 DEF InForce, Changes
      <4>2. copy[r][i].value \in Int /\ copy[r][i].value >= 1
        BY <3>2, <4>1, LimitsAreGood
      <4> QED
        BY <3>3, <4>1, <4>2 DEF Effective, InForce
    <3>4. /\ jobs[r].status = "succeeded" => set[r] = Len(copy[r]) /\ (runtime.by = r => InForce(r, set[r]))
          /\ jobs[r].status = "failed" => set[r] < Len(copy[r])
          /\ runtime.by = r => InForce(r, set[r]) \/ InForce(r, set[r] + 1)
      BY <2>2, <3>1 DEF JobTells
    <3> QED
      BY <3>2, <3>3, <3>4
  <2>3. ASSUME NEW r \in Requests, Job(r)
        PROVE  /\ jobs[r].status = "queued" /\ pc[r] = "ended" => answer[r] \in { NoReply, 500 }
               /\ answer[r] \in 200 .. 299 => jobs[r].status = "succeeded"
    BY <2>3 DEF IInv, JobInv, JobTells
  <2> QED
    BY <2>1, <2>2, <2>3 DEF JobsTellTheTruth
<1> QED
  BY <1>1, InductiveInvariant, PTL

\* A draft's status, validation, plan and "applied" are of the changes it has
\* now, unless a request found them in changes that another replaced
\* meanwhile (the writes of validate, plan and apply, and update, which
\* resets them).
THEOREM DraftsAreTrue == Spec => []DraftsSayWhatTheyAre
<1>1. IInv => DraftsSayWhatTheyAre
  BY DEF IInv, DraftInv, DraftTells, Says, Done, DraftsSayWhatTheyAre
<1> QED
  BY <1>1, InductiveInvariant, PTL
=============================================================================
