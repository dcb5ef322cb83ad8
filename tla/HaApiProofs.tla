----------------------------- MODULE HaApiProofs -----------------------------
(***************************************************************************)
(* Theorems about HaApi, for every number of requests, every call they may *)
(* make and every form it may come in.                                     *)
(***************************************************************************)
EXTENDS HaApi, SequenceTheorems, TLAPS

USE HaApiAssumption

-----------------------------------------------------------------------------
(* The types.  A name, a payload, a flag is one that some call gives.       *)

Names    == {"A", "a"} \cup { c.name : c \in Calls }
Flags    == BOOLEAN \cup { c.on_maintenance : c \in Calls }
Statuses == { "new", "running", "error", "finished" }
Rows     == { None, "live", "deleted" }

Segment == [row : Rows, name : Names]
Host    == [row : Rows, name : Names, segment : Ids, on_maintenance : Flags]
Note    == [status : Statuses, type : { c.type : c \in Calls }, host : Ids,
            payload : { c.payload : c \in Calls }, generated : { c.generated : c \in Calls }]
NoNote  == [status |-> None]
NoCall  == [op |-> None]

\* the points between two transactions of a request, before it has written
Checking == { "lock", "read", "nova", "check", "write" }
PCs      == { "idle", "cast", "ended" } \cup Checking

TypeInv ==
  /\ segments \in [Ids -> Segment]
  /\ hosts \in [Ids -> Host]
  /\ notes \in [Requests -> Note \cup {NoNote}]
  /\ backend \in BOOLEAN
  /\ lock \in SUBSET Requests
  /\ pc \in [Requests -> PCs]
  /\ call \in [Requests -> Calls \cup {NoCall}]
  /\ copy \in [Requests -> Ids]
  /\ known \in [Requests -> SUBSET Requests]
  /\ earlier \in [Requests -> SUBSET Requests]
  /\ wrote \in [Requests -> BOOLEAN]
  /\ DOMAIN events = Requests /\ DOMAIN answer = Requests

\* A request at work has a call, and it is at a point its call leads to.
AtWork(r) ==
  /\ pc[r] = "idle" => call[r] = NoCall
  /\ pc[r] \notin { "idle", "ended" } => call[r] \in Calls
  /\ pc[r] = "lock" => IsCompute(r)
  /\ pc[r] = "nova" => call[r].op \in { "create_host", "update_host" }
  /\ pc[r] = "check" => call[r].op \notin { "create_segment", "create_host" }
  /\ pc[r] = "cast" => call[r].op = "notify"
  /\ r \in lock => IsCompute(r) /\ pc[r] \in { "read", "check", "write", "cast" }

CallAtWork == \A r \in Requests : AtWork(r)

-----------------------------------------------------------------------------
LEMMA InitTypeInv == Init => TypeInv /\ CallAtWork
<1> SUFFICES ASSUME Init PROVE TypeInv /\ CallAtWork
  OBVIOUS
<1>1. segments \in [Ids -> Segment]
  BY DEF Init, Segment, Rows, Names
<1>2. hosts \in [Ids -> Host]
  BY DEF Init, Host, Rows, Names, Flags, Ids
<1>3. TypeInv
  BY <1>1, <1>2 DEF Init, TypeInv, PCs, NoCall, NoNote, Ids
<1>4. CallAtWork
  BY DEF Init, CallAtWork, AtWork, NoCall
<1> QED
  BY <1>3, <1>4

\* which transaction a write is
LEMMA WriteKinds ==
  ASSUME NEW r \in Requests, Write(r)
  PROVE  /\ pc[r] = "write" /\ UNCHANGED <<backend, call, mine, faults>>
         /\ \/ call[r].op = "create_segment" /\ CreateSegment(r)
            \/ call[r].op = "update_segment" /\ UpdateSegment(r)
            \/ call[r].op = "delete_segment" /\ DeleteSegment(r)
            \/ call[r].op = "create_host" /\ CreateHost(r)
            \/ call[r].op = "update_host" /\ UpdateHost(r)
            \/ call[r].op = "delete_host" /\ DeleteHost(r)
            \/ call[r].op \notin SegmentOps \cup HostOps /\ CreateNotification(r)
BY DEF Write, SegmentOps, HostOps

\* what a write comes to: it fails, it succeeds, or a cast is still to come
LEMMA WriteEnds ==
  ASSUME NEW r \in Requests, Write(r)
  PROVE  \/ /\ UNCHANGED <<rows, wrote>> /\ Emitted(r, "error")
            /\ \E exc : Refuse(r, exc)
         \/ /\ Written(r)
            /\ call[r].op \in SegmentOps \cup HostOps
         \/ /\ wrote' = [wrote EXCEPT ![r] = TRUE] /\ Emitted(r, "end")
            /\ Goto(r, "cast")
            /\ call[r].op \notin SegmentOps \cup HostOps
<1>1. ASSUME NEW exc, Fails(r, exc)
      PROVE  UNCHANGED <<rows, wrote>> /\ Emitted(r, "error") /\ Refuse(r, exc)
  BY <1>1 DEF Fails
<1>2. (\E exc : Fails(r, exc)) \/ Written(r) \/ CreateNotification(r)
  BY WriteKinds DEF CreateSegment, UpdateSegment, DeleteSegment, CreateHost, UpdateHost, DeleteHost
<1> QED
  BY <1>1, <1>2, WriteKinds DEF CreateNotification, CreateSegment, UpdateSegment, DeleteSegment, CreateHost, UpdateHost, DeleteHost, SegmentOps, HostOps

\* A step of one request leaves what belongs to the others alone.
LEMMA Alone ==
  ASSUME TypeInv, NEW r \in Requests, Arrive(r) \/ Step(r) \/ Die(r)
  PROVE  /\ \A q \in Requests \ {r} :
              /\ pc'[q] = pc[q] /\ call'[q] = call[q] /\ copy'[q] = copy[q]
              /\ known'[q] = known[q] /\ earlier'[q] = earlier[q] /\ wrote'[q] = wrote[q]
              /\ events'[q] = events[q] /\ answer'[q] = answer[q]
              /\ q \in lock' <=> q \in lock
         /\ UNCHANGED backend
<1>1. \E p : pc' = [pc EXCEPT ![r] = p]
  BY WriteEnds DEF Arrive, Step, Die, Lock, ReadSegment, ReadHost, ReadHostByName, CheckRecovery,
    CheckName, CheckDuplicate, Cast, Written, Refuse, Ends, Goto
<1>2. answer' = answer \/ \E a : answer' = [answer EXCEPT ![r] = a]
  BY WriteEnds DEF Arrive, Step, Die, Lock, ReadSegment, ReadHost, ReadHostByName, CheckRecovery,
    CheckName, CheckDuplicate, Cast, Written, Refuse, Ends, Goto
<1>3. lock' = lock \/ lock' = lock \ {r} \/ lock' = lock \cup {r}
  BY WriteEnds DEF Arrive, Step, Die, Lock, ReadSegment, ReadHost, ReadHostByName, CheckRecovery,
    CheckName, CheckDuplicate, Cast, Written, Refuse, Ends, Goto
<1>4. events' = events \/ \E e : events' = [events EXCEPT ![r] = e]
  BY WriteEnds DEF Arrive, Step, Die, Lock, ReadSegment, ReadHost, ReadHostByName, CheckRecovery,
    CheckName, CheckDuplicate, Cast, Written, Emitted, Emit
<1>5. wrote' = wrote \/ wrote' = [wrote EXCEPT ![r] = TRUE]
  BY WriteEnds DEF Arrive, Step, Die, Lock, ReadSegment, ReadHost, ReadHostByName, CheckRecovery,
    CheckName, CheckDuplicate, Cast, Written
<1>6. call' = call \/ \E c : call' = [call EXCEPT ![r] = c]
  BY WriteKinds DEF Arrive, Step, Die, Lock, ReadSegment, ReadHost, ReadHostByName, CheckRecovery,
    CheckName, CheckDuplicate, Cast
<1>7. /\ copy' = copy \/ \E h : copy' = [copy EXCEPT ![r] = h]
      /\ known' = known \/ \E k : known' = [known EXCEPT ![r] = k]
      /\ earlier' = earlier \/ \E k : earlier' = [earlier EXCEPT ![r] = k]
  BY WriteKinds DEF Arrive, Step, Die, Lock, ReadSegment, ReadHost, ReadHostByName, CheckRecovery,
    CheckName, CheckDuplicate, Cast, mine
<1>8. UNCHANGED backend
  BY WriteKinds DEF Arrive, Step, Die, Lock, ReadSegment, ReadHost, ReadHostByName, CheckRecovery,
    CheckName, CheckDuplicate, Cast
<1>9. ASSUME NEW q \in Requests \ {r}
      PROVE  /\ pc'[q] = pc[q] /\ answer'[q] = answer[q] /\ events'[q] = events[q]
             /\ wrote'[q] = wrote[q]
  BY <1>1, <1>2, <1>4, <1>5 DEF TypeInv
<1>10. ASSUME NEW q \in Requests \ {r}
      PROVE  /\ call'[q] = call[q] /\ copy'[q] = copy[q] /\ known'[q] = known[q]
             /\ earlier'[q] = earlier[q] /\ (q \in lock' <=> q \in lock)
  BY <1>3, <1>6, <1>7 DEF TypeInv
<1> QED
  BY <1>8, <1>9, <1>10

-----------------------------------------------------------------------------
(* The rows: what a write leaves of them.                                   *)

LEMMA NamesOf ==
  ASSUME NEW c \in Calls
  PROVE  /\ c.name \in Names /\ c.on_maintenance \in Flags
         /\ c.type \in { d.type : d \in Calls } /\ c.payload \in { d.payload : d \in Calls }
         /\ c.generated \in { d.generated : d \in Calls }
BY DEF Names, Flags

\* a segment's row and name after each step
LEMMA SegmentSteps ==
  ASSUME TypeInv, CallAtWork, NEW r \in Requests, Write(r)
  PROVE  /\ segments' \in [Ids -> Segment]
         /\ \A s \in Ids : segments'[s].row # segments[s].row =>
              \/ CreateSegment(r) /\ s = r /\ call[r].op = "create_segment" /\ segments'[s].row = "live"
              \/ DeleteSegment(r) /\ s = call[r].segment /\ call[r].op = "delete_segment"
                 /\ segments'[s].row = "deleted" /\ segments[s].row = "live"
<1>0. call[r] \in Calls /\ r \in Ids /\ segments \in [Ids -> Segment]
  BY WriteKinds DEF CallAtWork, AtWork, TypeInv, Ids
<1>1. CASE UNCHANGED segments
  BY <1>0, <1>1
<1>2. CASE /\ call[r].op = "create_segment" /\ CreateSegment(r)
           /\ segments' = [segments EXCEPT ![r] = [row |-> "live", name |-> call[r].name]]
  <2>1. [row |-> "live", name |-> call[r].name] \in Segment
    BY <1>0, NamesOf DEF Segment, Rows
  <2> QED
    BY <1>0, <1>2, <2>1
<1>3. CASE /\ call[r].op = "update_segment"
           /\ segments' = [segments EXCEPT ![call[r].segment].name = call[r].name]
  <2>1. call[r].name \in Names
    BY <1>0, NamesOf
  <2> QED
    BY <1>0, <1>3, <2>1 DEF Segment
<1>4. CASE /\ call[r].op = "delete_segment" /\ DeleteSegment(r)
           /\ segments[call[r].segment].row = "live"
           /\ segments' = [segments EXCEPT ![call[r].segment].row = "deleted"]
  BY <1>0, <1>4 DEF Segment, Rows
<1> QED
  BY <1>1, <1>2, <1>3, <1>4, WriteKinds
  DEF CreateSegment, UpdateSegment, DeleteSegment, CreateHost, UpdateHost, DeleteHost,
      CreateNotification, Fails, rows, Deleted, SegmentFound

\* a host's row and segment after each step
LEMMA HostSteps ==
  ASSUME TypeInv, CallAtWork, NEW r \in Requests, Write(r)
  PROVE  /\ hosts' \in [Ids -> Host]
         /\ \A h \in Ids :
              \/ hosts'[h].row = hosts[h].row /\ hosts'[h].segment = hosts[h].segment
              \/ hosts'[h].row = "deleted" /\ hosts[h].row = "live"
                 /\ hosts'[h].segment = hosts[h].segment
              \/ CreateHost(r) /\ h = r /\ call[r].op = "create_host" /\ hosts'[h].row = "live"
                 /\ hosts'[h].segment = call[r].segment
<1>0. call[r] \in Calls /\ r \in Ids /\ hosts \in [Ids -> Host]
  BY WriteKinds DEF CallAtWork, AtWork, TypeInv, Ids
<1>1. CASE UNCHANGED hosts
  BY <1>0, <1>1
<1>2. CASE /\ call[r].op = "delete_segment"
           /\ hosts' = [h \in Ids |-> IF h \in HostsOf(call[r].segment)
                                      THEN [hosts[h] EXCEPT !.row = "deleted"] ELSE hosts[h]]
  <2>1. ASSUME NEW h \in Ids
        PROVE  /\ hosts'[h] \in Host
               /\ \/ hosts'[h] = hosts[h]
                  \/ /\ hosts'[h].row = "deleted" /\ hosts[h].row = "live"
                     /\ hosts'[h].segment = hosts[h].segment
    BY <1>0, <1>2 DEF Host, Rows, HostsOf, HostFound
  <2> QED
    BY <1>2, <2>1
<1>3. CASE /\ call[r].op = "create_host" /\ CreateHost(r)
           /\ hosts' = [hosts EXCEPT ![r] = [row |-> "live", name |-> call[r].name,
                                             segment |-> call[r].segment, on_maintenance |-> FALSE]]
  <2>1. [row |-> "live", name |-> call[r].name, segment |-> call[r].segment,
         on_maintenance |-> FALSE] \in Host
    BY <1>0, <1>3, NamesOf DEF Host, Rows, Flags, HostOps
  <2> QED
    BY <1>0, <1>3, <2>1
<1>4. CASE /\ call[r].op = "update_host"
           /\ hosts' = [hosts EXCEPT ![call[r].host] =
                          IF "name" \in DOMAIN call[r] THEN [@ EXCEPT !.name = call[r].name]
                          ELSE [@ EXCEPT !.on_maintenance = call[r].on_maintenance]]
  <2>1. call[r].name \in Names /\ call[r].on_maintenance \in Flags
    BY <1>0, NamesOf
  <2> QED
    BY <1>0, <1>4, <2>1 DEF Host
<1>5. CASE /\ call[r].op = "delete_host" /\ hosts[call[r].host].row = "live"
           /\ hosts' = [hosts EXCEPT ![call[r].host].row = "deleted"]
  BY <1>0, <1>5 DEF Host, Rows
<1> QED
  BY <1>1, <1>2, <1>3, <1>4, <1>5, WriteKinds
  DEF CreateSegment, UpdateSegment, DeleteSegment, CreateHost, UpdateHost, DeleteHost,
      CreateNotification, Fails, rows, Deleted

\* a notification after each step
LEMMA NoteSteps ==
  ASSUME TypeInv, CallAtWork, NEW r \in Requests, Write(r)
  PROVE  /\ notes' \in [Requests -> Note \cup {NoNote}]
         /\ \A n \in Requests : notes'[n] # notes[n] =>
              /\ CreateNotification(r) /\ n = r /\ call[r].op = "notify"
              /\ notes'[n] = [status |-> "new", type |-> call[r].type, host |-> copy[r],
                              payload |-> call[r].payload, generated |-> call[r].generated]
<1>0. call[r] \in Calls /\ notes \in [Requests -> Note \cup {NoNote}] /\ copy[r] \in Ids
  BY WriteKinds DEF CallAtWork, AtWork, TypeInv
<1>1. CASE UNCHANGED notes
  BY <1>0, <1>1
<1>2. CASE call[r].op = "notify" /\ CreateNotification(r)
  <2> DEFINE new == [status |-> "new", type |-> call[r].type, host |-> copy[r],
                     payload |-> call[r].payload, generated |-> call[r].generated]
  <2>1. new \in Note
    BY <1>0, NamesOf DEF Note, Statuses
  <2>2. notes' = [notes EXCEPT ![r] = new]
    BY <1>2 DEF CreateNotification
  <2> QED
    BY <1>0, <1>2, <2>1, <2>2
<1> QED
  BY <1>0, <1>1, <1>2, WriteKinds
  DEF CreateSegment, UpdateSegment, DeleteSegment, CreateHost, UpdateHost, DeleteHost,
      Fails, rows

-----------------------------------------------------------------------------
(* The types are kept.                                                      *)

\* an engine's step
LEMMA HandleRows ==
  ASSUME TypeInv, NEW n \in Existing, Handle(n)
  PROVE  /\ hosts' \in [Ids -> Host] /\ notes' \in [Requests -> Note \cup {NoNote}]
         /\ \A h \in Ids : hosts'[h].row = hosts[h].row /\ hosts'[h].segment = hosts[h].segment
         /\ \A m \in Requests \ {n} : notes'[m] = notes[m]
         /\ /\ notes[n].status \in { "new", "error", "running" } /\ notes'[n].status \in Statuses
            /\ \A s \in {notes'[n].status} : notes'[n] = [notes[n] EXCEPT !.status = s]
         /\ UNCHANGED <<segments, backend, lock, pc, call, mine, wrote, events, answer, faults>>
<1>1. notes \in [Requests -> Note \cup {NoNote}] /\ hosts \in [Ids -> Host]
  BY DEF TypeInv
<1>2. n \in Requests /\ notes[n] \in Note
  BY <1>1 DEF Existing, NoNote
<1>3. PICK s \in Statuses : notes' = [notes EXCEPT ![n] = [notes[n] EXCEPT !.status = s]]
  BY DEF Handle, Statuses
<1>4. /\ [notes[n] EXCEPT !.status = s] \in Note
      /\ [notes[n] EXCEPT !.status = s].status = s
  BY <1>2 DEF Note
<1>5. notes' \in [Requests -> Note \cup {NoNote}]
  BY <1>1, <1>3, <1>4
<1>6. notes'[n] = [notes[n] EXCEPT !.status = s] /\ notes'[n].status = s
  BY <1>1, <1>2, <1>3, <1>4
<1>7. \A m \in Requests \ {n} : notes'[m] = notes[m]
  BY <1>1, <1>3
<1>8. CASE UNCHANGED hosts
  BY <1>1, <1>5, <1>6, <1>7, <1>8 DEF Handle
<1>9. CASE ~UNCHANGED hosts
  <2>1. PICK b \in Flags : hosts' = [hosts EXCEPT ![notes[n].host].on_maintenance = b]
    <3>1. hosts' = [hosts EXCEPT ![notes[n].host].on_maintenance =
                       IF notes[n].type = "COMPUTE_HOST" THEN TRUE ELSE @]
      BY <1>9 DEF Handle
    <3> DEFINE b == IF notes[n].type = "COMPUTE_HOST" THEN TRUE
                    ELSE hosts[notes[n].host].on_maintenance
    <3>2. notes[n].host \in Ids
      BY <1>2 DEF Note
    <3>3. b \in Flags
      BY <1>1, <3>2 DEF Host, Flags
    <3>4. hosts' = [hosts EXCEPT ![notes[n].host].on_maintenance = b]
      BY <3>1
    <3> QED
      BY <3>3, <3>4
  <2>2. [hosts[notes[n].host] EXCEPT !.on_maintenance = b] \in Host
    BY <1>1, <1>2, <2>1 DEF Host, Note
  <2>3. /\ hosts' \in [Ids -> Host]
        /\ \A h \in Ids : hosts'[h].row = hosts[h].row /\ hosts'[h].segment = hosts[h].segment
    BY <1>1, <2>1, <2>2 DEF Host
  <2> QED
    BY <1>5, <1>6, <1>7, <2>3 DEF Handle
<1> QED
  BY <1>8, <1>9

\* where a request is after a step of its own
LEMMA OwnPoint ==
  ASSUME TypeInv, CallAtWork, NEW r \in Requests, Arrive(r) \/ Step(r) \/ Die(r)
  PROVE  /\ pc'[r] \in PCs /\ DOMAIN pc' = Requests /\ call' \in [Requests -> Calls \cup {NoCall}]
         /\ copy' \in [Requests -> Ids] /\ known' \in [Requests -> SUBSET Requests]
         /\ earlier' \in [Requests -> SUBSET Requests] /\ wrote' \in [Requests -> BOOLEAN]
         /\ DOMAIN events' = Requests /\ DOMAIN answer' = Requests /\ lock' \in SUBSET Requests
<1>1. pc'[r] \in PCs /\ DOMAIN pc' = Requests
  BY WriteEnds DEF TypeInv, PCs, Checking, Arrive, Step, Die, Lock, ReadSegment, ReadHost, ReadHostByName,
    CheckRecovery, CheckName, CheckDuplicate, Cast, Written, Refuse, Ends, Goto, FirstStep
<1>2. DOMAIN answer' = Requests
  BY WriteEnds DEF TypeInv, Arrive, Step, Die, Lock, ReadSegment, ReadHost, ReadHostByName, CheckRecovery,
    CheckName, CheckDuplicate, Cast, Written, Refuse, Ends, Goto
<1>3. lock' \in SUBSET Requests
  BY WriteEnds DEF TypeInv, Arrive, Step, Die, Lock, ReadSegment, ReadHost, ReadHostByName, CheckRecovery,
    CheckName, CheckDuplicate, Cast, Written, Refuse, Ends, Goto
<1>4. DOMAIN events' = Requests
  BY WriteEnds DEF TypeInv, Arrive, Step, Die, Lock, ReadSegment, ReadHost, ReadHostByName, CheckRecovery,
    CheckName, CheckDuplicate, Cast, Written, Emitted, Emit
<1>5. wrote' \in [Requests -> BOOLEAN]
  BY WriteEnds DEF TypeInv, Arrive, Step, Die, Lock, ReadSegment, ReadHost, ReadHostByName, CheckRecovery,
    CheckName, CheckDuplicate, Cast, Written
<1>6. call' \in [Requests -> Calls \cup {NoCall}]
  BY WriteKinds DEF TypeInv, Arrive, Step, Die, Lock, ReadSegment, ReadHost, ReadHostByName, CheckRecovery,
    CheckName, CheckDuplicate, Cast
<1>7. copy' \in [Requests -> Ids]
  BY WriteKinds DEF TypeInv, Arrive, Step, Die, Lock, ReadSegment, ReadHost, ReadHostByName, CheckRecovery,
    CheckName, CheckDuplicate, Cast, mine, HostsNamed
<1>8. known' \in [Requests -> SUBSET Requests]
  BY WriteKinds DEF TypeInv, Arrive, Step, Die, Lock, ReadSegment, ReadHost, ReadHostByName, CheckRecovery,
    CheckName, CheckDuplicate, Cast, mine, Existing
<1>9. earlier' \in [Requests -> SUBSET Requests]
  BY WriteKinds DEF TypeInv, Arrive, Step, Die, Lock, ReadSegment, ReadHost, ReadHostByName, CheckRecovery,
    CheckName, CheckDuplicate, Cast, mine
<1> QED
  BY <1>1, <1>2, <1>3, <1>4, <1>5, <1>6, <1>7, <1>8, <1>9

LEMMA NextTypeInv ==
  ASSUME TypeInv, CallAtWork, [Next]_vars
  PROVE  TypeInv'
<1>1. CASE UNCHANGED vars
  BY <1>1 DEF vars, rows, mine, TypeInv
<1>2. ASSUME NEW n \in Existing, Handle(n) PROVE TypeInv'
  BY <1>2, HandleRows DEF TypeInv, mine
<1>3. ASSUME NEW r \in Requests, Arrive(r) \/ Step(r) \/ Die(r) PROVE TypeInv'
  <2>1. ASSUME ~Write(r) PROVE UNCHANGED rows
    BY <1>3, <2>1 DEF Arrive, Step, Die, Lock, ReadSegment, ReadHost, ReadHostByName, CheckRecovery,
      CheckName, CheckDuplicate, Cast
  <2>2. /\ segments' \in [Ids -> Segment] /\ hosts' \in [Ids -> Host]
        /\ notes' \in [Requests -> Note \cup {NoNote}]
    <3>1. CASE Write(r)
      BY <3>1, SegmentSteps, HostSteps, NoteSteps
    <3> QED
      BY <2>1, <3>1 DEF rows, TypeInv
  <2>3. \A q \in Requests : pc'[q] \in PCs
    BY <1>3, OwnPoint, Alone DEF TypeInv
  <2>4. DOMAIN pc' = Requests /\ UNCHANGED backend
    BY <1>3, OwnPoint, Alone
  <2>5. \E p : pc' = [pc EXCEPT ![r] = p]
    BY <1>3, WriteEnds DEF Arrive, Step, Die, Lock, ReadSegment, ReadHost, ReadHostByName, CheckRecovery,
      CheckName, CheckDuplicate, Cast, Written, Refuse, Ends, Goto
  <2>6. pc' \in [Requests -> PCs]
    BY <2>3, <2>5 DEF TypeInv
  <2> QED
    BY <1>3, <2>2, <2>4, <2>6, OwnPoint DEF TypeInv
<1> QED
  BY <1>1, <1>2, <1>3 DEF Next

\* where a step of its own takes a request
LEMMA OwnAtWork ==
  ASSUME TypeInv, CallAtWork, NEW r \in Requests, Arrive(r) \/ Step(r) \/ Die(r)
  PROVE  AtWork(r)'
<1>0. pc \in [Requests -> PCs] /\ call \in [Requests -> Calls \cup {NoCall}] /\ AtWork(r)
  BY DEF TypeInv, CallAtWork
<1>1. ASSUME NEW code, Ends(r, code) PROVE AtWork(r)'
  BY <1>0, <1>1 DEF Ends, AtWork
<1>2. CASE Arrive(r)
  <2>1. pc[r] = "idle" /\ r \notin lock
    BY <1>0, <1>2 DEF Arrive, AtWork
  <2>2. ASSUME NEW c \in Calls, call' = [call EXCEPT ![r] = c], Goto(r, FirstStep(c))
        PROVE  AtWork(r)'
    <3>1. /\ call'[r] = c /\ pc'[r] = FirstStep(c) /\ lock' = lock
      BY <1>0, <2>2 DEF Goto
    <3>2. /\ FirstStep(c) \in { "write", "lock", "read" }
          /\ FirstStep(c) = "lock" => c.op = "notify" /\ c.type = "COMPUTE_HOST"
      BY DEF FirstStep
    <3> QED
      BY <2>1, <3>1, <3>2 DEF AtWork, IsCompute
  <2> QED
    BY <1>1, <1>2, <2>2 DEF Arrive
<1>3. CASE Die(r)
  BY <1>1, <1>3 DEF Die
<1>4. ASSUME Step(r) PROVE call'[r] = call[r]
  BY <1>4, WriteKinds DEF Step, Lock, ReadSegment, ReadHost, ReadHostByName, CheckRecovery,
    CheckName, CheckDuplicate, Cast, mine
<1>5. ASSUME NEW p \in { "read", "nova", "check", "write", "cast" }, Step(r), Goto(r, p),
             pc[r] \notin { "idle", "ended", "lock" },
             p = "nova" => call[r].op \in { "create_host", "update_host" } /\ r \notin lock,
             p = "check" => call[r].op \notin { "create_segment", "create_host" },
             p = "cast" => call[r].op = "notify"
      PROVE  AtWork(r)'
  BY <1>0, <1>4, <1>5 DEF Goto, AtWork, IsCompute
<1>6. CASE Lock(r)
  <2>1. call'[r] = call[r]
    BY <1>6, <1>4 DEF Step
  <2> QED
    BY <1>0, <1>6, <2>1 DEF Lock, AtWork, IsCompute
<1>7. CASE ReadSegment(r)
  BY <1>0, <1>1, <1>5, <1>7 DEF Step, ReadSegment, Refuse, AtWork, IsCompute
<1>8. CASE ReadHost(r) \/ ReadHostByName(r) \/ CheckRecovery(r) \/ CheckName(r) \/ CheckDuplicate(r)
  BY <1>0, <1>1, <1>5, <1>8
  DEF Step, ReadHost, ReadHostByName, CheckRecovery, CheckName, CheckDuplicate, Refuse,
      AtWork, IsCompute
<1>9. CASE Write(r)
  <2>1. pc[r] = "write" /\ call[r] \in Calls
    BY <1>0, <1>9, WriteKinds DEF AtWork
  <2>2. CASE \E code : Ends(r, code)
    BY <1>1, <2>2
  <2>3. CASE Goto(r, "cast") /\ call[r].op \notin SegmentOps \cup HostOps
    BY <1>5, <1>9, <2>1, <2>3 DEF Step
  <2> QED
    BY <1>9, <2>2, <2>3, WriteEnds DEF Refuse, Written
<1>10. CASE Cast(r)
  BY <1>1, <1>10 DEF Cast, Refuse
<1> QED
  BY <1>2, <1>3, <1>6, <1>7, <1>8, <1>9, <1>10 DEF Step

\* A request is at a point its call leads to, and holds the lock only there.
LEMMA NextCallAtWork ==
  ASSUME TypeInv, CallAtWork, [Next]_vars
  PROVE  CallAtWork'
<1>1. CASE UNCHANGED vars
  BY <1>1 DEF vars, CallAtWork, AtWork, IsCompute
<1>2. ASSUME NEW n \in Existing, Handle(n) PROVE CallAtWork'
  BY <1>2, HandleRows DEF CallAtWork, AtWork, IsCompute
<1>3. ASSUME NEW r \in Requests, Arrive(r) \/ Step(r) \/ Die(r) PROVE CallAtWork'
  <2>1. \A q \in Requests \ {r} : AtWork(q)'
    BY <1>3, Alone DEF CallAtWork, AtWork, IsCompute
  <2>2. AtWork(r)'
    BY <1>3, OwnAtWork
  <2> QED
    BY <2>1, <2>2 DEF CallAtWork
<1> QED
  BY <1>1, <1>2, <1>3 DEF Next

-----------------------------------------------------------------------------
(* What a request answers and emits.                                        *)

\* the versioned notifications of a request that has written nothing yet, has
\* written, has failed to, has written and could not cast
Quiet       == << >>
Done        == << "start", "end" >>
Failed      == << "start", "error" >>
DoneNotSent == << "start", "end", "error" >>

Told(r) ==
  /\ answer[r] # 0 <=> pc[r] = "ended"
  /\ pc[r] \in { "idle" } \cup Checking => ~wrote[r] /\ events[r] = Quiet
  /\ pc[r] = "cast" => wrote[r] /\ events[r] = Done
  /\ pc[r] = "ended" =>
       /\ answer[r] \in 200 .. 299 /\ call[r].op # None => wrote[r]
       /\ answer[r] \in 400 .. 499 => ~wrote[r]
       /\ events[r] \in
            IF wrote[r] THEN { Done, DoneNotSent }
                        ELSE { Quiet, Failed }

ToldInv == \A r \in Requests : Told(r)

LEMMA Codes ==
  /\ \A c, exc : Refusal(c, exc) \in { 400, 404, 409, 500 }
  /\ \A op : Success(op) \in { 200, 201, 202, 204 }
  /\ \A c : c.op = "notify" => Refusal(c, "MessagingTimeout") = 500
<1>1. \A op, exc : SegmentsController(op, exc) \in { 404, 409, 500 }
  BY DEF SegmentsController
<1>2. \A op, exc : HostsController(op, exc) \in { 400, 404, 409, 500 }
  BY DEF HostsController
<1>3. \A exc : NotificationsController(exc) \in { 400, 409, 500 }
  BY DEF NotificationsController
<1>4. NotificationsController("MessagingTimeout") = 500
  BY DEF NotificationsController
<1>5. \A c, exc : Refusal(c, exc) \in { 400, 404, 409, 500 }
  BY <1>1, <1>2, <1>3 DEF Refusal
<1>6. \A c : c.op = "notify" => Refusal(c, "MessagingTimeout") = 500
  BY <1>4 DEF Refusal, SegmentOps, HostOps
<1>7. \A op : Success(op) \in { 200, 201, 202, 204 }
  BY DEF Success
<1> QED
  BY <1>5, <1>6, <1>7

LEMMA EmitFrom ==
  ASSUME TypeInv, NEW r \in Requests
  PROVE  /\ events[r] = Quiet /\ Emitted(r, "end") => events'[r] = Done
         /\ events[r] = Quiet /\ Emitted(r, "error") => events'[r] = Failed
         /\ events[r] = Done /\ Emit(r, << "error" >>) => events'[r] = DoneNotSent
<1> DEFINE Phases == { "start", "end", "error" }
           last == << "error" >>
<1>1. /\ Quiet \in Seq(Phases) /\ Done \in Seq(Phases) /\ Failed \in Seq(Phases)
      /\ last \in Seq(Phases) /\ DoneNotSent \in Seq(Phases)
  BY DEF Quiet, Done, Failed, DoneNotSent
<1>2. Quiet \o Done = Done /\ Quiet \o Failed = Failed
  BY <1>1, ConcatEmptySeq DEF Quiet
<1>3. Done \o last = DoneNotSent
  <2>1. Len(Done) = 2 /\ Len(last) = 1 /\ Len(DoneNotSent) = 3
    BY DEF Done, DoneNotSent
  <2>2. Done[1] = DoneNotSent[1] /\ Done[2] = DoneNotSent[2] /\ last[1] = DoneNotSent[3]
    BY DEF Done, DoneNotSent
  <2> HIDE DEF last
  <2>3. /\ Done \o last \in Seq(Phases) /\ Len(Done \o last) = Len(Done) + Len(last)
        /\ \A i \in 1 .. Len(Done) + Len(last) :
             (Done \o last)[i] = IF i <= Len(Done) THEN Done[i] ELSE last[i - Len(Done)]
    BY <1>1, ConcatProperties
  <2>4. \A i \in 1 .. 3 : (Done \o last)[i] = DoneNotSent[i]
    BY <2>1, <2>2, <2>3
  <2> QED
    BY <1>1, <2>1, <2>3, <2>4, SeqEqual
<1>4. DOMAIN events = Requests
  BY DEF TypeInv
<1>5. ASSUME Emitted(r, "end") PROVE events'[r] = events[r] \o Done
  BY <1>4, <1>5 DEF Emit, Emitted, Done
<1>6. ASSUME Emitted(r, "error") PROVE events'[r] = events[r] \o Failed
  BY <1>4, <1>6 DEF Emit, Emitted, Failed
<1>7. ASSUME Emit(r, << "error" >>) PROVE events'[r] = events[r] \o last
  BY <1>4, <1>7 DEF Emit
<1> QED
  BY <1>2, <1>3, <1>5, <1>6, <1>7

LEMMA OwnTold ==
  ASSUME TypeInv, CallAtWork, NEW r \in Requests, Told(r), Arrive(r) \/ Step(r) \/ Die(r)
  PROVE  Told(r)'
<1>0. /\ pc \in [Requests -> PCs] /\ call \in [Requests -> Calls \cup {NoCall}] /\ AtWork(r)
      /\ wrote \in [Requests -> BOOLEAN] /\ DOMAIN answer = Requests /\ call'[r] \in Calls \cup {NoCall}
  BY OwnPoint DEF TypeInv, CallAtWork
<1>1. ASSUME NEW code, Ends(r, code) PROVE pc'[r] = "ended" /\ answer'[r] = code
  BY <1>0, <1>1 DEF Ends
<1>2. ASSUME NEW exc, Refuse(r, exc) PROVE pc'[r] = "ended" /\ answer'[r] \in { 400, 404, 409, 500 }
  BY <1>1, <1>2, Codes DEF Refuse
<1>3. ASSUME NEW p \in PCs, Goto(r, p) PROVE pc'[r] = p /\ answer'[r] = answer[r]
  BY <1>0, <1>3 DEF Goto
<1>4. ASSUME UNCHANGED <<wrote, events>>, pc[r] \in { "idle" } \cup Checking,
             (\E exc : Refuse(r, exc)) \/ (\E p \in Checking : Goto(r, p))
      PROVE  Told(r)'
  BY <1>0, <1>2, <1>3, <1>4 DEF Told, PCs, Checking
<1>5. CASE Arrive(r)
  <2>1. pc[r] = "idle" /\ UNCHANGED <<wrote, events>>
    BY <1>5 DEF Arrive
  <2>2. ASSUME NEW code, code # 0, Ends(r, code), UNCHANGED call PROVE Told(r)'
    BY <1>0, <1>1, <2>1, <2>2 DEF Told, AtWork, NoCall
  <2>3. ASSUME NEW c \in Calls, Goto(r, FirstStep(c)) PROVE Told(r)'
    <3>1. FirstStep(c) \in Checking
      BY DEF FirstStep, Checking
    <3> QED
      BY <1>4, <2>1, <2>3, <3>1
  <2> QED
    BY <1>5, <2>2, <2>3 DEF Arrive, Admitted
<1>6. CASE Die(r)
  <2>1. pc[r] \notin { "idle", "ended" } /\ UNCHANGED <<wrote, events>> /\ Ends(r, 1)
    BY <1>6 DEF Die, NoReply
  <2> QED
    BY <1>0, <1>1, <2>1 DEF Told, PCs, Checking
<1>7. CASE Lock(r)
  BY <1>0, <1>7 DEF Lock, Told, Checking
<1>8. CASE ReadSegment(r) \/ ReadHost(r) \/ ReadHostByName(r) \/ CheckRecovery(r) \/ CheckName(r)
           \/ CheckDuplicate(r)
  <2>1. UNCHANGED <<wrote, events>> /\ pc[r] \in Checking
    BY <1>8 DEF ReadSegment, ReadHost, ReadHostByName, CheckRecovery, CheckName, CheckDuplicate, Checking
  <2>2. (\E exc : Refuse(r, exc)) \/ (\E p \in Checking : Goto(r, p))
    BY <1>8 DEF ReadSegment, ReadHost, ReadHostByName, CheckRecovery, CheckName, CheckDuplicate, Checking
  <2> QED
    BY <1>4, <2>1, <2>2
<1>9. CASE Write(r)
  <2>1. pc[r] = "write" /\ events[r] = Quiet /\ ~wrote[r]
    BY <1>9, WriteKinds DEF Told, Checking
  <2>2. CASE UNCHANGED <<rows, wrote>> /\ Emitted(r, "error") /\ \E exc : Refuse(r, exc)
    <3>1. events'[r] = Failed
      BY <2>1, <2>2, EmitFrom
    <3> QED
      BY <1>0, <1>2, <2>1, <2>2, <3>1 DEF Told, Checking
  <2>3. CASE Written(r)
    <3>1. events'[r] = Done /\ wrote'[r]
      BY <1>0, <2>1, <2>3, EmitFrom DEF Written
    <3>2. pc'[r] = "ended" /\ answer'[r] \in { 200, 201, 202, 204 }
      BY <1>1, <2>3, Codes DEF Written
    <3> QED
      BY <3>1, <3>2 DEF Told, Checking
  <2>4. CASE wrote' = [wrote EXCEPT ![r] = TRUE] /\ Emitted(r, "end") /\ Goto(r, "cast")
    <3>1. events'[r] = Done /\ wrote'[r]
      BY <1>0, <2>1, <2>4, EmitFrom
    <3>2. pc'[r] = "cast" /\ answer'[r] = answer[r]
      BY <1>3, <2>4 DEF PCs
    <3> QED
      BY <2>1, <3>1, <3>2 DEF Told, Checking
  <2> QED
    BY <1>9, <2>2, <2>3, <2>4, WriteEnds
<1>10. CASE Cast(r)
  <2>1. pc[r] = "cast" /\ wrote' = wrote /\ wrote[r] /\ events[r] = Done
    BY <1>10 DEF Cast, Told
  <2>2. CASE Ends(r, 202) /\ UNCHANGED events
    BY <1>1, <2>1, <2>2 DEF Told, Checking
  <2>3. CASE Emit(r, << "error" >>) /\ Refuse(r, "MessagingTimeout")
    <3>1. events'[r] = DoneNotSent
      BY <2>1, <2>3, EmitFrom
    <3>2. call[r].op = "notify"
      BY <1>0, <2>1 DEF AtWork
    <3>3. pc'[r] = "ended" /\ answer'[r] = 500
      BY <1>1, <2>3, <3>2, Codes DEF Refuse
    <3> QED
      BY <2>1, <3>1, <3>3 DEF Told, Checking
  <2> QED
    BY <1>10, <2>2, <2>3 DEF Cast
<1> QED
  BY <1>5, <1>6, <1>7, <1>8, <1>9, <1>10 DEF Step

\* nothing a request tells changes but by a step of its own
LEMMA SameTold ==
  ASSUME NEW q \in Requests, Told(q), answer'[q] = answer[q], pc'[q] = pc[q], wrote'[q] = wrote[q],
         events'[q] = events[q], call'[q] = call[q]
  PROVE  Told(q)'
BY DEF Told

LEMMA NextTold ==
  ASSUME TypeInv, CallAtWork, ToldInv, [Next]_vars
  PROVE  ToldInv'
<1>1. ASSUME NEW q \in Requests, UNCHANGED <<answer, pc, wrote, events, call>> PROVE Told(q)'
  BY <1>1, SameTold DEF ToldInv
<1>2. CASE UNCHANGED vars
  BY <1>1, <1>2 DEF vars, ToldInv
<1>3. ASSUME NEW n \in Existing, Handle(n) PROVE ToldInv'
  BY <1>1, <1>3 DEF Handle, ToldInv
<1>4. ASSUME NEW r \in Requests, Arrive(r) \/ Step(r) \/ Die(r) PROVE ToldInv'
  <2>1. ASSUME NEW q \in Requests \ {r} PROVE Told(q)'
    <3>1. /\ answer'[q] = answer[q] /\ pc'[q] = pc[q] /\ wrote'[q] = wrote[q]
          /\ events'[q] = events[q] /\ call'[q] = call[q]
      BY <1>4, Alone
    <3> QED
      BY <3>1, SameTold DEF ToldInv
  <2>2. Told(r)'
    BY <1>4, OwnTold DEF ToldInv
  <2> QED
    BY <2>1, <2>2 DEF ToldInv
<1> QED
  BY <1>2, <1>3, <1>4 DEF Next

-----------------------------------------------------------------------------
(* The rows and who wrote them.                                             *)

\* A row comes with its request's write, a notification says what its request
\* said about a host that was there, and what a request deleted is deleted.
Untouched(r) == ~wrote[r] => segments[r].row = None /\ hosts[r].row = None /\ notes[r] = NoNote

Noted(r) ==
  notes[r] # NoNote =>
    /\ call[r].op = "notify" /\ call[r] \in Calls /\ pc[r] \in { "cast", "ended" }
    /\ notes[r].type = call[r].type /\ notes[r].host = copy[r]
    /\ notes[r].payload = call[r].payload /\ notes[r].generated = call[r].generated

HostSeen(r) ==
  notes[r] # NoNote \/ (pc[r] \in { "check", "write" } /\ call[r].op = "notify") =>
    hosts[copy[r]].row # None

Gone(r) ==
  /\ wrote[r] /\ call[r].op = "delete_segment" => segments[call[r].segment].row = "deleted"
  /\ wrote[r] /\ call[r].op = "delete_host" => hosts[call[r].host].row = "deleted"

RowOf(r) == Untouched(r) /\ Noted(r) /\ HostSeen(r) /\ Gone(r)
RowInv   == \A r \in Requests : RowOf(r)

\* Of two deletes of a row one fails.
DeletedOnce(r, q) ==
  wrote[r] /\ wrote[q] /\ call[r] = call[q] => call[r].op \notin { "delete_segment", "delete_host" }

Base == TypeInv /\ CallAtWork /\ ToldInv /\ RowInv

\* No row comes back, and no host moves to another segment.
LEMMA RowsStay ==
  ASSUME Base, [Next]_vars
  PROVE  \A s \in Ids :
           /\ segments[s].row # None => segments'[s].row # None
           /\ segments[s].row = "deleted" => segments'[s].row = "deleted"
           /\ hosts[s].row # None => hosts'[s].row # None /\ hosts'[s].segment = hosts[s].segment
           /\ hosts[s].row = "deleted" => hosts'[s].row = "deleted"
<1>1. CASE UNCHANGED vars
  BY <1>1 DEF vars, rows
<1>2. ASSUME NEW n \in Existing, Handle(n)
      PROVE  /\ segments' = segments
             /\ \A s \in Ids : hosts'[s].row = hosts[s].row /\ hosts'[s].segment = hosts[s].segment
  BY <1>2, HandleRows DEF Base
<1>3. ASSUME NEW r \in Requests, Arrive(r) \/ Step(r) \/ Die(r), ~Write(r) PROVE UNCHANGED rows
  BY <1>3 DEF Arrive, Step, Die, Lock, ReadSegment, ReadHost, ReadHostByName, CheckRecovery,
    CheckName, CheckDuplicate, Cast
<1>4. ASSUME NEW r \in Requests, Write(r), NEW s \in Ids
      PROVE  /\ segments[s].row # None => segments'[s].row # None
             /\ segments[s].row = "deleted" => segments'[s].row = "deleted"
             /\ hosts[s].row # None => hosts'[s].row # None /\ hosts'[s].segment = hosts[s].segment
             /\ hosts[s].row = "deleted" => hosts'[s].row = "deleted"
  <2>1. pc[r] = "write" /\ Told(r) /\ Untouched(r)
    BY <1>4, WriteKinds DEF Base, ToldInv, RowInv, RowOf
  <2>2. segments[r].row = None /\ hosts[r].row = None
    BY <2>1 DEF Told, Checking, Untouched
  <2>3. /\ segments[s].row # None => segments'[s].row # None
        /\ segments[s].row = "deleted" => segments'[s].row = "deleted"
    <3>1. segments'[s].row # segments[s].row =>
            s = r \/ (segments'[s].row = "deleted" /\ segments[s].row = "live")
      BY <1>4, SegmentSteps DEF Base
    <3> QED
      BY <2>2, <3>1 DEF None
  <2>4. \/ hosts'[s].row = hosts[s].row /\ hosts'[s].segment = hosts[s].segment
        \/ /\ hosts'[s].row = "deleted" /\ hosts[s].row = "live"
           /\ hosts'[s].segment = hosts[s].segment
        \/ s = r
    BY <1>4, HostSteps DEF Base
  <2> QED
    BY <2>2, <2>3, <2>4 DEF None
<1> QED
  BY <1>1, <1>2, <1>3, <1>4 DEF Next, rows

\* what a step does to the rows of a request that does not make it
LEMMA OthersRow ==
  ASSUME Base, NEW r \in Requests, Arrive(r) \/ Step(r) \/ Die(r), NEW q \in Requests \ {r}
  PROVE  RowOf(q)'
<1>1. TypeInv /\ CallAtWork /\ RowOf(q) /\ q \in Ids /\ copy[q] \in Ids
  BY DEF Base, RowInv, TypeInv, Ids
<1>2. /\ pc'[q] = pc[q] /\ call'[q] = call[q] /\ copy'[q] = copy[q] /\ wrote'[q] = wrote[q]
  BY <1>1, Alone
<1>3. ASSUME ~Write(r) PROVE UNCHANGED rows
  BY <1>3 DEF Arrive, Step, Die, Lock, ReadSegment, ReadHost, ReadHostByName, CheckRecovery,
    CheckName, CheckDuplicate, Cast
<1>4. /\ segments[q].row = None => segments'[q].row = None
      /\ hosts[q].row = None => hosts'[q].row = None
      /\ notes'[q] = notes[q]
  <2>1. CASE Write(r)
    <3>1. segments[q].row = None => segments'[q].row = None
      BY <1>1, <2>1, SegmentSteps DEF None
    <3>2. hosts[q].row = None => hosts'[q].row = None
      BY <1>1, <2>1, HostSteps DEF None
    <3> QED
      BY <1>1, <2>1, <3>1, <3>2, NoteSteps
  <2> QED
    BY <1>3, <2>1 DEF rows
<1>5. \A s \in Ids :
        /\ segments[s].row = "deleted" => segments'[s].row = "deleted"
        /\ hosts[s].row # None => hosts'[s].row # None
        /\ hosts[s].row = "deleted" => hosts'[s].row = "deleted"
  BY RowsStay DEF Next
<1>6. ASSUME wrote[q] PROVE call[q] \in Calls \/ call[q] = NoCall
  BY <1>1 DEF TypeInv
<1>7. Untouched(q)' /\ Noted(q)'
  BY <1>1, <1>2, <1>4 DEF RowOf, Untouched, Noted
<1>8. HostSeen(q)'
  BY <1>1, <1>2, <1>4, <1>5 DEF RowOf, HostSeen
<1>9. Gone(q)'
  BY <1>1, <1>2, <1>5, <1>6 DEF RowOf, Gone, NoCall, None, HostOps
<1> QED
  BY <1>7, <1>8, <1>9 DEF RowOf

\* what a request does to its own rows
LEMMA OwnRow ==
  ASSUME Base, NEW r \in Requests, Arrive(r) \/ Step(r) \/ Die(r)
  PROVE  RowOf(r)'
<1>1. /\ TypeInv /\ CallAtWork /\ RowOf(r) /\ Told(r) /\ AtWork(r) /\ r \in Ids
      /\ DOMAIN pc = Requests /\ DOMAIN copy = Requests /\ copy[r] \in Ids /\ wrote \in [Requests -> BOOLEAN]
  BY DEF Base, RowInv, ToldInv, CallAtWork, TypeInv, Ids
<1>2. CASE Write(r)
  <2>1. /\ pc[r] = "write" /\ UNCHANGED <<call, copy>> /\ ~wrote[r] /\ call[r] \in Calls
        /\ segments[r].row = None /\ hosts[r].row = None /\ notes[r] = NoNote
    BY <1>1, <1>2, WriteKinds DEF mine, Told, Checking, AtWork, RowOf, Untouched
  <2>2. ASSUME UNCHANGED <<rows, wrote>>, \E exc : Refuse(r, exc) PROVE RowOf(r)'
    <3>1. pc'[r] = "ended"
      BY <1>1, <2>2 DEF Refuse, Ends
    <3> QED
      BY <2>1, <2>2, <3>1 DEF RowOf, Untouched, Noted, HostSeen, Gone, rows
  <2>3. CASE Written(r) /\ call[r].op \in SegmentOps \cup HostOps
    <3>1. wrote'[r] /\ notes'[r] = NoNote
      BY <1>1, <1>2, <2>1, <2>3, NoteSteps DEF Written, SegmentOps, HostOps
    <3>2. ASSUME call[r].op = "delete_segment" PROVE segments'[call[r].segment].row = "deleted"
      <4>1. DeleteSegment(r) /\ call[r].segment \in Ids
        BY <1>2, <2>1, <3>2, WriteKinds DEF HostOps, SegmentOps
      <4>2. ~\E exc : Fails(r, exc)
        BY <1>1, <2>1, <3>1 DEF Fails
      <4>3. segments' = [segments EXCEPT ![call[r].segment].row = "deleted"]
        BY <4>1, <4>2 DEF DeleteSegment
      <4> QED
        BY <1>1, <4>1, <4>3 DEF TypeInv, Segment
    <3>3. ASSUME call[r].op = "delete_host" PROVE hosts'[call[r].host].row = "deleted"
      <4>1. DeleteHost(r) /\ call[r].host \in Ids
        BY <1>2, <2>1, <3>3, WriteKinds DEF HostOps, SegmentOps
      <4>2. ~\E exc : Fails(r, exc)
        BY <1>1, <2>1, <3>1 DEF Fails
      <4>3. hosts' = [hosts EXCEPT ![call[r].host].row = "deleted"]
        BY <4>1, <4>2 DEF DeleteHost
      <4> QED
        BY <1>1, <4>1, <4>3 DEF TypeInv, Host
    <3>4. pc'[r] = "ended"
      BY <1>1, <2>3 DEF Written, Ends
    <3> QED
      BY <2>1, <3>1, <3>2, <3>3, <3>4 DEF RowOf, Untouched, Noted, HostSeen, Gone
  <2>4. CASE call[r].op = "notify" /\ CreateNotification(r)
    <3>1. wrote'[r] /\ pc'[r] = "cast" /\ UNCHANGED hosts
      BY <1>1, <2>4 DEF CreateNotification, Goto
    <3> DEFINE new == [status |-> "new", type |-> call[r].type, host |-> copy[r],
                       payload |-> call[r].payload, generated |-> call[r].generated]
    <3>2. notes'[r] = new
      BY <1>1, <2>4 DEF CreateNotification, TypeInv
    <3>3. /\ notes'[r].type = call[r].type /\ notes'[r].host = copy[r]
          /\ notes'[r].payload = call[r].payload /\ notes'[r].generated = call[r].generated
      BY <3>2
    <3>4. hosts[copy[r]].row # None
      BY <1>1, <2>1, <2>4 DEF RowOf, HostSeen
    <3> QED
      BY <2>1, <2>4, <3>1, <3>3, <3>4 DEF RowOf, Untouched, Noted, HostSeen, Gone
  <2>5. call[r].op \notin SegmentOps \cup HostOps => call[r].op = "notify"
    BY <2>1
  <2> QED
    BY <1>2, <2>2, <2>3, <2>4, <2>5, WriteEnds, WriteKinds DEF SegmentOps, HostOps
<1>3. CASE ~Write(r)
  <2>1. UNCHANGED <<segments, hosts, notes, wrote>>
    BY <1>3 DEF Arrive, Step, Die, Lock, ReadSegment, ReadHost, ReadHostByName, CheckRecovery,
      CheckName, CheckDuplicate, Cast, rows
  <2>2. CASE pc[r] \in { "idle" } \cup Checking
    <3>1. ~wrote[r] /\ notes[r] = NoNote
      BY <1>1, <2>2 DEF Told, RowOf, Untouched
    <3>2. ASSUME pc'[r] \in { "check", "write" }, call'[r].op = "notify"
          PROVE  hosts[copy'[r]].row # None
      <4>1. CASE ReadHostByName(r)
        <5>1. PICK h \in HostsNamed(call[r].name) : copy' = [copy EXCEPT ![r] = h]
          BY <1>1, <3>2, <4>1 DEF ReadHostByName, Refuse, Ends
        <5> QED
          BY <1>1, <5>1 DEF HostsNamed, None
      <4>2. CASE CheckDuplicate(r)
        BY <1>1, <4>2 DEF CheckDuplicate, mine, RowOf, HostSeen
      <4>3. ASSUME Arrive(r) PROVE FALSE
        <5>1. PICK c \in Calls : call' = [call EXCEPT ![r] = c] /\ Goto(r, FirstStep(c))
          BY <1>1, <3>2, <4>3 DEF Arrive, Ends
        <5>2. c.op = "notify" /\ FirstStep(c) \in { "check", "write" }
          BY <1>1, <3>2, <5>1 DEF Goto, TypeInv
        <5> QED
          BY <5>2 DEF FirstStep
      <4>4. ASSUME Step(r), ~ReadHostByName(r), ~CheckDuplicate(r) PROVE FALSE
        <5>1. call'[r] = call[r]
          BY <1>3, <4>4 DEF Step, Lock, ReadSegment, ReadHost, CheckRecovery, CheckName, Cast, mine
        <5>2. /\ ~Lock(r) /\ ~ReadSegment(r) /\ ~ReadHost(r) /\ ~CheckRecovery(r)
              /\ ~CheckName(r)
          BY <1>1, <3>2, <5>1 DEF Lock, ReadSegment, ReadHost, CheckRecovery, CheckName, AtWork
        <5>3. ~Cast(r)
          BY <2>2 DEF Cast, Checking
        <5> QED
          BY <1>3, <4>4, <5>2, <5>3 DEF Step
      <4>5. ASSUME Die(r) PROVE FALSE
        BY <1>1, <3>2, <4>5 DEF Die, Ends
      <4> QED
        BY <4>1, <4>2, <4>3, <4>4, <4>5
    <3> QED
      BY <1>1, <2>1, <3>1, <3>2 DEF RowOf, Untouched, Noted, HostSeen, Gone
  <2>3. CASE pc[r] = "cast"
    <3>1. pc'[r] = "ended" /\ UNCHANGED <<call, copy>>
      BY <1>1, <1>3, <2>3 DEF Arrive, Step, Die, Lock, ReadSegment, ReadHost, ReadHostByName,
        CheckRecovery, CheckName, CheckDuplicate, Cast, mine, Refuse, Ends
    <3> QED
      BY <1>1, <2>1, <2>3, <3>1 DEF RowOf, Untouched, Noted, HostSeen, Gone
  <2>4. pc[r] # "ended"
    BY <1>3 DEF Arrive, Step, Die, Lock, ReadSegment, ReadHost, ReadHostByName, CheckRecovery,
      CheckName, CheckDuplicate, Cast
  <2> QED
    BY <1>1, <2>2, <2>3, <2>4 DEF TypeInv, PCs
<1> QED
  BY <1>2, <1>3

\* an engine's step leaves the rows what they were, but for a status
LEMMA HandleRow ==
  ASSUME Base, NEW n \in Existing, Handle(n), NEW q \in Requests
  PROVE  RowOf(q)'
<1>1. TypeInv /\ RowOf(q) /\ q \in Ids /\ copy[q] \in Ids
  BY DEF Base, RowInv, TypeInv, Ids
<1>2. UNCHANGED <<segments, pc, call, copy, wrote>>
  BY DEF Handle, mine
<1>3. \A h \in Ids : hosts'[h].row = hosts[h].row
  BY <1>1, HandleRows
<1>4. /\ notes'[q] = NoNote <=> notes[q] = NoNote
      /\ notes[q] # NoNote =>
           /\ notes'[q].type = notes[q].type /\ notes'[q].host = notes[q].host
           /\ notes'[q].payload = notes[q].payload /\ notes'[q].generated = notes[q].generated
  <2>1. CASE q # n
    BY <1>1, <2>1, HandleRows
  <2>2. CASE q = n
    <3>1. notes[n] \in Note
      BY <1>1, <2>2 DEF TypeInv, Existing, NoNote
    <3>2. notes'[n] = [notes[n] EXCEPT !.status = notes'[n].status] /\ notes'[n].status \in Statuses
      BY <1>1, HandleRows
    <3>3. notes'[n] # NoNote /\ notes[n] # NoNote
      BY <3>1, <3>2 DEF Note, NoNote, Statuses, None
    <3> QED
      BY <2>2, <3>1, <3>2, <3>3 DEF Note
  <2> QED
    BY <2>1, <2>2
<1>5. Untouched(q)' /\ Noted(q)'
  BY <1>1, <1>2, <1>3, <1>4 DEF RowOf, Untouched, Noted
<1>6. HostSeen(q)'
  BY <1>1, <1>2, <1>3, <1>4 DEF RowOf, HostSeen
<1>7. call[q].op = "delete_host" => call[q].host \in Ids
  BY <1>1 DEF TypeInv, NoCall, None
<1>8. Gone(q)'
  BY <1>1, <1>2, <1>3, <1>7 DEF RowOf, Gone
<1> QED
  BY <1>5, <1>6, <1>8 DEF RowOf

LEMMA InitBase == Init => Base
<1> SUFFICES ASSUME Init PROVE Base
  OBVIOUS
<1>1. ToldInv
  BY DEF Init, ToldInv, Told, Checking, Quiet
<1>2. RowInv
  BY DEF Init, RowInv, RowOf, Untouched, Noted, HostSeen, Gone, Ids, NoNote
<1> QED
  BY <1>1, <1>2, InitTypeInv DEF Base

LEMMA NextBase == ASSUME Base, [Next]_vars PROVE Base'
<1>1. TypeInv' /\ CallAtWork' /\ ToldInv'
  BY NextTypeInv, NextCallAtWork, NextTold DEF Base
<1>2. CASE UNCHANGED vars
  BY <1>1, <1>2
  DEF Base, vars, rows, mine, RowInv, RowOf, Untouched, Noted, HostSeen, Gone
<1>3. ASSUME NEW n \in Existing, Handle(n) PROVE RowInv'
  BY <1>3, HandleRow DEF RowInv
<1>4. ASSUME NEW r \in Requests, Arrive(r) \/ Step(r) \/ Die(r) PROVE RowInv'
  <2>1. RowOf(r)'
    BY <1>4, OwnRow
  <2>2. \A q \in Requests \ {r} : RowOf(q)'
    BY <1>4, OthersRow
  <2> QED
    BY <2>1, <2>2 DEF RowInv
<1> QED
  BY <1>1, <1>2, <1>3, <1>4 DEF Next, Base

LEMMA BaseInvariant == Spec => []Base
BY InitBase, NextBase, PTL DEF Spec

LEMMA BaseTypeOK == Base => TypeOK
<1> SUFFICES ASSUME Base PROVE TypeOK
  OBVIOUS
<1>1. TypeInv /\ CallAtWork /\ ToldInv /\ RowInv
  BY DEF Base
<1>2. \A s \in Ids : segments[s].row \in { None, "live", "deleted" }
  BY <1>1 DEF TypeInv, Segment, Rows
<1>3. \A h \in Ids : hosts[h].row \in { None, "live", "deleted" } /\ hosts[h].segment \in Ids
  BY <1>1 DEF TypeInv, Host, Rows
<1>4. ASSUME NEW n \in Existing
      PROVE  notes[n].status \in { "new", "running", "error", "finished" } /\ hosts[notes[n].host].row # None
  <2>1. n \in Requests /\ notes[n] \in Note /\ notes[n] # NoNote
    BY <1>1 DEF TypeInv, Existing, NoNote
  <2>2. Noted(n) /\ HostSeen(n)
    BY <1>1, <2>1 DEF RowInv, RowOf
  <2> QED
    BY <2>1, <2>2 DEF Note, Statuses, Noted, HostSeen
<1>5. lock \subseteq { r \in Requests : pc[r] \in { "read", "check", "write", "cast" } }
  BY <1>1 DEF TypeInv, CallAtWork, AtWork
<1>6. \A r \in Requests : answer[r] # 0 <=> pc[r] = "ended"
  BY <1>1 DEF ToldInv, Told
<1> QED
  BY <1>2, <1>3, <1>4, <1>5, <1>6 DEF TypeOK

\* Every row is one of those a row can be, a notification is about a host that
\* was there, the lock is held only between reading the host and answering, and
\* a request has its answer exactly when it has ended.
THEOREM TypeCorrect == Spec => []TypeOK
BY BaseInvariant, BaseTypeOK, PTL

-----------------------------------------------------------------------------
(* The truth is told.                                                       *)

OnceInv == \A r, q \in Requests : r # q => DeletedOnce(r, q)

\* a delete that succeeded found its row
LEMMA DeletesFindTheirRow ==
  ASSUME Base, NEW r \in Requests, Arrive(r) \/ Step(r) \/ Die(r), wrote'[r], ~wrote[r]
  PROVE  /\ call'[r] = call[r]
         /\ call[r].op = "delete_segment" => segments[call[r].segment].row = "live"
         /\ call[r].op = "delete_host" => hosts[call[r].host].row = "live"
<1>1. Write(r)
  BY DEF Arrive, Step, Die, Lock, ReadSegment, ReadHost, ReadHostByName, CheckRecovery,
    CheckName, CheckDuplicate, Cast
<1>2. ASSUME NEW exc, Fails(r, exc) PROVE FALSE
  BY <1>2 DEF Fails
<1>3. call[r].op = "delete_segment" => DeleteSegment(r)
  BY <1>1, WriteKinds DEF SegmentOps
<1>4. call[r].op = "delete_host" => DeleteHost(r)
  BY <1>1, WriteKinds DEF HostOps
<1> QED
  BY <1>1, <1>2, <1>3, <1>4, WriteKinds DEF DeleteSegment, DeleteHost, Deleted, SegmentFound

LEMMA NextOnce == ASSUME Base, OnceInv, [Next]_vars PROVE OnceInv'
<1>1. CASE UNCHANGED <<wrote, call>>
  BY <1>1 DEF OnceInv, DeletedOnce
<1>2. ASSUME NEW r \in Requests, Arrive(r) \/ Step(r) \/ Die(r) PROVE OnceInv'
  <2>1. \A q \in Requests \ {r} : wrote'[q] = wrote[q] /\ call'[q] = call[q]
    BY <1>2, Alone DEF Base
  <2>2. ASSUME NEW q \in Requests \ {r}, wrote'[r], wrote[q], call'[r] = call[q]
        PROVE  call[q].op \notin { "delete_segment", "delete_host" }
    <3>1. CASE wrote[r]
      <4>1. call'[r] = call[r]
        <5>1. pc[r] # "idle"
          BY <3>1 DEF Base, ToldInv, Told
        <5> QED
          BY <1>2, <5>1, WriteKinds DEF Arrive, Step, Die, Lock, ReadSegment, ReadHost, ReadHostByName,
            CheckRecovery, CheckName, CheckDuplicate, Cast, mine
      <4> QED
        BY <2>2, <3>1, <4>1 DEF OnceInv, DeletedOnce
    <3>2. CASE ~wrote[r]
      <4>1. /\ call'[r] = call[r]
            /\ call[r].op = "delete_segment" => segments[call[r].segment].row = "live"
            /\ call[r].op = "delete_host" => hosts[call[r].host].row = "live"
        BY <1>2, <2>2, <3>2, DeletesFindTheirRow
      <4>2. Gone(q)
        BY DEF Base, RowInv, RowOf
      <4> QED
        BY <2>2, <4>1, <4>2 DEF Gone
    <3> QED
      BY <3>1, <3>2
  <2>3. ASSUME NEW p \in Requests, NEW q \in Requests, p # q PROVE DeletedOnce(p, q)'
    BY <2>1, <2>2, <2>3 DEF DeletedOnce, OnceInv
  <2> QED
    BY <2>3 DEF OnceInv
<1> QED
  BY <1>1, <1>2 DEF Next, Handle, vars

\* Success means that this very request has changed the database and a refusal
\* that it has not, whatever the other requests did between its checks and its
\* write; END and ERROR are emitted accordingly, and of two deletes of one row
\* only one succeeds.
THEOREM AnswersAreTrue == Spec => []TruthIsTold
<1>1. Init => OnceInv
  BY DEF Init, OnceInv, DeletedOnce
<1>2. Base /\ OnceInv /\ [Next]_vars => OnceInv'
  BY NextOnce
<1>3. Base /\ OnceInv => TruthIsTold
  <2> SUFFICES ASSUME Base, OnceInv, NEW r \in Requests
               PROVE  /\ answer[r] \in 200 .. 299 /\ call[r].op # None => wrote[r]
                      /\ answer[r] \in 400 .. 499 => ~wrote[r]
                      /\ events[r] \in IF wrote[r] THEN { Done, DoneNotSent } ELSE { Quiet, Failed }
                      /\ \A q \in Requests \ {r} : DeletedOnce(r, q)
    BY DEF TruthIsTold, DeletedOnce, Done, DoneNotSent, Quiet, Failed
  <2>1. Told(r) /\ pc[r] \in PCs
    BY DEF Base, ToldInv, TypeInv
  <2>2. \A q \in Requests \ {r} : DeletedOnce(r, q)
    BY DEF OnceInv
  <2> QED
    BY <2>1, <2>2 DEF Told, PCs, Checking
<1> QED
  BY <1>1, <1>2, <1>3, BaseInvariant, PTL DEF Spec

-----------------------------------------------------------------------------
(* What later steps leave alone.                                            *)

\* what a request asks for and who ended before it are fixed when it arrives,
\* the host it is about when it has checked, and an ended request stays ended
LEMMA MineStays ==
  ASSUME TypeInv, [Next]_vars, NEW r \in Requests
  PROVE  /\ pc[r] # "idle" => call'[r] = call[r] /\ earlier'[r] = earlier[r] /\ pc'[r] # "idle"
         /\ pc[r] \in { "write", "cast", "ended" } => copy'[r] = copy[r]
         /\ pc[r] \in { "write", "cast", "ended", "nova" } => known'[r] = known[r]
         /\ pc[r] = "ended" => pc'[r] = "ended"
         /\ backend' = backend
<1>1. CASE UNCHANGED vars
  BY <1>1 DEF vars, mine
<1>2. ASSUME NEW n \in Existing, Handle(n) PROVE UNCHANGED <<backend, pc, call, mine>>
  BY <1>2 DEF Handle
<1>3. ASSUME NEW q \in Requests \ {r}, Arrive(q) \/ Step(q) \/ Die(q)
      PROVE  /\ pc'[r] = pc[r] /\ call'[r] = call[r] /\ copy'[r] = copy[r] /\ known'[r] = known[r]
             /\ earlier'[r] = earlier[r] /\ backend' = backend
  BY <1>3, Alone
<1>4. CASE Arrive(r) \/ Step(r) \/ Die(r)
  <2>1. DOMAIN pc = Requests /\ UNCHANGED backend
    BY <1>4, Alone DEF TypeInv
  <2>2. pc[r] # "idle" => UNCHANGED <<call, earlier>>
    BY <1>4, WriteKinds DEF Arrive, Step, Die, Lock, ReadSegment, ReadHost, ReadHostByName, CheckRecovery,
      CheckName, CheckDuplicate, Cast, mine
  <2>3. pc[r] \in { "write", "cast", "ended" } => UNCHANGED copy
    BY <1>4, WriteKinds DEF Arrive, Step, Die, Lock, ReadSegment, ReadHost, ReadHostByName, CheckRecovery,
      CheckName, CheckDuplicate, Cast, mine
  <2>4. pc[r] \in { "write", "cast", "ended", "nova" } => UNCHANGED known
    BY <1>4, WriteKinds DEF Arrive, Step, Die, Lock, ReadSegment, ReadHost, ReadHostByName, CheckRecovery,
      CheckName, CheckDuplicate, Cast, mine
  <2>5. pc[r] # "ended"
    BY <1>4, WriteKinds DEF Arrive, Step, Die, Lock, ReadSegment, ReadHost, ReadHostByName, CheckRecovery,
      CheckName, CheckDuplicate, Cast
  <2>6. pc'[r] # "idle"
    BY <1>4, <2>1, WriteEnds DEF Arrive, Step, Die, Lock, ReadSegment, ReadHost, ReadHostByName,
      CheckRecovery, CheckName, CheckDuplicate, Cast, Written, Refuse, Ends, Goto, FirstStep
  <2> QED
    BY <2>1, <2>2, <2>3, <2>4, <2>5, <2>6
<1> QED
  BY <1>1, <1>2, <1>3, <1>4 DEF Next, mine

\* a notification keeps what it says, and a finished one its status; a new one
\* comes from its request's write
LEMMA NotesStay ==
  ASSUME Base, [Next]_vars, NEW m \in Requests
  PROVE  /\ notes[m] # NoNote =>
              /\ notes'[m] # NoNote
              /\ notes'[m].type = notes[m].type /\ notes'[m].host = notes[m].host
              /\ notes'[m].payload = notes[m].payload /\ notes'[m].generated = notes[m].generated
              /\ notes[m].status = "finished" => notes'[m].status = "finished"
         /\ notes[m] = NoNote /\ notes'[m] # NoNote =>
              pc[m] = "write" /\ call[m].op = "notify" /\ CreateNotification(m)
<1>0. TypeInv /\ CallAtWork /\ notes \in [Requests -> Note \cup {NoNote}]
  BY DEF Base, TypeInv
<1>1. CASE UNCHANGED notes
  BY <1>1
<1>2. ASSUME NEW n \in Existing, Handle(n), m = n
      PROVE  /\ notes[m] # NoNote /\ notes'[m] # NoNote /\ notes[m].status # "finished"
             /\ notes'[m].type = notes[m].type /\ notes'[m].host = notes[m].host
             /\ notes'[m].payload = notes[m].payload /\ notes'[m].generated = notes[m].generated
  <2>1. notes[n] \in Note
    BY <1>0, <1>2 DEF Existing, NoNote
  <2>2. /\ notes'[n] = [notes[n] EXCEPT !.status = notes'[n].status] /\ notes'[n].status \in Statuses
        /\ notes[n].status # "finished"
    BY <1>0, <1>2, HandleRows
  <2>3. notes'[n] # NoNote /\ notes[n] # NoNote
    BY <2>1, <2>2 DEF Note, NoNote, Statuses, None
  <2> QED
    BY <1>2, <2>1, <2>2, <2>3 DEF Note
<1>3. ASSUME NEW n \in Existing, Handle(n), m # n PROVE notes'[m] = notes[m]
  BY <1>0, <1>3, HandleRows
<1>4. ASSUME NEW r \in Requests, Arrive(r) \/ Step(r) \/ Die(r), notes'[m] # notes[m]
      PROVE  /\ notes[m] = NoNote
             /\ pc[m] = "write" /\ call[m].op = "notify" /\ CreateNotification(m)
  <2>1. Write(r)
    BY <1>4 DEF Arrive, Step, Die, Lock, ReadSegment, ReadHost, ReadHostByName, CheckRecovery,
      CheckName, CheckDuplicate, Cast, rows
  <2>2. CreateNotification(r) /\ m = r /\ call[r].op = "notify" /\ pc[r] = "write"
    BY <1>0, <1>4, <2>1, NoteSteps, WriteKinds
  <2>3. Told(r) /\ Untouched(r)
    BY DEF Base, ToldInv, RowInv, RowOf
  <2> QED
    BY <2>2, <2>3 DEF Told, Checking, Untouched
<1> QED
  BY <1>1, <1>2, <1>3, <1>4 DEF Next, vars, rows

-----------------------------------------------------------------------------
(* Checked means idle.                                                      *)

\* The notifications there were at the check are finished or not of the
\* segment's hosts, until the request has written.
Idle(r) ==
  pc[r] \in { "nova", "write" }
  /\ call[r].op \in { "update_segment", "delete_segment", "update_host", "delete_host" } =>
    \A n \in known[r] :
      /\ notes[n] # NoNote
      /\ HostFound(notes[n].host, call[r].segment) => notes[n].status = "finished"

IdleInv == \A r \in Requests : Idle(r)

\* where a request goes that may change or delete something
LEMMA ToTheWrite ==
  ASSUME TypeInv, CallAtWork, NEW r \in Requests, Arrive(r) \/ Step(r) \/ Die(r),
         pc'[r] \in { "nova", "write" },
         call'[r].op \in { "update_segment", "delete_segment", "update_host", "delete_host" }
  PROVE  \/ /\ call'[r] = call[r] /\ known'[r] = Existing /\ ~UnderRecovery(call[r].segment)
            /\ UNCHANGED rows
         \/ pc[r] \in { "nova", "write" } /\ call'[r] = call[r]
<1>0. pc \in [Requests -> PCs] /\ AtWork(r) /\ DOMAIN call = Requests /\ DOMAIN known = Requests
  BY DEF TypeInv, CallAtWork
<1>1. ASSUME Arrive(r) PROVE FALSE
  <2>1. PICK c \in Calls : call' = [call EXCEPT ![r] = c] /\ Goto(r, FirstStep(c))
    BY <1>0, <1>1 DEF Arrive, Ends
  <2>2. FirstStep(c) \in { "nova", "write" } /\ c.op # "create_segment"
    BY <1>0, <2>1 DEF Goto
  <2> QED
    BY <2>2 DEF FirstStep
<1>2. CASE CheckRecovery(r)
  <2>1. known'[r] = Existing /\ UNCHANGED <<rows, call>>
    BY <1>0, <1>2 DEF CheckRecovery
  <2>2. ASSUME UnderRecovery(call[r].segment) PROVE FALSE
    BY <1>0, <1>2, <2>2 DEF CheckRecovery, Refuse, Ends
  <2> QED
    BY <2>1, <2>2
<1>3. CASE CheckName(r)
  BY <1>3 DEF CheckName
<1>4. ASSUME Die(r) \/ Write(r) PROVE FALSE
  BY <1>0, <1>4, WriteEnds DEF Die, Written, Refuse, Ends, Goto
<1>5. ASSUME ReadSegment(r) \/ ReadHost(r) \/ ReadHostByName(r) \/ Lock(r) \/ CheckDuplicate(r) \/ Cast(r)
      PROVE  FALSE
  <2>1. call'[r] = call[r]
    BY <1>5 DEF ReadSegment, ReadHost, ReadHostByName, Lock, CheckDuplicate, Cast
  <2> QED
    BY <1>0, <1>5, <2>1 DEF ReadSegment, ReadHost, ReadHostByName, Lock, CheckDuplicate, Cast, Refuse,
      Ends, Goto, AtWork
<1> QED
  BY <1>1, <1>2, <1>3, <1>4, <1>5 DEF Step

LEMMA NextIdle == ASSUME Base, IdleInv, [Next]_vars PROVE IdleInv'
<1>0. TypeInv /\ CallAtWork /\ RowInv
  BY DEF Base
<1>1. ASSUME NEW r \in Requests, pc[r] \in { "nova", "write" },
             pc'[r] \in { "nova", "write" }, call'[r] = call[r]
      PROVE  Idle(r)'
  <2> SUFFICES ASSUME call[r].op \in { "update_segment", "delete_segment", "update_host", "delete_host" },
                      NEW n \in known[r]
               PROVE  /\ notes'[n] # NoNote
                      /\ HostFound(notes[n].host, call[r].segment)' => notes'[n].status = "finished"
    <3>1. known'[r] = known[r]
      BY <1>0, <1>1, MineStays
    <3> QED
      BY <1>1, <3>1 DEF Idle
  <2>1. n \in Requests /\ notes[n] # NoNote
    BY <1>0, <1>1 DEF IdleInv, Idle, TypeInv
  <2>2. /\ notes'[n] # NoNote /\ notes'[n].host = notes[n].host
        /\ notes[n].status = "finished" => notes'[n].status = "finished"
    BY <2>1, NotesStay
  <2> DEFINE h == notes[n].host
  <2>3. h \in Ids /\ hosts[h].row # None
    BY <1>0, <2>1 DEF RowInv, RowOf, Noted, HostSeen, TypeInv
  <2>4. /\ hosts'[h].segment = hosts[h].segment
        /\ hosts'[h].row = "live" => hosts[h].row = "live"
    <3>1. hosts[h].row \in Rows
      BY <1>0, <2>3 DEF TypeInv, Host
    <3> QED
      BY <2>3, <3>1, RowsStay DEF Rows, None
  <2>5. HostFound(h, call[r].segment) => notes[n].status = "finished"
    BY <1>1 DEF IdleInv, Idle
  <2> QED
    BY <1>1, <2>2, <2>4, <2>5 DEF HostFound
<1>2. ASSUME NEW r \in Requests, call'[r] = call[r], known'[r] = Existing,
             ~UnderRecovery(call[r].segment), UNCHANGED rows
      PROVE  Idle(r)'
  <2> SUFFICES ASSUME NEW n \in Existing
               PROVE  /\ notes[n] # NoNote
                      /\ HostFound(notes[n].host, call[r].segment) => notes[n].status = "finished"
    BY <1>2 DEF Idle, HostFound, rows
  <2>1. n \in Requests /\ notes[n] \in Note /\ notes[n] # NoNote
    BY <1>0 DEF Existing, TypeInv, NoNote
  <2>2. notes[n].status \in Statuses
    BY <2>1 DEF Note
  <2>3. HostFound(notes[n].host, call[r].segment) => notes[n].status \notin Active
    BY <1>2 DEF UnderRecovery
  <2> QED
    BY <2>1, <2>2, <2>3 DEF Statuses, Active
<1>3. CASE UNCHANGED vars
  BY <1>3 DEF IdleInv, Idle, vars, rows, mine, HostFound
<1>4. ASSUME NEW n \in Existing, Handle(n), NEW r \in Requests PROVE Idle(r)'
  <2>1. pc' = pc /\ call' = call
    BY <1>4 DEF Handle
  <2> QED
    BY <1>1, <2>1 DEF Idle
<1>5. ASSUME NEW r \in Requests, Arrive(r) \/ Step(r) \/ Die(r), NEW q \in Requests PROVE Idle(q)'
  <2>1. CASE q # r
    <3>1. pc'[q] = pc[q] /\ call'[q] = call[q]
      BY <1>0, <1>5, <2>1, Alone
    <3> QED
      BY <1>1, <3>1 DEF Idle
  <2>2. CASE q = r
    <3> SUFFICES ASSUME pc'[r] \in { "nova", "write" },
                        call'[r].op \in { "update_segment", "delete_segment", "update_host", "delete_host" }
                 PROVE  Idle(r)'
      BY <2>2 DEF Idle
    <3> QED
      BY <1>0, <1>1, <1>2, <1>5, ToTheWrite
  <2> QED
    BY <2>1, <2>2
<1> QED
  BY <1>3, <1>4, <1>5 DEF Next, IdleInv

\* A segment or host is changed or deleted under a recovery only when the
\* notification came after the check.
THEOREM ChecksHold == Spec => []CheckedMeansIdle
<1>1. Init => IdleInv
  BY DEF Init, IdleInv, Idle
<1>2. Base /\ IdleInv /\ [Next]_vars => IdleInv'
  BY NextIdle
<1>3. Base /\ IdleInv => CheckedMeansIdle
  BY DEF IdleInv, Idle, CheckedMeansIdle
<1> QED
  BY <1>1, <1>2, <1>3, BaseInvariant, PTL DEF Spec

-----------------------------------------------------------------------------
(* Orphans.                                                                 *)

\* A request deleted the segment.
Deleter(d, s) == call[d].op = "delete_segment" /\ wrote[d] /\ call[d].segment = s

\* The requests that had ended before another arrived have ended.
EarlierEnded == \A r, d \in Requests : d \in earlier[r] => pc[d] = "ended"

\* A segment is deleted by a request.
HasDeleter == \A s \in Ids : segments[s].row = "deleted" => \E d \in Requests : Deleter(d, s)

\* A request about to create a host in a segment has seen it before anybody
\* deleted it.
SeenBefore(r) ==
  pc[r] \in { "nova", "write" } /\ call[r].op = "create_host" =>
    /\ segments[call[r].segment].row # None
    /\ \A d \in Requests : Deleter(d, call[r].segment) => d \notin earlier[r]

\* The same of a host that lives in it.
LivesBeside(h) ==
  hosts[h].row = "live" =>
    /\ segments[hosts[h].segment].row # None
    /\ segments[hosts[h].segment].row = "deleted" => h # 0
    /\ \A d \in Requests : Deleter(d, hosts[h].segment) => h # 0 /\ d \notin earlier[h]

OrphanInv ==
  /\ EarlierEnded /\ HasDeleter
  /\ \A r \in Requests : SeenBefore(r)
  /\ \A h \in Ids : LivesBeside(h)

\* A request that deletes a segment now had not ended before, and none of the
\* segment's hosts survives.
LEMMA NewDeleter ==
  ASSUME Base, [Next]_vars, NEW d \in Requests, NEW s \in Ids, Deleter(d, s)', ~Deleter(d, s)
  PROVE  /\ pc[d] = "write" /\ call[d].op = "delete_segment"
         /\ hosts' = [h \in Ids |-> IF h \in HostsOf(s) THEN [hosts[h] EXCEPT !.row = "deleted"] ELSE hosts[h]]
<1>0. TypeInv /\ ToldInv /\ CallAtWork
  BY DEF Base
<1>1. ASSUME wrote'[d] = wrote[d], call'[d] = call[d] PROVE FALSE
  BY <1>1 DEF Deleter
<1>2. CASE UNCHANGED vars
  BY <1>1, <1>2 DEF vars
<1>3. ASSUME NEW n \in Existing, Handle(n) PROVE FALSE
  BY <1>1, <1>3 DEF Handle
<1>4. ASSUME NEW q \in Requests \ {d}, Arrive(q) \/ Step(q) \/ Die(q) PROVE FALSE
  BY <1>0, <1>1, <1>4, Alone
<1>5. CASE Arrive(d) \/ Step(d) \/ Die(d)
  <2>1. ASSUME ~Write(d) PROVE FALSE
    <3>1. wrote' = wrote
      BY <1>5, <2>1 DEF Arrive, Step, Die, Lock, ReadSegment, ReadHost, ReadHostByName, CheckRecovery,
        CheckName, CheckDuplicate, Cast
    <3>2. pc[d] # "idle"
      BY <1>0, <3>1 DEF Deleter, ToldInv, Told
    <3>3. call'[d] = call[d]
      BY <1>0, <3>2, MineStays
    <3> QED
      BY <1>1, <3>1, <3>3
  <2>2. pc[d] = "write" /\ call'[d] = call[d]
    BY <2>1, WriteKinds
  <2>3. ~wrote[d] /\ wrote'[d] /\ call[d].op = "delete_segment" /\ call[d].segment = s
    BY <2>2 DEF Deleter
  <2>4. DeleteSegment(d)
    BY <2>1, <2>3, WriteKinds DEF SegmentOps
  <2>5. ASSUME NEW exc, Fails(d, exc) PROVE FALSE
    BY <2>3, <2>5 DEF Fails
  <2> QED
    BY <2>2, <2>3, <2>4, <2>5 DEF DeleteSegment
<1> QED
  BY <1>2, <1>3, <1>4, <1>5 DEF Next

\* a deletion stays one
LEMMA DeleterStays ==
  ASSUME Base, [Next]_vars, NEW d \in Requests, NEW s, Deleter(d, s)
  PROVE  Deleter(d, s)'
<1>0. TypeInv /\ ToldInv /\ CallAtWork /\ wrote \in [Requests -> BOOLEAN]
  BY DEF Base, TypeInv
<1>1. pc[d] # "idle"
  BY <1>0 DEF Deleter, ToldInv, Told
<1>2. call'[d] = call[d]
  BY <1>0, <1>1, MineStays
<1>3. wrote'[d]
  <2>1. ASSUME NEW q \in Requests, Arrive(q) \/ Step(q) \/ Die(q)
        PROVE  wrote' = wrote \/ wrote' = [wrote EXCEPT ![q] = TRUE]
    BY <2>1, WriteEnds DEF Arrive, Step, Die, Lock, ReadSegment, ReadHost, ReadHostByName, CheckRecovery,
      CheckName, CheckDuplicate, Cast, Written
  <2>2. wrote' = wrote \/ \E q \in Requests : wrote' = [wrote EXCEPT ![q] = TRUE]
    BY <2>1 DEF Next, Handle, vars
  <2>3. wrote[d]
    BY DEF Deleter
  <2> QED
    BY <1>0, <2>2, <2>3
<1> QED
  BY <1>2, <1>3 DEF Deleter

LEMMA NextEarlierEnded == ASSUME TypeInv, EarlierEnded, [Next]_vars PROVE EarlierEnded'
<1> SUFFICES ASSUME NEW r \in Requests, NEW d \in Requests, d \in earlier'[r]
             PROVE  pc'[d] = "ended"
  BY DEF EarlierEnded
<1>1. pc[d] = "ended"
  <2>1. CASE earlier'[r] = earlier[r]
    BY <2>1 DEF EarlierEnded
  <2>2. CASE Arrive(r)
    BY <2>2 DEF Arrive, TypeInv
  <2>3. ASSUME pc[r] = "idle", Step(r) \/ Die(r) PROVE earlier'[r] = earlier[r]
    BY <2>3, WriteKinds DEF Step, Die, Lock, ReadSegment, ReadHost, ReadHostByName, CheckRecovery,
      CheckName, CheckDuplicate, Cast, mine
  <2>4. ASSUME NEW q \in Requests \ {r}, Arrive(q) \/ Step(q) \/ Die(q) PROVE earlier'[r] = earlier[r]
    BY <2>4, Alone
  <2>5. ASSUME UNCHANGED vars \/ \E n \in Existing : Handle(n) PROVE earlier' = earlier
    BY <2>5 DEF vars, Handle, mine
  <2> QED
    BY <2>1, <2>2, <2>3, <2>4, <2>5, MineStays DEF Next
<1> QED
  BY <1>1, MineStays

LEMMA NextHasDeleter == ASSUME Base, HasDeleter, [Next]_vars PROVE HasDeleter'
<1> SUFFICES ASSUME NEW s \in Ids, segments'[s].row = "deleted"
             PROVE  \E d \in Requests : Deleter(d, s)'
  BY DEF HasDeleter
<1>0. TypeInv /\ CallAtWork
  BY DEF Base
<1>1. CASE segments[s].row = "deleted"
  BY <1>1, DeleterStays DEF HasDeleter
<1>2. CASE segments[s].row # "deleted"
  <2>1. PICK r \in Requests : Write(r)
    BY <1>2 DEF Next, vars, rows, Handle, Arrive, Step, Die, Lock, ReadSegment, ReadHost, ReadHostByName,
      CheckRecovery, CheckName, CheckDuplicate, Cast
  <2>2. DeleteSegment(r) /\ s = call[r].segment /\ call[r].op = "delete_segment"
    BY <1>0, <1>2, <2>1, SegmentSteps
  <2>3. ASSUME NEW exc, Fails(r, exc) PROVE FALSE
    BY <1>2, <2>3 DEF Fails, rows
  <2>4. wrote'[r] /\ call' = call
    BY <1>0, <2>1, <2>2, <2>3, WriteKinds DEF DeleteSegment, Written, TypeInv
  <2> QED
    BY <2>2, <2>4 DEF Deleter
<1> QED
  BY <1>1, <1>2

\* how a request comes to the point before it creates a host
LEMMA ToTheHost ==
  ASSUME TypeInv, CallAtWork, NEW r \in Requests, Arrive(r) \/ Step(r) \/ Die(r),
         pc'[r] \in { "nova", "write" }, call'[r].op = "create_host"
  PROVE  /\ call'[r] = call[r] /\ call[r] \in Calls /\ earlier'[r] = earlier[r]
         /\ UNCHANGED <<rows, wrote>>
         /\ pc[r] = "nova" \/ SegmentFound(call[r].segment)
<1>0. pc \in [Requests -> PCs] /\ AtWork(r) /\ DOMAIN call = Requests
  BY DEF TypeInv, CallAtWork
<1>1. ASSUME Arrive(r) PROVE FALSE
  <2>1. PICK c \in Calls : call' = [call EXCEPT ![r] = c] /\ Goto(r, FirstStep(c))
    BY <1>0, <1>1 DEF Arrive, Ends
  <2>2. FirstStep(c) \in { "nova", "write" } /\ c.op = "create_host"
    BY <1>0, <2>1 DEF Goto
  <2> QED
    BY <2>2 DEF FirstStep
<1>2. CASE CheckName(r)
  BY <1>0, <1>2 DEF CheckName, mine, AtWork
<1>3. CASE ReadSegment(r)
  <2>1. UNCHANGED <<rows, wrote, call, earlier>> /\ pc[r] = "read"
    BY <1>3 DEF ReadSegment, mine
  <2>2. SegmentFound(call[r].segment)
    BY <1>0, <1>3, <2>1 DEF ReadSegment, Refuse, Ends
  <2> QED
    BY <1>0, <2>1, <2>2 DEF AtWork
<1>4. ASSUME Die(r) \/ Write(r) PROVE FALSE
  BY <1>0, <1>4, WriteEnds DEF Die, Written, Refuse, Ends, Goto
<1>5. ASSUME CheckRecovery(r) \/ ReadHost(r) \/ ReadHostByName(r) \/ Lock(r) \/ CheckDuplicate(r) \/ Cast(r)
      PROVE  FALSE
  <2>1. call'[r] = call[r]
    BY <1>5 DEF CheckRecovery, ReadHost, ReadHostByName, Lock, CheckDuplicate, Cast
  <2> QED
    BY <1>0, <1>5, <2>1 DEF CheckRecovery, ReadHost, ReadHostByName, Lock, CheckDuplicate, Cast, Refuse,
      Ends, Goto, AtWork, IsCompute
<1> QED
  BY <1>1, <1>2, <1>3, <1>4, <1>5 DEF Step

LEMMA NextSeenBefore ==
  ASSUME Base, OrphanInv, [Next]_vars, NEW r \in Requests
  PROVE  SeenBefore(r)'
<1> SUFFICES ASSUME pc'[r] \in { "nova", "write" }, call'[r].op = "create_host",
                    NEW s, s = call'[r].segment
             PROVE  /\ segments'[s].row # None
                    /\ \A d \in Requests : Deleter(d, s)' => d \notin earlier'[r]
  BY DEF SeenBefore, Deleter
<1>0. /\ TypeInv /\ CallAtWork /\ ToldInv /\ RowInv /\ EarlierEnded /\ SeenBefore(r) /\ AtWork(r)
  BY DEF Base, OrphanInv, CallAtWork
<1>1. ASSUME pc[r] \in { "nova", "write" }, call'[r] = call[r], earlier'[r] = earlier[r]
      PROVE  /\ segments'[s].row # None
             /\ \A d \in Requests : Deleter(d, s)' => d \notin earlier'[r]
  <2>1. call[r] \in Calls /\ s \in Ids /\ s = call[r].segment
    BY <1>0, <1>1, HaApiAssumption DEF AtWork, HostOps
  <2>2. segments[s].row # None /\ \A d \in Requests : Deleter(d, s) => d \notin earlier[r]
    BY <1>0, <1>1, <2>1 DEF SeenBefore
  <2>3. segments'[s].row # None
    BY <1>0, <2>1, <2>2, RowsStay
  <2>4. ASSUME NEW d \in Requests, Deleter(d, s)' PROVE d \notin earlier[r]
    <3>1. CASE Deleter(d, s)
      BY <2>2, <3>1
    <3>2. CASE ~Deleter(d, s)
      <4>1. pc[d] = "write"
        BY <2>1, <2>4, <3>2, NewDeleter
      <4> QED
        BY <1>0, <4>1 DEF EarlierEnded
    <3> QED
      BY <3>1, <3>2
  <2> QED
    BY <1>1, <2>3, <2>4
<1>2. ASSUME call'[r] = call[r], call[r] \in Calls, earlier'[r] = earlier[r],
             UNCHANGED <<rows, wrote>>, SegmentFound(call[r].segment)
      PROVE  /\ segments'[s].row # None
             /\ \A d \in Requests : Deleter(d, s)' => d \notin earlier'[r]
  <2>1. s \in Ids /\ segments[s].row = "live"
    BY <1>2, HaApiAssumption DEF SegmentFound, HostOps
  <2>2. ASSUME NEW d \in Requests, Deleter(d, s)' PROVE FALSE
    <3>1. CASE Deleter(d, s)
      BY <1>0, <2>1, <3>1 DEF Deleter, RowInv, RowOf, Gone
    <3>2. CASE ~Deleter(d, s)
      <4>1. call[d].op = "delete_segment" /\ pc[d] = "write"
        BY <2>1, <2>2, <3>2, NewDeleter
      <4>2. ~wrote[d]
        BY <1>0, <4>1 DEF ToldInv, Told, Checking
      <4>3. wrote'[d]
        BY <2>2 DEF Deleter
      <4> QED
        BY <1>2, <4>2, <4>3
    <3> QED
      BY <3>1, <3>2
  <2> QED
    BY <1>2, <2>1, <2>2 DEF rows, None
<1>3. CASE UNCHANGED vars
  BY <1>0, <1>1, <1>3 DEF vars, mine
<1>4. ASSUME NEW n \in Existing, Handle(n) PROVE pc' = pc /\ call' = call /\ earlier' = earlier
  BY <1>4 DEF Handle, mine
<1>5. ASSUME NEW q \in Requests \ {r}, Arrive(q) \/ Step(q) \/ Die(q)
      PROVE  pc'[r] = pc[r] /\ call'[r] = call[r] /\ earlier'[r] = earlier[r]
  BY <1>0, <1>5, Alone
<1>6. ASSUME Arrive(r) \/ Step(r) \/ Die(r)
      PROVE  /\ call'[r] = call[r] /\ call[r] \in Calls /\ earlier'[r] = earlier[r]
             /\ UNCHANGED <<rows, wrote>>
             /\ pc[r] = "nova" \/ SegmentFound(call[r].segment)
  BY <1>0, <1>6, ToTheHost
<1>7. CASE \E n \in Existing : Handle(n)
  BY <1>1, <1>4, <1>7
<1>8. CASE \E q \in Requests : Arrive(q) \/ Step(q) \/ Die(q)
  BY <1>1, <1>2, <1>5, <1>6, <1>8
<1> QED
  BY <1>3, <1>7, <1>8 DEF Next

\* a host that lives after a step lived before it, or its request creates it now
LEMMA HostsLife ==
  ASSUME Base, [Next]_vars, NEW h \in Ids, hosts'[h].row = "live"
  PROVE  \/ hosts[h].row = "live" /\ hosts'[h].segment = hosts[h].segment
         \/ /\ h \in Requests /\ pc[h] = "write" /\ call[h].op = "create_host" /\ wrote'[h] /\ ~wrote[h]
            /\ hosts'[h].segment = call[h].segment /\ UNCHANGED <<segments, call>>
<1>0. TypeInv /\ CallAtWork /\ ToldInv
  BY DEF Base
<1>1. CASE UNCHANGED hosts
  BY <1>1
<1>2. ASSUME NEW n \in Existing, Handle(n)
      PROVE  hosts[h].row = "live" /\ hosts'[h].segment = hosts[h].segment
  BY <1>0, <1>2, HandleRows
<1>3. ASSUME NEW r \in Requests, Write(r), hosts[h].row # "live"
      PROVE  /\ h \in Requests /\ pc[h] = "write" /\ call[h].op = "create_host" /\ wrote'[h] /\ ~wrote[h]
             /\ hosts'[h].segment = call[h].segment /\ UNCHANGED <<segments, call>>
  <2>1. CreateHost(r) /\ h = r /\ call[r].op = "create_host" /\ hosts'[h].segment = call[r].segment
    BY <1>0, <1>3, HostSteps
  <2>2. ASSUME NEW exc, Fails(r, exc) PROVE FALSE
    BY <1>3, <2>2 DEF Fails, rows
  <2>3. pc[r] = "write" /\ UNCHANGED call
    BY <1>3, WriteKinds
  <2>4. ~wrote[r]
    BY <1>0, <2>3 DEF ToldInv, Told, Checking
  <2> QED
    BY <1>0, <2>1, <2>2, <2>3, <2>4 DEF CreateHost, Written, TypeInv
<1>4. ASSUME NEW r \in Requests, Write(r), hosts[h].row = "live"
      PROVE  hosts'[h].segment = hosts[h].segment
  BY <1>4, RowsStay DEF None
<1>5. ASSUME NEW r \in Requests, Arrive(r) \/ Step(r) \/ Die(r), ~Write(r) PROVE UNCHANGED hosts
  BY <1>5 DEF Arrive, Step, Die, Lock, ReadSegment, ReadHost, ReadHostByName, CheckRecovery,
    CheckName, CheckDuplicate, Cast, rows
<1> QED
  BY <1>1, <1>2, <1>3, <1>4, <1>5 DEF Next, vars, rows

LEMMA NextLivesBeside ==
  ASSUME Base, OrphanInv, [Next]_vars, NEW h \in Ids
  PROVE  LivesBeside(h)'
<1>0. TypeInv /\ ToldInv /\ EarlierEnded /\ HasDeleter /\ LivesBeside(h)
  BY DEF Base, OrphanInv
<1> SUFFICES ASSUME hosts'[h].row = "live", NEW s, s = hosts'[h].segment
             PROVE  /\ segments'[s].row # None
                    /\ segments'[s].row = "deleted" => h # 0
                    /\ \A d \in Requests : Deleter(d, s)' => h # 0 /\ d \notin earlier'[h]
  BY DEF LivesBeside, Deleter
<1>1. CASE hosts[h].row = "live" /\ hosts'[h].segment = hosts[h].segment
  <2>1. s \in Ids /\ s = hosts[h].segment
    BY <1>0, <1>1 DEF TypeInv, Host
  <2>2. /\ segments[s].row # None
        /\ \A d \in Requests : Deleter(d, s) => h # 0 /\ d \notin earlier[h]
    BY <1>0, <1>1, <2>1 DEF LivesBeside
  <2>3. segments'[s].row # None
    BY <1>0, <2>1, <2>2, RowsStay
  <2>4. ASSUME NEW d \in Requests, Deleter(d, s)' PROVE Deleter(d, s)
    <3>1. SUFFICES ASSUME ~Deleter(d, s) PROVE FALSE
      OBVIOUS
    <3>2. hosts' = [k \in Ids |-> IF k \in HostsOf(s) THEN [hosts[k] EXCEPT !.row = "deleted"] ELSE hosts[k]]
      BY <2>1, <2>4, <3>1, NewDeleter
    <3>3. h \in HostsOf(s)
      BY <1>1, <2>1 DEF HostsOf, HostFound
    <3>4. hosts'[h].row = "deleted"
      <4>1. hosts[h] \in Host /\ hosts'[h] = [hosts[h] EXCEPT !.row = "deleted"]
        BY <1>0, <3>2, <3>3 DEF TypeInv
      <4> QED
        BY <4>1 DEF Host
    <3> QED
      BY <3>4
  <2>5. segments'[s].row = "deleted" => \E d \in Requests : Deleter(d, s)'
    BY <1>0, <2>1, NextHasDeleter DEF HasDeleter
  <2>6. \A d \in Requests : Deleter(d, s)' => h # 0 /\ d \notin earlier[h]
    BY <2>2, <2>4
  <2>7. ASSUME h # 0 PROVE earlier'[h] = earlier[h]
    <3>1. h \in Requests
      BY <2>7 DEF Ids
    <3>2. pc[h] # "idle"
      <4>1. wrote[h]
        BY <1>1, <3>1 DEF Base, RowInv, RowOf, Untouched, None
      <4> QED
        BY <1>0, <3>1, <4>1 DEF ToldInv, Told
    <3> QED
      BY <1>0, <3>1, <3>2, MineStays
  <2> QED
    BY <2>3, <2>5, <2>6, <2>7
<1>2. CASE /\ h \in Requests /\ pc[h] = "write" /\ call[h].op = "create_host" /\ wrote'[h] /\ ~wrote[h]
           /\ hosts'[h].segment = call[h].segment /\ UNCHANGED <<segments, call>>
  <2>1. h # 0 /\ SeenBefore(h) /\ call[h] \in Calls /\ s \in Ids /\ s = call[h].segment
    BY <1>0, <1>2, HaApiAssumption DEF OrphanInv, Base, CallAtWork, AtWork, HostOps
  <2>2. earlier'[h] = earlier[h]
    BY <1>0, <1>2, MineStays
  <2>3. segments[s].row # None /\ \A d \in Requests : Deleter(d, s) => d \notin earlier[h]
    BY <1>2, <2>1 DEF SeenBefore
  <2>4. ASSUME NEW d \in Requests, Deleter(d, s)' PROVE d \notin earlier[h]
    <3>1. CASE Deleter(d, s)
      BY <2>3, <3>1
    <3>2. CASE ~Deleter(d, s)
      <4>1. pc[d] = "write"
        BY <2>1, <2>4, <3>2, NewDeleter
      <4> QED
        BY <1>0, <1>2, <4>1 DEF EarlierEnded
    <3> QED
      BY <3>1, <3>2
  <2> QED
    BY <1>2, <2>1, <2>2, <2>3, <2>4
<1> QED
  BY <1>1, <1>2, HostsLife

\* A live host in a deleted segment comes from a request that created it
\* beside the deletion: it had not arrived when the deletion ended.
THEOREM OrphansComeFromRaces == Spec => []OrphansAreRaced
<1>1. Init => OrphanInv
  BY DEF Init, OrphanInv, EarlierEnded, HasDeleter, SeenBefore, LivesBeside, Deleter, Ids, None
<1>2. ASSUME Base, OrphanInv, [Next]_vars PROVE OrphanInv'
  <2>1. EarlierEnded' /\ HasDeleter'
    BY <1>2, NextEarlierEnded, NextHasDeleter DEF OrphanInv, Base
  <2>2. \A r \in Requests : SeenBefore(r)'
    BY <1>2, NextSeenBefore
  <2>3. \A h \in Ids : LivesBeside(h)'
    BY <1>2, NextLivesBeside
  <2> QED
    BY <2>1, <2>2, <2>3 DEF OrphanInv
<1>3. ASSUME Base, OrphanInv PROVE OrphansAreRaced
  <2> SUFFICES ASSUME NEW h \in Ids, hosts[h].row = "live", ~SegmentFound(hosts[h].segment)
               PROVE  \E d \in Requests : /\ call[d].op = "delete_segment" /\ wrote[d]
                                          /\ call[d].segment = hosts[h].segment
                                          /\ h # 0 /\ d \notin earlier[h]
    BY DEF OrphansAreRaced
  <2>1. hosts[h].segment \in Ids /\ LivesBeside(h) /\ HasDeleter
    BY <1>3 DEF Base, TypeInv, Host, OrphanInv
  <2>2. segments[hosts[h].segment].row \in Rows
    BY <1>3, <2>1 DEF Base, TypeInv, Segment
  <2>3. segments[hosts[h].segment].row = "deleted"
    BY <2>1, <2>2 DEF SegmentFound, LivesBeside, Rows
  <2> QED
    BY <2>1, <2>3 DEF HasDeleter, LivesBeside, Deleter
<1> QED
  BY <1>1, <1>2, <1>3, BaseInvariant, PTL DEF Spec

-----------------------------------------------------------------------------
(* Accepted once.                                                           *)

\* A request has passed the check for duplicates.
Passed(n) == notes[n] # NoNote \/ (pc[n] = "write" /\ call[n].op = "notify")

\* To a request, a row is what it wants to report.
Repeats(n, m) ==
  /\ notes[m].type = call[n].type /\ notes[m].host = copy[n]
  /\ notes[m].payload = call[n].payload /\ Since(n, m)

\* It does not repeat what a request that had ended before it has reported.
NewToClient(n, m) ==
  n # m /\ Passed(n) /\ m \in earlier[n] /\ notes[m] # NoNote => ~Repeats(n, m)

\* With a backend, a request about a host works under the lock of its name,
\* and one at a time holds it ...
HoldsLock(n) ==
  backend /\ IsCompute(n) /\ pc[n] \in { "read", "check", "write", "cast" } => n \in lock

OneHolder(n, m) == n # m /\ n \in lock /\ m \in lock => call[n].name # call[m].name

\* ... so that what it found at the check is still so at the write.
Rivals(n, m) ==
  backend /\ n # m /\ IsCompute(n) /\ IsCompute(m) /\ call[n].name = call[m].name /\ notes[m] # NoNote

NewAtWrite(n, m) == Rivals(n, m) /\ pc[n] = "write" => ~Repeats(n, m)
NewAsRow(n, m)   == Rivals(n, m) /\ notes[n] # NoNote => ~Repeats(n, m) \/ ~Repeats(m, n)

DuplicateInv ==
  /\ EarlierEnded
  /\ \A n \in Requests : HoldsLock(n)
  /\ \A n, m \in Requests : NewToClient(n, m) /\ OneHolder(n, m) /\ NewAtWrite(n, m) /\ NewAsRow(n, m)

\* how a request passes the check
LEMMA PassesTheCheck ==
  ASSUME Base, [Next]_vars, NEW n \in Requests, Passed(n)'
  PROVE  \/ Passed(n)
         \/ /\ CheckDuplicate(n) /\ ~IsDuplicate(n)
            /\ UNCHANGED <<notes, call, copy, earlier>>
<1>0. TypeInv /\ CallAtWork /\ AtWork(n) /\ DOMAIN pc = Requests
  BY DEF Base, CallAtWork, TypeInv
<1>1. CASE notes'[n] # NoNote
  BY <1>1, NotesStay DEF Passed
<1>2. CASE pc'[n] = "write" /\ call'[n].op = "notify"
  <2>1. ASSUME pc'[n] = pc[n], call'[n] = call[n] PROVE Passed(n)
    BY <1>2, <2>1 DEF Passed
  <2>2. CASE UNCHANGED vars
    BY <2>1, <2>2 DEF vars
  <2>3. ASSUME NEW m \in Existing, Handle(m) PROVE pc' = pc /\ call' = call
    BY <2>3 DEF Handle
  <2>4. ASSUME NEW q \in Requests \ {n}, Arrive(q) \/ Step(q) \/ Die(q)
        PROVE  pc'[n] = pc[n] /\ call'[n] = call[n]
    BY <1>0, <2>4, Alone
  <2>5. ASSUME Arrive(n) \/ Step(n) \/ Die(n)
        PROVE  /\ CheckDuplicate(n) /\ ~IsDuplicate(n)
               /\ UNCHANGED <<notes, call, copy, earlier>>
    <3>1. ASSUME Arrive(n) PROVE FALSE
      <4>1. PICK c \in Calls : call' = [call EXCEPT ![n] = c] /\ Goto(n, FirstStep(c))
        BY <1>0, <1>2, <3>1 DEF Arrive, Ends
      <4>2. FirstStep(c) = "write" /\ c.op = "notify"
        BY <1>0, <1>2, <4>1 DEF Goto, TypeInv
      <4> QED
        BY <4>2 DEF FirstStep
    <3>2. CASE CheckDuplicate(n)
      BY <1>0, <1>2, <3>2 DEF CheckDuplicate, Refuse, Ends, rows, mine
    <3>3. ASSUME Die(n) \/ Write(n) PROVE FALSE
      BY <1>0, <1>2, <3>3, WriteEnds DEF Die, Written, Refuse, Ends, Goto
    <3>4. ASSUME \/ Lock(n) \/ ReadSegment(n) \/ ReadHost(n) \/ ReadHostByName(n)
                 \/ CheckRecovery(n) \/ CheckName(n) \/ Cast(n)
          PROVE  FALSE
      <4>1. call'[n] = call[n]
        BY <3>4 DEF Lock, ReadSegment, ReadHost, ReadHostByName, CheckRecovery, CheckName, Cast
      <4> QED
        BY <1>0, <1>2, <3>4, <4>1 DEF Lock, ReadSegment, ReadHost, ReadHostByName, CheckRecovery, CheckName,
          Cast, Refuse, Ends, Goto, AtWork
    <3> QED
      BY <2>5, <3>1, <3>2, <3>3, <3>4 DEF Step
  <2> QED
    BY <2>1, <2>2, <2>3, <2>4, <2>5 DEF Next
<1> QED
  BY <1>1, <1>2 DEF Passed

\* what a request that has passed says, and what a row says, stays
LEMMA RepeatsStays ==
  ASSUME Base, [Next]_vars, NEW n \in Requests, NEW m \in Requests, Passed(n), notes[m] # NoNote
  PROVE  /\ call'[n] = call[n] /\ earlier'[n] = earlier[n]
         /\ Repeats(n, m)' <=> Repeats(n, m)
<1>1. pc[n] \in { "write", "cast", "ended" }
  BY DEF Passed, Base, RowInv, RowOf, Noted
<1>2. call'[n] = call[n] /\ earlier'[n] = earlier[n] /\ copy'[n] = copy[n]
  BY <1>1, MineStays DEF Base
<1>3. /\ notes'[m].type = notes[m].type /\ notes'[m].host = notes[m].host
      /\ notes'[m].payload = notes[m].payload /\ notes'[m].generated = notes[m].generated
  BY NotesStay
<1> QED
  BY <1>2, <1>3 DEF Repeats, Since

\* a check that finds no duplicate finds no row that repeats
LEMMA NothingFound ==
  ASSUME Base, NEW n \in Requests, NEW m \in Requests, ~IsDuplicate(n), notes[m] # NoNote
  PROVE  ~Repeats(n, m)
<1>1. notes[m] \in Note
  BY DEF Base, TypeInv
<1>2. m \in Existing
  BY <1>1 DEF Existing, Note, Statuses, None
<1> QED
  BY <1>2 DEF IsDuplicate, Repeats

LEMMA NextNewToClient ==
  ASSUME Base, DuplicateInv, [Next]_vars, NEW n \in Requests, NEW m \in Requests
  PROVE  NewToClient(n, m)'
<1> SUFFICES ASSUME n # m, Passed(n)', m \in earlier'[n], notes'[m] # NoNote
             PROVE  ~Repeats(n, m)'
  BY DEF NewToClient
<1>1. CASE Passed(n)
  <2>1. pc[n] # "idle"
    BY <1>1 DEF Passed, Base, RowInv, RowOf, Noted
  <2>2. m \in earlier[n]
    BY <2>1, MineStays DEF Base
  <2>3. pc[m] = "ended"
    BY <2>2 DEF DuplicateInv, EarlierEnded
  <2>4. notes[m] # NoNote
    BY <2>3, NotesStay
  <2> QED
    BY <1>1, <2>2, <2>4, RepeatsStays DEF DuplicateInv, NewToClient
<1>2. CASE ~IsDuplicate(n) /\ UNCHANGED <<notes, call, copy, earlier>>
  <2>1. ~Repeats(n, m)
    BY <1>2, NothingFound
  <2> QED
    BY <1>2, <2>1 DEF Repeats, Since
<1> QED
  BY <1>1, <1>2, PassesTheCheck

LEMMA NextHoldsLock ==
  ASSUME Base, [Next]_vars, NEW n \in Requests, HoldsLock(n)
  PROVE  HoldsLock(n)'
<1>0. TypeInv /\ CallAtWork /\ AtWork(n) /\ DOMAIN pc = Requests /\ DOMAIN call = Requests
  BY DEF Base, CallAtWork, TypeInv
<1>1. CASE UNCHANGED vars
  BY <1>1 DEF HoldsLock, IsCompute, vars
<1>2. ASSUME NEW m \in Existing, Handle(m) PROVE HoldsLock(n)'
  BY <1>2 DEF Handle, HoldsLock, IsCompute
<1>3. ASSUME NEW q \in Requests \ {n}, Arrive(q) \/ Step(q) \/ Die(q) PROVE HoldsLock(n)'
  <2>1. /\ pc'[n] = pc[n] /\ call'[n] = call[n] /\ backend' = backend
        /\ n \in lock' <=> n \in lock
    BY <1>0, <1>3, Alone
  <2> QED
    BY <2>1 DEF HoldsLock, IsCompute
<1>4. ASSUME Arrive(n) \/ Step(n) \/ Die(n) PROVE HoldsLock(n)'
  <2>1. ASSUME NEW code, Ends(n, code) PROVE HoldsLock(n)'
    BY <1>0, <2>1 DEF Ends, HoldsLock
  <2>2. CASE Arrive(n)
    <3>1. ASSUME NEW c \in Calls, call' = [call EXCEPT ![n] = c], Goto(n, FirstStep(c)), UNCHANGED backend
          PROVE  HoldsLock(n)'
      <4>1. call'[n] = c /\ pc'[n] = FirstStep(c)
        BY <1>0, <3>1 DEF Goto
      <4> QED
        BY <3>1, <4>1 DEF HoldsLock, IsCompute, FirstStep
    <3> QED
      BY <2>1, <2>2, <3>1 DEF Arrive
  <2>3. CASE Lock(n)
    BY <1>0, <2>3 DEF Lock, HoldsLock
  <2>4. ASSUME NEW p, Goto(n, p), UNCHANGED <<backend, call>>, pc[n] \in { "read", "nova", "check", "write", "cast" }
        PROVE  HoldsLock(n)'
    BY <1>0, <2>4 DEF Goto, HoldsLock, IsCompute, AtWork
  <2>5. ASSUME \/ ReadSegment(n) \/ ReadHost(n) \/ ReadHostByName(n)
               \/ CheckRecovery(n) \/ CheckName(n) \/ CheckDuplicate(n)
        PROVE  HoldsLock(n)'
    <3>1. UNCHANGED <<backend, call>> /\ pc[n] \in { "read", "nova", "check" }
      BY <2>5 DEF ReadSegment, ReadHost, ReadHostByName, CheckRecovery, CheckName, CheckDuplicate
    <3>2. (\E code : Ends(n, code)) \/ (\E p : Goto(n, p))
      BY <2>5 DEF ReadSegment, ReadHost, ReadHostByName, CheckRecovery, CheckName, CheckDuplicate, Refuse
    <3> QED
      BY <2>1, <2>4, <3>1, <3>2
  <2>6. CASE Write(n)
    <3>1. UNCHANGED <<backend, call>> /\ pc[n] = "write"
      BY <2>6, WriteKinds
    <3>2. (\E code : Ends(n, code)) \/ Goto(n, "cast")
      BY <2>6, WriteEnds DEF Written, Refuse
    <3> QED
      BY <2>1, <2>4, <3>1, <3>2
  <2>7. CASE Cast(n) \/ Die(n)
    BY <2>1, <2>7 DEF Cast, Die, Refuse
  <2> QED
    BY <1>4, <2>2, <2>3, <2>5, <2>6, <2>7 DEF Step
<1> QED
  BY <1>1, <1>2, <1>3, <1>4 DEF Next

LEMMA NextOneHolder ==
  ASSUME Base, [Next]_vars, NEW n \in Requests, NEW m \in Requests, OneHolder(n, m)
  PROVE  OneHolder(n, m)'
<1>0. TypeInv /\ CallAtWork /\ AtWork(n) /\ AtWork(m)
  BY DEF Base, CallAtWork
<1>1. ASSUME NEW q \in Requests, q \in lock PROVE call'[q] = call[q]
  BY <1>0, <1>1, MineStays DEF CallAtWork, AtWork
<1>2. CASE lock' \subseteq lock
  BY <1>1, <1>2 DEF OneHolder
<1>3. ASSUME NEW r \in Requests, Lock(r)
      PROVE  lock' = lock \cup {r} /\ call' = call /\ \A q \in lock : call[q].name # call[r].name
  BY <1>3 DEF Lock, LockFree
<1>4. ASSUME NEW r \in Requests, Lock(r) PROVE OneHolder(n, m)'
  BY <1>3, <1>4 DEF OneHolder
<1>5. ASSUME NEW r \in Requests, Arrive(r) \/ Step(r) \/ Die(r), ~Lock(r) PROVE lock' \subseteq lock
  BY <1>5, WriteEnds DEF Arrive, Step, Die, ReadSegment, ReadHost, ReadHostByName, CheckRecovery,
    CheckName, CheckDuplicate, Cast, Written, Refuse, Ends, Goto
<1>6. ASSUME UNCHANGED vars \/ \E k \in Existing : Handle(k) PROVE lock' \subseteq lock
  BY <1>6 DEF vars, Handle
<1> QED
  BY <1>2, <1>4, <1>5, <1>6 DEF Next

\* rivals are not at the write together
LEMMA OneAtWrite ==
  ASSUME Base, DuplicateInv, backend, NEW n \in Requests, NEW m \in Requests, n # m,
         IsCompute(n), IsCompute(m), call[n].name = call[m].name,
         pc[n] = "write", pc[m] = "write"
  PROVE  FALSE
<1>1. HoldsLock(n) /\ HoldsLock(m) /\ OneHolder(n, m)
  BY DEF DuplicateInv
<1> QED
  BY <1>1 DEF HoldsLock, OneHolder

\* who rivals a request after a step did before, or reports right now
LEMMA RivalsBefore ==
  ASSUME Base, [Next]_vars, NEW n \in Requests, NEW m \in Requests, Passed(n), Rivals(n, m)'
  PROVE  \/ Rivals(n, m)
         \/ /\ pc[m] = "write" /\ notes[m] = NoNote /\ backend /\ n # m
            /\ IsCompute(n) /\ IsCompute(m) /\ call[n].name = call[m].name
<1>0. TypeInv
  BY DEF Base
<1>1. pc[n] # "idle"
  BY DEF Passed, Base, RowInv, RowOf, Noted
<1>2. pc[m] # "idle"
  <2>1. notes[m] = NoNote => pc[m] = "write"
    BY NotesStay DEF Rivals
  <2>2. notes[m] # NoNote => pc[m] \in { "cast", "ended" }
    BY DEF Base, RowInv, RowOf, Noted
  <2> QED
    BY <2>1, <2>2
<1>3. call'[n] = call[n] /\ call'[m] = call[m] /\ backend' = backend
  BY <1>0, <1>1, <1>2, MineStays
<1>4. notes[m] # NoNote \/ pc[m] = "write"
  BY NotesStay DEF Rivals
<1> QED
  BY <1>3, <1>4 DEF Rivals, IsCompute

LEMMA NextNewAtWrite ==
  ASSUME Base, DuplicateInv, [Next]_vars, NEW n \in Requests, NEW m \in Requests
  PROVE  NewAtWrite(n, m)'
<1> SUFFICES ASSUME Rivals(n, m)', pc'[n] = "write" PROVE ~Repeats(n, m)'
  BY DEF NewAtWrite
<1>1. Passed(n)'
  BY DEF Rivals, IsCompute, Passed
<1>2. CASE ~IsDuplicate(n) /\ UNCHANGED <<notes, call, copy, earlier>>
  <2>1. ~Repeats(n, m)
    BY <1>2, NothingFound DEF Rivals
  <2> QED
    BY <1>2, <2>1 DEF Repeats, Since
<1>3. CASE Passed(n)
  <2>1. pc[n] = "write"
    <3>1. notes[n] = NoNote
      <4>1. ASSUME notes[n] # NoNote PROVE FALSE
        <5>1. notes'[n] # NoNote /\ Base'
          BY <4>1, NotesStay, NextBase
        <5> QED
          BY <5>1 DEF Base, RowInv, RowOf, Noted
      <4> QED
        BY <4>1
    <3> QED
      BY <1>3, <3>1 DEF Passed
  <2>2. Rivals(n, m)
    BY <1>3, <2>1, RivalsBefore, OneAtWrite
  <2>3. ~Repeats(n, m) /\ notes[m] # NoNote
    BY <2>1, <2>2 DEF DuplicateInv, NewAtWrite, Rivals
  <2> QED
    BY <1>3, <2>3, RepeatsStays
<1> QED
  BY <1>1, <1>2, <1>3, PassesTheCheck

LEMMA NextNewAsRow ==
  ASSUME Base, DuplicateInv, [Next]_vars, NEW n \in Requests, NEW m \in Requests
  PROVE  NewAsRow(n, m)'
<1> SUFFICES ASSUME Rivals(n, m)', notes'[n] # NoNote PROVE ~Repeats(n, m)' \/ ~Repeats(m, n)'
  BY DEF NewAsRow
<1>1. (notes[n] # NoNote \/ pc[n] = "write") /\ (notes[m] # NoNote \/ pc[m] = "write")
  BY NotesStay DEF Rivals
<1>2. Passed(n) /\ Passed(m)
  BY NotesStay DEF Passed, Rivals
<1>3. backend /\ n # m /\ IsCompute(n) /\ IsCompute(m) /\ call[n].name = call[m].name
  BY <1>2, RivalsBefore DEF Rivals
<1>4. CASE notes[n] # NoNote /\ notes[m] # NoNote
  <2>1. ~Repeats(n, m) \/ ~Repeats(m, n)
    BY <1>3, <1>4 DEF DuplicateInv, NewAsRow, Rivals
  <2>2. /\ Repeats(n, m)' <=> Repeats(n, m)
        /\ Repeats(m, n)' <=> Repeats(m, n)
    BY <1>2, <1>4, RepeatsStays
  <2> QED
    BY <2>1, <2>2
<1>5. CASE notes[n] = NoNote /\ notes[m] # NoNote
  <2>1. ~Repeats(n, m)
    BY <1>1, <1>3, <1>5 DEF DuplicateInv, NewAtWrite, Rivals
  <2> QED
    BY <1>2, <1>5, <2>1, RepeatsStays
<1>6. CASE notes[n] # NoNote /\ notes[m] = NoNote
  <2>1. ~Repeats(m, n)
    BY <1>1, <1>3, <1>6 DEF DuplicateInv, NewAtWrite, Rivals
  <2> QED
    BY <1>2, <1>6, <2>1, RepeatsStays
<1>7. CASE notes[n] = NoNote /\ notes[m] = NoNote
  BY <1>1, <1>3, <1>7, OneAtWrite
<1> QED
  BY <1>4, <1>5, <1>6, <1>7

\* A failure is accepted once, of a client that waits for its answer, and with
\* a coordination backend of anybody who reports a host.
THEOREM FailuresAreAcceptedOnce == Spec => []AcceptedOnce
<1>1. Init => DuplicateInv
  BY DEF Init, DuplicateInv, EarlierEnded, HoldsLock, NewToClient, OneHolder, NewAtWrite, NewAsRow,
    Rivals, NoNote
<1>2. ASSUME Base, DuplicateInv, [Next]_vars PROVE DuplicateInv'
  <2>1. EarlierEnded'
    BY <1>2, NextEarlierEnded DEF DuplicateInv, Base
  <2>2. \A n \in Requests : HoldsLock(n)'
    BY <1>2, NextHoldsLock DEF DuplicateInv
  <2>3. ASSUME NEW n \in Requests, NEW m \in Requests
        PROVE  NewToClient(n, m)' /\ OneHolder(n, m)' /\ NewAtWrite(n, m)' /\ NewAsRow(n, m)'
    <3>1. OneHolder(n, m)'
      BY <1>2, NextOneHolder DEF DuplicateInv
    <3> QED
      BY <1>2, <3>1, NextNewToClient, NextNewAtWrite, NextNewAsRow
  <2> QED
    BY <2>1, <2>2, <2>3 DEF DuplicateInv
<1>3. ASSUME Base, DuplicateInv PROVE AcceptedOnce
  <2>1. ASSUME NEW n \in Existing PROVE n \in Requests /\ notes[n] # NoNote /\ Passed(n) /\ Noted(n)
    BY <1>3, <2>1 DEF Existing, NoNote, Passed, Base, RowInv, RowOf
  <2>2. ASSUME NEW m \in Existing, NEW n \in Existing, Same(m, n)
        PROVE  Repeats(n, m) /\ Repeats(m, n) /\ call[m].name = call[n].name
    <3>1. Noted(n) /\ Noted(m) /\ notes[n] # NoNote /\ notes[m] # NoNote
      BY <2>1
    <3> QED
      BY <2>2, <3>1 DEF Same, Repeats, Since, Noted
  <2>3. ASSUME NEW m \in Existing, NEW n \in Existing, m # n, Same(m, n)
        PROVE  m \notin earlier[n] /\ n \notin earlier[m]
    BY <1>3, <2>1, <2>2, <2>3 DEF DuplicateInv, NewToClient
  <2>4. ASSUME NEW m \in Existing, NEW n \in Existing, m # n, Same(m, n), backend
        PROVE  notes[m].type # "COMPUTE_HOST"
    <3>1. SUFFICES ASSUME notes[m].type = "COMPUTE_HOST" PROVE FALSE
      OBVIOUS
    <3>2. Noted(n) /\ Noted(m) /\ notes[n] # NoNote /\ notes[m] # NoNote
      BY <2>1
    <3>3. IsCompute(n) /\ IsCompute(m)
      BY <2>4, <3>1, <3>2 DEF IsCompute, Noted, Same
    <3>4. NewAsRow(n, m)
      BY <1>3, <2>1 DEF DuplicateInv
    <3> QED
      BY <2>2, <2>4, <3>2, <3>3, <3>4 DEF NewAsRow, Rivals
  <2> QED
    BY <2>3, <2>4 DEF AcceptedOnce
<1> QED
  BY <1>1, <1>2, <1>3, BaseInvariant, PTL DEF Spec
=============================================================================
