------------------------------- MODULE Tables -------------------------------
(***************************************************************************)
(* The tables of db/sqlalchemy as the list requests of the API and         *)
(* `masakari-manage db purge' see them.  A client walks a list page by     *)
(* page (limit, marker, sort keys) while rows are created, changed,        *)
(* soft-deleted and purged; a purge goes through the tables one            *)
(* transaction at a time.                                                  *)
(*                                                                         *)
(* A row is [state, created_at, updated_at, deleted_at, column, parent]:   *)
(* times are numbers (0 is NULL); `column' stands for the columns that an  *)
(* update changes and a client may sort or filter by, of a notification    *)
(* its status; `parent' is the segment of a host and the notification of a *)
(* move.                                                                   *)
(***************************************************************************)
EXTENDS Naturals, FiniteSets, Sequences, Functions

CONSTANTS
  Ids,         \* row ids, an interval from 1: per table they grow and are never reused
  Values,      \* values of `column'
  Over,        \* those that stand for finished, failed and ignored
  Initial,     \* contents of the tables at the start
  Requests,    \* list requests: [table, parent, filter, sort_key, sort_dir, limit]
  Purges,      \* purge commands: [age, max_rows]
  Written,     \* bound: the tables that are written meanwhile
  MaxLimit,    \* osapi_max_limit
  Lag,         \* bound: how far a time that is written may lie before the commit
  MaxClock, MaxChanges   \* bounds: the time, and the rows written meanwhile

VARIABLES
  rows,     \* per table and id, the row
  clock,
  walk,     \* the client's walk through a list
  purge,    \* the purge that is going on, or the last one
  raced,    \* hosts created into a segment that had been deleted since it was read
  changes   \* how many rows were written

vars == <<rows, clock, walk, purge, raced, changes>>

\* What `deleted' tables there are, and the parent a row belongs to.
TableNames == { "failover_segments", "hosts", "notifications", "vmoves",
                "admin_config_drafts", "admin_config_apply_jobs" }
ParentOf == [hosts |-> "failover_segments", vmoves |-> "notifications"]

\* What the code can have left in the tables by some time, and of a host and
\* its segment: the row of the segment is there as long as the host's, and a
\* host is deleted with its segment or before, unless it is an orphan.  The
\* two statements of one deletion each take the time for themselves.
TableRow ==
  [state : { "absent", "live", "deleted", "purged" }, created_at : Nat, updated_at : Nat,
   deleted_at : Nat, column : Nat, parent : Nat]

Sound(table, time) ==
  /\ table \in [TableNames -> [Ids -> TableRow]]
  /\ \A t \in TableNames, i \in Ids :
       /\ table[t][i].state = "live" => table[t][i].deleted_at = 0
       /\ table[t][i].state = "deleted" => table[t][i].deleted_at \in 1 .. time

Follows(host, segment) ==
  \/ segment.state = "live"
  \/ host.state = "deleted" /\ host.deleted_at <= segment.deleted_at + Lag

HostsFollow(table, orphans) ==
  \A h \in Ids : table.hosts[h].state \in { "live", "deleted" } =>
    /\ table.hosts[h].parent \in Ids
    /\ table.failover_segments[table.hosts[h].parent].state \in { "live", "deleted" }
    /\ h \in orphans \/ Follows(table.hosts[h], table.failover_segments[table.hosts[h].parent])

ASSUME TablesAssumption ==
  /\ Ids \subseteq Nat \ {0} /\ IsFiniteSet(Ids)
  /\ Values \subseteq Nat /\ Over \subseteq Values /\ Written \subseteq TableNames
  /\ MaxLimit \in Nat \ {0} /\ Lag \in Nat /\ MaxClock \in Nat /\ MaxChanges \in Nat
  /\ \A c \in Purges : c.age \in Nat /\ c.max_rows \in Nat
  /\ \A p \in Requests :
       /\ p.table \in TableNames /\ p.limit \in Nat
       /\ p.sort_key \in Seq(Range(p.sort_key)) /\ p.sort_dir \in Seq(Range(p.sort_dir))
  /\ \A table \in Initial : Sound(table, 2) /\ HostsFollow(table, {})

\* Only these objects are ever destroyed.
Deletable == { "failover_segments", "hosts", "admin_config_drafts" }

Absent == [state |-> "absent", created_at |-> 0, updated_at |-> 0, deleted_at |-> 0,
           column |-> 0, parent |-> 0]

IsLive(t, i) == rows[t][i].state = "live"
Live(t)      == { i \in Ids : IsLive(t, i) }
Kept(t)      == { i \in Ids : rows[t][i].state \in { "live", "deleted" } }

-----------------------------------------------------------------------------
(* A list: its order, filters and pages.  The ..._get_all functions of the *)
(* six tables are copies of one scheme, which this section stands for.     *)

\* get_sort_params: the request's keys and directions, or one default each.
GivenKeys(p) == IF p.sort_key = << >> THEN << "created_at" >> ELSE p.sort_key
GivenDirs(p) == IF p.sort_dir = << >> THEN << "desc" >> ELSE p.sort_dir

Missing(p, key) == IF key \in Range(GivenKeys(p)) THEN << >> ELSE << key >>

\* mutant: rows of one second have no order
SortKeysByTime(p) == GivenKeys(p) \o Missing(p, "created_at")

\* _process_sort_params: the default keys come last, in the first direction.
SortKeys(p) == GivenKeys(p) \o Missing(p, "created_at") \o Missing(p, "id")

SortDir(p, n) == IF n \in DOMAIN GivenDirs(p) THEN GivenDirs(p)[n] ELSE GivenDirs(p)[1]

InvalidSort(p) ==
  \/ Len(GivenDirs(p)) > Len(GivenKeys(p))
  \/ ~(Range(GivenDirs(p)) \subseteq { "asc", "desc" })
  \/ ~(Range(GivenKeys(p)) \subseteq { "created_at", "column", "id" })

Column(t, i, key) ==
  CASE key = "id"         -> i
    [] key = "created_at" -> rows[t][i].created_at
    [] OTHER              -> rows[t][i].column

\* Does row i come before row j?  The criteria paginate_query builds: equal in
\* some of the first keys, and before in the next.
Before(p, i, j) ==
  LET at(k, n) == Column(p.table, k, SortKeys(p)[n]) IN
  \E n \in DOMAIN SortKeys(p) :
    /\ \A m \in 1 .. n - 1 : at(i, m) = at(j, m)
    /\ IF SortDir(p, n) = "asc" THEN at(i, n) < at(j, n) ELSE at(j, n) < at(i, n)

\* The filters of a list: the parent in the URL, and a parameter.
OfParent(p, i) == p.table \in DOMAIN ParentOf => rows[p.table][i].parent = p.parent

Fits(p, i) ==
  /\ IsLive(p.table, i)
  /\ OfParent(p, i)
  /\ p.filter = 0 \/ rows[p.table][i].column = p.filter

\* get_limit_and_marker
Limit(p) == IF p.limit < MaxLimit THEN p.limit ELSE MaxLimit

\* The rows after the marker (0: from the start), as the marker's row is now.
After(p, marker) == { i \in Ids : Fits(p, i) /\ (marker = 0 \/ Before(p, marker, i)) }

\* A page: as many of them as the limit allows, none of the others before
\* any; which of two rows of one rank is in is the database's choice.
Pages(p, all) ==
  { page \in SUBSET all :
      /\ Cardinality(page) = IF Cardinality(all) < Limit(p) THEN Cardinality(all) ELSE Limit(p)
      /\ \A i \in page : \A j \in all \ page : ~Before(p, j, i) }

IsLast(p, page, i) == i \in page /\ \A j \in page : ~Before(p, i, j)

-----------------------------------------------------------------------------
(* A client walks a list: until a page is empty, with the last row of each *)
(* page as the marker of the next.                                         *)

\* What the walk's properties are about: the rows that fit from the start and
\* are not written since, how often each of them was seen, and whether the
\* row of the marker was changed while it was the marker.
Begun(p) ==
  [pc |-> "ask", request |-> p, marker |-> 0, seen |-> [i \in Ids |-> 0],
   steady |-> { i \in Ids : Fits(p, i) }, slipped |-> FALSE]

Init ==
  /\ rows \in Initial
  /\ clock = 2
  /\ changes = 0
  /\ \E p \in Requests : walk = Begun(p)
  /\ purge = [pc |-> "idle"]
  /\ raced = {}

Refuse(code) == walk' = [pc |-> code]

\* The controllers of hosts and moves look for the parent first (404); moves
\* are listed of a COMPUTE_HOST notification only, which every one is here.
ParentFound(p) == p.table \in DOMAIN ParentOf => IsLive(ParentOf[p.table], p.parent)

Ask ==
  /\ walk.pc = "ask"
  /\ IF ParentFound(walk.request) THEN walk' = [walk EXCEPT !.pc = "query"] ELSE Refuse("404")
  /\ UNCHANGED <<rows, clock, purge, raced, changes>>

\* The marker is looked up like any row: not when it is soft-deleted.
MarkerFound(t, i) == i = 0 \/ IsLive(t, i)

\* ..._get_all_by_filters
Query ==
  /\ walk.pc = "query"
  /\ LET p == walk.request
         seen(page) == [i \in Ids |-> walk.seen[i] + (IF i \in page \cap walk.steady THEN 1 ELSE 0)]
     IN
     IF p.limit = 0 THEN Refuse("nothing")
     ELSE IF InvalidSort(p) \/ ~MarkerFound(p.table, walk.marker) THEN Refuse("400")
     ELSE \E page \in Pages(p, After(p, walk.marker)) :
          IF page = {} THEN walk' = [walk EXCEPT !.pc = "done", !.marker = 0]
          ELSE \E last \in Ids :
            /\ IsLast(p, page, last)
            /\ walk' = [walk EXCEPT !.pc = "ask", !.marker = last, !.seen = seen(page)]
  /\ UNCHANGED <<rows, clock, purge, raced, changes>>

-----------------------------------------------------------------------------
(* What is written meanwhile *)

Change == changes < MaxChanges /\ changes' = changes + 1 /\ UNCHANGED <<clock, purge>>

\* The walk, after the rows gone[t] of each table t have been written.
Unsettle(gone, changed) ==
  walk' = IF walk.pc \notin { "ask", "query" } THEN walk
          ELSE [walk EXCEPT !.steady = @ \ gone[walk.request.table],
                            !.seen = [i \in Ids |-> IF i \in gone[walk.request.table] THEN 0 ELSE @[i]],
                            !.slipped = @ \/ (changed /\ walk.marker \in gone[walk.request.table])]

Only(t, i) == [u \in TableNames |-> IF u = t THEN {i} ELSE {}]

\* timeutils.utcnow() of a process whose clock may be behind, some time before
\* the transaction commits
Times == { time \in 1 .. clock : clock <= time + Lag }

\* The parent was read some time before: it may be deleted by now, and only the foreign
\* key of hosts asks whether its row is still there.
Create(t) ==
  /\ Change
  /\ \E i \in Ids, time \in Times, v \in Values, parent \in Ids \cup {0} :
       /\ rows[t][i].state = "absent" /\ \A j \in Ids : j < i => rows[t][j].state # "absent"
       /\ IF t \in DOMAIN ParentOf THEN parent \in Kept(ParentOf[t]) ELSE parent = 0
       /\ rows' = [rows EXCEPT ![t][i] = [Absent EXCEPT !.state = "live", !.created_at = time,
                                                        !.column = v, !.parent = parent]]
       /\ raced' = IF t = "hosts" /\ ~IsLive("failover_segments", parent) THEN raced \cup {i} ELSE raced
  /\ UNCHANGED walk

Update(t, i) ==
  /\ Change /\ IsLive(t, i)
  /\ \E v \in Values : rows' = [rows EXCEPT ![t][i] = [@ EXCEPT !.column = v, !.updated_at = clock]]
  /\ Unsettle(Only(t, i), TRUE)
  /\ UNCHANGED raced

\* mutant: the hosts of a segment stay
NoHostsOf(s) == {}

\* failover_segment_delete
HostsOf(s) == { h \in Live("hosts") : rows.hosts[h].parent = s }

\* What a deletion takes: the row, and a segment's hosts in the same
\* transaction.
Gone(t, i) ==
  IF t = "failover_segments" THEN [Only(t, i) EXCEPT !.hosts = HostsOf(i)] ELSE Only(t, i)

\* soft_delete: the segment's statement first, at one time, and that of its
\* hosts afterwards, at another.
Delete(t, i) ==
  /\ Change /\ IsLive(t, i)
  /\ \E first, second \in Times :
       /\ first <= second
       /\ rows' = [u \in TableNames |-> [j \in Ids |->
                      IF j \in Gone(t, i)[u]
                        THEN [rows[u][j] EXCEPT !.state = "deleted",
                                                !.deleted_at = IF u = t THEN first ELSE second]
                        ELSE rows[u][j]]]
  /\ Unsettle(Gone(t, i), FALSE)
  /\ UNCHANGED raced

Tick == clock < MaxClock /\ clock' = clock + 1 /\ UNCHANGED <<rows, walk, purge, raced, changes>>

-----------------------------------------------------------------------------
(* masakari-manage db purge *)

\* mutant: in the order of the dependencies
PurgeOrderForward ==
  << "admin_config_apply_jobs", "admin_config_drafts", "failover_segments",
     "notifications", "vmoves", "hosts" >>

\* The reflected tables, by dependency and then by name, reversed.
PurgeOrder ==
  << "hosts", "vmoves", "notifications", "failover_segments",
     "admin_config_drafts", "admin_config_apply_jobs" >>

\* The command fixes what is old, once.  max_rows 0 stands for its -1, no
\* bound: the command refuses 0.
StartPurge(c) ==
  /\ purge.pc = "idle"
  /\ c.age < clock
  /\ purge' = [pc |-> "going", at |-> 1, before |-> clock - c.age, max_rows |-> c.max_rows, total |-> 0]
  /\ UNCHANGED <<rows, clock, walk, raced, changes>>

\* deleted_at or updated_at is compared with the time: NULL is not before it.
Old(t) ==
  { i \in Kept(t) :
      IF t = "notifications"
        THEN rows[t][i].column \in Over /\ rows[t][i].updated_at \in 1 .. purge.before - 1
        ELSE rows[t][i].deleted_at \in 1 .. purge.before - 1 }

\* mutant: the bound is one per table
BudgetPerTable(n) == IF purge.max_rows > 0 /\ purge.max_rows < n THEN purge.max_rows ELSE n

\* The LIMIT of the next of n rows
Budget(n) ==
  LET left == purge.max_rows - purge.total IN IF purge.max_rows > 0 /\ left < n THEN left ELSE n

\* The oldest ones; notifications in the order of their status, which the
\* database chooses.
Oldest(t) ==
  { out \in SUBSET Old(t) :
      /\ Cardinality(out) = Budget(Cardinality(Old(t)))
      /\ t # "notifications" =>
           \A i \in out : \A j \in Old(t) \ out : rows[t][i].deleted_at <= rows[t][j].deleted_at }

\* Hosts, deleted ones too, refer to the rows of segments.
Referred(t, out) == t = "failover_segments" /\ \E h \in Kept("hosts") : rows.hosts[h].parent \in out

\* One table, one transaction.  A foreign key ends the command.
PurgeTable ==
  /\ purge.pc = "going"
  /\ LET t == PurgeOrder[purge.at] IN
     \E out \in Oldest(t) :
          IF Referred(t, out)
          THEN purge' = [purge EXCEPT !.pc = "failed"] /\ UNCHANGED <<rows, walk>>
          ELSE LET total == purge.total + Cardinality(out) IN
                 /\ rows' = [rows EXCEPT ![t] = [i \in Ids |->
                               IF i \in out THEN [Absent EXCEPT !.state = "purged"] ELSE @[i]]]
                 /\ Unsettle([Only(t, 0) EXCEPT ![t] = out], FALSE)
                 /\ purge' = [purge EXCEPT !.total = total, !.at = @ + 1,
                                !.pc = IF (total = purge.max_rows /\ total > 0) \/ purge.at = Len(PurgeOrder)
                                         THEN "ended" ELSE "going"]
  /\ UNCHANGED <<clock, raced, changes>>

Next ==
  \/ Ask \/ Query
  \/ \E t \in Written : Create(t) \/ \E i \in Ids : Update(t, i)
  \/ \E t \in Written \cap Deletable : \E i \in Ids : Delete(t, i)
  \/ Tick
  \/ \E c \in Purges : StartPurge(c)
  \/ PurgeTable

Spec == Init /\ [][Next]_vars

-----------------------------------------------------------------------------
(* Properties *)

SegmentOf(h) == rows.failover_segments[rows.hosts[h].parent]

\* A client that walks a list to its end has seen every row that was in it
\* from the start and not written since exactly once, and none twice on the
\* way, whatever else was created, renamed, deleted or purged between two
\* pages: unless the row that was the marker was changed in a column the list
\* is sorted by, which moves the walk.
EachOnce ==
  walk.pc \in { "ask", "query", "done" } =>
    \/ walk.slipped /\ "column" \in Range(walk.request.sort_key)
    \/ \A i \in walk.steady : IF walk.pc = "done" THEN walk.seen[i] = 1 ELSE walk.seen[i] <= 1

\* What a purge stops at: a host whose segment is to go, and which was created
\* into the segment while that was being deleted, or was deleted with it so
\* close to the purge's cutoff that only the segment is before it.
StopsPurge(h) ==
  /\ SegmentOf(h).deleted_at \in 1 .. purge.before - 1
  /\ h \in raced \/ purge.before <= SegmentOf(h).deleted_at + Lag

\* A purge takes no more rows than it was told, and a foreign key only ever
\* ends it for an orphan or at the edge of its cutoff: not for a segment that
\* was deleted long before with all its hosts.  Until the orphan is purged too
\* it stops every purge of that segment's age.
OnlyOrphansStopPurge ==
  /\ purge.pc = "failed" => \E h \in Kept("hosts") : StopsPurge(h)
  /\ purge.pc # "idle" /\ purge.max_rows > 0 => purge.total <= purge.max_rows

\* Deleting a segment and creating a host in it may interleave as they like:
\* a host that is left behind live, or deleted later than the deletion of its
\* segment took, was created by a request that had read the segment before it
\* was deleted; and no purge takes the row of a segment away under the row of
\* a host.
HostsFollowSegments == HostsFollow(rows, raced)
=============================================================================
