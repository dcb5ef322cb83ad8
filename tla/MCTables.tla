------------------------------ MODULE MCTables ------------------------------
(* Small tables for Tables. *)
EXTENDS Tables

MCIds == 1 .. 5

Row(time, v, parent)  == [Absent EXCEPT !.state = "live", !.created_at = time, !.column = v, !.parent = parent]
Deleted(row, time)    == [row EXCEPT !.state = "deleted", !.deleted_at = time]
Updated(row, time)  == [row EXCEPT !.updated_at = time]
Table(some)           == [i \in MCIds |-> IF i \in DOMAIN some THEN some[i] ELSE Absent]

\* Three hosts in a segment, two of them of one second; beside them a deleted
\* segment and its host, notifications that are over, moves and a draft.
MCInitial == {
  [failover_segments       |-> Table(<< Row(1, 1, 0), Deleted(Row(1, 2, 0), 1) >>),
   hosts                   |-> Table(<< Row(1, 2, 1), Row(1, 1, 1), Row(2, 1, 1), Deleted(Row(1, 2, 2), 1) >>),
   notifications           |-> Table(<< Updated(Row(1, 1, 0), 1), Updated(Row(1, 1, 0), 1) >>),
   vmoves                  |-> Table(<< Row(1, 1, 1), Row(1, 2, 1) >>),
   admin_config_drafts     |-> Table(<< Deleted(Row(1, 1, 0), 1) >>),
   admin_config_apply_jobs |-> Table(<< >>)] }

Request(t, filter, key, dir, limit) ==
  [table |-> t, parent |-> 1, filter |-> filter, sort_key |-> key, sort_dir |-> dir, limit |-> limit]

MCRequests == {
  Request("hosts", 0, << >>, << >>, 1),
  Request("hosts", 0, << "column" >>, << "asc" >>, 1),
  Request("hosts", 1, << "created_at", "column" >>, << "asc", "desc" >>, 5),
  Request("notifications", 0, << >>, << "asc" >>, 1),
  Request("vmoves", 0, << >>, << >>, 0),
  Request("failover_segments", 0, << "id" >>, << "asc", "asc" >>, 2) }

MCPurges == { [age |-> 1, max_rows |-> 2], [age |-> 0, max_rows |-> 0] }
=============================================================================
