------------------------------ MODULE MCHaApi ------------------------------
(* Instances of HaApi for TLC. *)
EXTENDS HaApi, TLC

Notify(name, type, t) == [op |-> "notify", name |-> name, type |-> type, payload |-> "stopped", generated |-> t]

\* a call of every kind on the rows that exist at the start; with b a name
\* that a new and a renamed host compete for
SomeCalls ==
  { [op |-> "create_segment", name |-> "A"],
    [op |-> "update_segment", segment |-> 0, name |-> "B"],
    [op |-> "delete_segment", segment |-> 0],
    [op |-> "create_host", segment |-> 0, name |-> "b"],
    [op |-> "update_host", segment |-> 0, host |-> 0, name |-> "b"],
    [op |-> "update_host", segment |-> 0, host |-> 0, on_maintenance |-> FALSE],
    [op |-> "delete_host", segment |-> 0, host |-> 0],
    Notify("a", "COMPUTE_HOST", 0), Notify("a", "COMPUTE_HOST", 1), Notify("a", "VM", 0),
    Notify("b", "COMPUTE_HOST", 0) }

Method(c) ==
  CASE c.op \in { "create_segment", "create_host", "notify" } -> "POST"
    [] c.op \in { "update_segment", "update_host" }           -> "PUT"
    [] OTHER                                                  -> "DELETE"

Collection(c) ==
  CASE c.op \in SegmentOps -> "segments"
    [] c.op \in HostOps    -> "hosts"
    [] OTHER               -> "notifications"

\* a request nobody finds fault with
Plain(c) ==
  [prefix |-> "/v1", params |-> {}, large |-> FALSE, token |-> "valid", headers |-> "all", admin |-> TRUE,
   parent |-> Parent[Collection(c)], collection |-> Collection(c), on |-> IF Method(c) = "POST" THEN "all" ELSE "member",
   header |-> "number", number |-> << 1, 2 >>, type |-> "json", method |-> Method(c),
   body |-> "right", project |-> "own"]

\* ... and, tried with one call, ones that differ from it where a stage looks
SomeForms(c) ==
  { Plain(c) } \cup IF c.op # "update_segment" THEN {} ELSE
  { [Plain(c) EXCEPT !.prefix = "/"], [Plain(c) EXCEPT !.prefix = "/", !.params = {"1"}],
    [Plain(c) EXCEPT !.prefix = "other"], [Plain(c) EXCEPT !.large = TRUE], [Plain(c) EXCEPT !.token = "invalid"],
    [Plain(c) EXCEPT !.headers = "no_tenant"], [Plain(c) EXCEPT !.admin = FALSE], [Plain(c) EXCEPT !.parent = "notifications"],
    [Plain(c) EXCEPT !.project = "unlike"], [Plain(c) EXCEPT !.on = "all"],
    [Plain(c) EXCEPT !.header = "malformed"], [Plain(c) EXCEPT !.number = << 1, 4 >>],
    [Plain(c) EXCEPT !.type = "other"], [Plain(c) EXCEPT !.collection = "notifications"],
    [Plain(c) EXCEPT !.on = "action", !.method = "POST"], [Plain(c) EXCEPT !.body = "not_utf8"],
    [Plain(c) EXCEPT !.body = "wrong"], [Plain(c) EXCEPT !.body = "enabled"],
    [Plain(c) EXCEPT !.body = "enabled", !.header = "none"], [Plain(c) EXCEPT !.project = "other"] }

Symmetry == Permutations(Requests)
=============================================================================
