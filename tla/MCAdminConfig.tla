--------------------------- MODULE MCAdminConfig ----------------------------
(* Requests for AdminConfig. *)
EXTENDS AdminConfig

Limit(n) == [kind |-> "runtime", value |-> n]
Other    == [kind |-> "reconfigure", value |-> 0]

\* No change, two changes of the limit, one below its minimum, one of another
\* option beside it.
MCFirst == << Limit(4) >>
MCValues == { << >>, << Limit(5), Limit(6) >>, << Limit(0) >>, << Limit(4), Other >> }

On(d) == { [op |-> "update", draft |-> d, values |-> v] : v \in MCValues }
         \cup { [op |-> op, draft |-> d] : op \in { "update", "delete", "validate", "plan" } }
         \cup { [op |-> "apply", draft |-> d, wellformed |-> w] : w \in BOOLEAN }

MCCalls == { [op |-> "create", values |-> << Limit(4) >>], [op |-> "apply", draft |-> 1, wellformed |-> TRUE] }
           \cup On(0)
           \cup { [op |-> "set_limit", value |-> n] : n \in { 0, 7 } } \cup { [op |-> "clear_limit"] }
=============================================================================
