------------------------------ MODULE Pipeline ------------------------------
(***************************************************************************)
(* What a request goes through before a method of a controller runs: the   *)
(* URL map, the filters of the paste pipeline, the router, the resource    *)
(* (version, content type, method, body, project), the schema and the      *)
(* policy.  Each stage may answer itself; what it looks at is a field of   *)
(* the request:                                                            *)
(*   prefix    "/v1", "/" or "other"                                       *)
(*   params    the versions named by the Content-Type and Accept headers   *)
(*   large     is the body over the limit?                                 *)
(*   token     "valid", "invalid": what the authtoken filter says          *)
(*   headers   which identity headers it sets: "all", "no_user",           *)
(*             "no_tenant", "bad_catalog"                                  *)
(*   admin     has the user the admin role?                                *)
(*   parent, collection, on                                                *)
(*             the path: the collection around the collection, or "none";    *)
(*             the collection; on "all" of it, a "member", its "action"      *)
(*   header    the version header: "none", "latest", "malformed", "number" *)
(*   number    ... and its number                                          *)
(*   type      the Content-Type header: "none", "json", "other"            *)
(*   method    "GET", "POST", "PUT", "DELETE"                              *)
(*   body      "empty", "not_utf8", "not_json", "wrong", "enabled", "right"*)
(*   project   the project in the URL: "none", "own", "other", "unlike" a  *)
(*             hexadecimal number                                            *)
(***************************************************************************)
EXTENDS Naturals, FiniteSets, Sequences

\* Versions are pairs, compared like the tuples of APIVersionRequest.
NotAfter(v, w) == v[1] < w[1] \/ (v[1] = w[1] /\ v[2] <= w[2])

NullVersion == << 0, 0 >>
MinVersion  == << 1, 0 >>
MaxVersion  == << 1, 3 >>

\* A null bound is no bound.
Matches(v, min, max) ==
  /\ min = NullVersion \/ NotAfter(min, v)
  /\ max = NullVersion \/ NotAfter(v, max)

RequestVersion(q) ==
  CASE q.header = "none"   -> MinVersion
    [] q.header = "latest" -> MaxVersion
    [] OTHER               -> q.number

\* The prefix of the path decides which application is asked; without one,
\* the version parameter of a header, and then the root.
Application(q) == IF q.prefix = "/v1" \/ "1" \in q.params THEN "v1" ELSE "apiversions"

\* What the middleware makes of the identity headers; noauth2 takes everybody
\* for an administrator without a project.
Unauthorized(q, strategy) == strategy = "keystone" /\ (q.token = "invalid" \/ q.headers = "no_user")
IsAdmin(q, strategy)      == strategy = "noauth2" \/ q.admin
OwnProject(q, strategy)   == strategy = "keystone" /\ q.project = "own"

\* A KeyError or an unreadable catalog
ContextFails(q, strategy) ==
  \/ q.headers = "bad_catalog"
  \/ strategy = "keystone" /\ q.headers = "no_tenant"

\* What an exception that nobody expected becomes
Crashed == 500

\* The collections the extensions register, and the one each lies in.
Parent == [segments |-> "none", hosts |-> "segments", notifications |-> "none",
           vmoves |-> "notifications", staged_recovery |-> "none"]

\* What the methods of the request mean on a path of each kind
ActionOf == [all    |-> [GET |-> "index", POST |-> "create"],
             member |-> [GET |-> "show", PUT |-> "update", DELETE |-> "delete"],
             action |-> [POST |-> "action"]]

WithMemberActions == { "segments", "notifications" }

\* What the controllers have a method for: less than there are routes.
Changeable == { "index", "show", "create", "update", "delete" }
MethodsOf  == [segments |-> Changeable, hosts |-> Changeable,
               notifications |-> { "index", "show", "create" }, vmoves |-> { "index", "show" },
               staged_recovery |-> { "show", "update", "delete" }]

Registered(q) ==
  /\ q.collection \in DOMAIN Parent /\ q.parent = Parent[q.collection]
  /\ q.method \in DOMAIN ActionOf[q.on]
  /\ q.on = "action" => q.collection \in WithMemberActions

\* Every route is there twice, with and without a project before it.
Prefixed(q)   == q.project # "unlike"
NotFound(q)   == ~(Registered(q) /\ Prefixed(q))
NotAllowed(q) == Registered(q) /\ ActionOf[q.on][q.method] \notin MethodsOf[q.collection]

\* The resource looks at the version, the content type and the body ...
UnknownVersion(q) == q.header = "number" /\ ~Matches(q.number, MinVersion, MaxVersion)
OtherType(q)      == q.type = "other"
HasBody(q)        == q.method \in { "POST", "PUT" }
Malformed(q)      == HasBody(q) /\ q.body = "not_json"
OtherProject(q, strategy) == q.project # "none" /\ ~OwnProject(q, strategy)

\* ... the method checks the schema of the version (`enabled' came with 1.2)
\* and then the policy: every rule is admin_api.
WithEnabled(q) == Matches(RequestVersion(q), << 1, 2 >>, NullVersion)
FitsSchema(q)  == q.body = "right" \/ (q.body = "enabled" /\ WithEnabled(q))

Invalid(q)             == HasBody(q) /\ ~FitsSchema(q)
AdminApi(q, strategy)  == IsAdmin(q, strategy)
Forbidden(q, strategy) == ~AdminApi(q, strategy)

\* The stages in their order: when each answers, and what.
Stages(q, strategy) == <<
  [refuses |-> Application(q) = "apiversions", answer |-> IF q.prefix = "/" THEN 200 ELSE 300],
  [refuses |-> q.large,                        answer |-> 413],
  [refuses |-> Unauthorized(q, strategy),      answer |-> 401],
  [refuses |-> ContextFails(q, strategy),      answer |-> Crashed],
  [refuses |-> NotFound(q),                    answer |-> 404],
  [refuses |-> q.header = "malformed",         answer |-> 400],
  [refuses |-> UnknownVersion(q),              answer |-> 406],
  [refuses |-> OtherType(q),                   answer |-> 415],
  [refuses |-> NotAllowed(q),                  answer |-> 405],
  [refuses |-> q.body = "not_utf8",            answer |-> Crashed],
  [refuses |-> Malformed(q),                   answer |-> 400],
  [refuses |-> OtherProject(q, strategy),      answer |-> 400],
  [refuses |-> Invalid(q),                     answer |-> 400],
  [refuses |-> Forbidden(q, strategy),         answer |-> 403] >>

Admitted == 0

\* A stage that has nothing to say hands the request on.
Refusing(stages) == { i \in DOMAIN stages : stages[i].refuses }

\* The answer of the first stage that refuses, or Admitted
Screened(q, strategy) ==
  LET stages == Stages(q, strategy)
      hits   == Refusing(stages)
  IN IF hits = {} THEN Admitted
     ELSE stages[CHOOSE i \in hits : \A j \in hits : i <= j].answer
=============================================================================
