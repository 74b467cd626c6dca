------------------------------- MODULE HttpApi -------------------------------
(***************************************************************************)
(* A request in an HTTP worker, from the middlewares (apps/core/middleware)  *)
(* through the views (apps/documents/views.py) and back: the context         *)
(* variables that log lines are enriched from, the phase timings, the access *)
(* line and counters, and the answer.  An upload registers its bot on the    *)
(* way (Registry); the rest of a pipeline or search is its outcome here.     *)
(***************************************************************************)
EXTENDS Registry

CONSTANTS
    Requests,    \* the requests clients send
    Ids,         \* request ids, sent by the client or made up
    NoRequest, NoId

\* "healthz" stands for /healthz, /metrics and /admin/; "refused" for what a
\* middleware between the two of this service answers (a wrong host); "slashless"
\* for a path no route matches without a slash at its end (/admin).
KindsOfRequest == {"upload", "delete", "search", "healthz", "static", "refused", "slashless"}
Inputs == {"good", "bad_slug", "bad_body", "malformed"}

ASSUME RequestAssumption ==
    Requests \subseteq [kind : KindsOfRequest, id : Ids, scope : Scopes, input : Inputs]
ASSUME NullAssumption ==
    NoId \notin Ids /\ NoScope \notin Scopes /\ NoRequest \notin Requests

VARIABLES
    at,          \* how far the request of a worker is
    req,         \* the request
    ctx,         \* the context variables: request id, tenant and bot, document
    before,      \* their values when the request came, kept in the reset tokens
    phases,      \* the requests whose phases are in the timing dictionary
    answer,      \* the HTTP status of the response so far
    lines        \* the statuses on the access lines of the request

web  == <<at, req, ctx, before, phases, answer, lines>>
vars == <<registry, web>>

Unset == [id |-> NoId, scope |-> NoScope, doc |-> FALSE]

Identified(r) == r.kind # "static"
Served(r)     == r.kind \in {"upload", "delete", "search"}
\* Of the requests AccessLogMiddleware sees, those whose paths it does not exclude.
Logged(r)     == Served(r) \/ r.kind = "slashless"

TypeOK ==
    /\ RegistryTypeOK
    /\ at \in [Workers -> {"idle", "outer", "inner", "view", "register", "work",
                           "leave", "common", "exit"}]
    /\ req \in [Workers -> Requests \cup {NoRequest}]
    /\ ctx \in [Workers -> [id : Ids \cup {NoId}, scope : Scopes \cup {NoScope}, doc : BOOLEAN]]
    /\ phases \in [Workers -> SUBSET Ids]
    /\ \A w \in Workers :
          /\ at[w] = "idle" <=> req[w] = NoRequest
          /\ step[w] # "none" => at[w] \in {"register", "work"} /\ req[w].kind = "upload"

Init ==
    /\ RegistryInit
    /\ at = [w \in Workers |-> "idle"]
    /\ req = [w \in Workers |-> NoRequest]
    /\ ctx = [w \in Workers |-> Unset]
    /\ before = [w \in Workers |-> Unset]
    /\ phases = [w \in Workers |-> {}]
    /\ answer = [w \in Workers |-> 0]
    /\ lines = [w \in Workers |-> <<>>]

-----------------------------------------------------------------------------
\* Mistakes the code could have made.

\* The timing dictionary is made once.
AccessLogIn_KeepsPhases(w) ==
    /\ at[w] = "inner" /\ req[w].kind # "refused"
    /\ at' = [at EXCEPT ![w] = "view"]
    /\ UNCHANGED <<registry, req, ctx, before, phases, answer, lines>>

\* Only the request id is reset.
Exit_KeepsScope(w) ==
    /\ at[w] = "exit"
    /\ ctx' = [ctx EXCEPT ![w].id = NoId]
    /\ at' = [at EXCEPT ![w] = "idle"]
    /\ req' = [req EXCEPT ![w] = NoRequest]
    /\ lines' = [lines EXCEPT ![w] = <<>>]
    /\ answer' = [answer EXCEPT ![w] = 0]
    /\ before' = [before EXCEPT ![w] = Unset]
    /\ UNCHANGED <<registry, phases>>

-----------------------------------------------------------------------------
\* The middlewares, from outside to inside.

Begin(w, r) ==
    /\ at[w] = "idle"
    /\ at' = [at EXCEPT ![w] = "outer"]
    /\ req' = [req EXCEPT ![w] = r]
    /\ UNCHANGED <<registry, ctx, before, phases, answer, lines>>

RequestIdIn(w) ==
    /\ at[w] = "outer"
    /\ at' = [at EXCEPT ![w] = "inner"]
    /\ before' = [before EXCEPT ![w] = ctx[w]]
    /\ ctx' = [ctx EXCEPT ![w] = IF Identified(req[w]) THEN [Unset EXCEPT !.id = req[w].id] ELSE @]
    /\ UNCHANGED <<registry, req, phases, answer, lines>>

Refuse(w) ==
    /\ at[w] = "inner" /\ req[w].kind = "refused"
    /\ at' = [at EXCEPT ![w] = "exit"]
    /\ answer' = [answer EXCEPT ![w] = 400]
    /\ UNCHANGED <<registry, req, ctx, before, phases, lines>>

AccessLogIn(w) ==
    /\ at[w] = "inner" /\ req[w].kind # "refused"
    /\ at' = [at EXCEPT ![w] = "view"]
    /\ phases' = [phases EXCEPT ![w] = IF Logged(req[w]) THEN {} ELSE @]
    /\ UNCHANGED <<registry, req, ctx, before, answer, lines>>

\* The finally clause of AccessLogMiddleware.
Leave(w) ==
    /\ at[w] = "leave"
    /\ at' = [at EXCEPT ![w] = "common"]
    /\ lines' = IF Logged(req[w]) THEN [lines EXCEPT ![w] = Append(@, answer[w])] ELSE lines
    /\ UNCHANGED <<registry, req, ctx, before, phases, answer>>

\* Django's CommonMiddleware, around AccessLogMiddleware: with APPEND_SLASH, its
\* default, it answers a 404 by a redirection to the path with a slash.
Common(w) ==
    /\ at[w] = "common"
    /\ at' = [at EXCEPT ![w] = "exit"]
    /\ answer' = IF req[w].kind = "slashless" THEN [answer EXCEPT ![w] = 301] ELSE answer
    /\ UNCHANGED <<registry, req, ctx, before, phases, lines>>

\* That of RequestIDMiddleware, and the response goes out.
Exit(w) ==
    /\ at[w] = "exit"
    /\ ctx' = [ctx EXCEPT ![w] = IF Identified(req[w]) THEN before[w] ELSE @]
    /\ at' = [at EXCEPT ![w] = "idle"]
    /\ req' = [req EXCEPT ![w] = NoRequest]
    /\ before' = [before EXCEPT ![w] = Unset]
    /\ answer' = [answer EXCEPT ![w] = 0]
    /\ lines' = [lines EXCEPT ![w] = <<>>]
    /\ UNCHANGED <<registry, phases>>

-----------------------------------------------------------------------------
\* The views.

Answer(w, status) ==
    /\ at' = [at EXCEPT ![w] = "leave"]
    /\ answer' = [answer EXCEPT ![w] = status]

\* set_request_context: what it is not given it leaves as it is.
BindScope(w)    == ctx' = [ctx EXCEPT ![w].scope = req[w].scope]
BindDocument(w) == ctx' = [ctx EXCEPT ![w].scope = req[w].scope, ![w].doc = TRUE]

PlainView(w) ==
    /\ at[w] = "view" /\ req[w].kind \in {"healthz", "static"}
    /\ \E status \in {200, 503} : Answer(w, status)
    /\ UNCHANGED <<registry, req, ctx, before, phases, lines>>

\* No route has the path.
Unresolved(w) ==
    /\ at[w] = "view" /\ req[w].kind = "slashless"
    /\ Answer(w, 404)
    /\ UNCHANGED <<registry, req, ctx, before, phases, lines>>

RejectSlug(w) ==
    /\ at[w] = "view" /\ Served(req[w]) /\ req[w].input = "bad_slug"
    /\ Answer(w, 400)
    /\ UNCHANGED <<registry, req, ctx, before, phases, lines>>

\* The serializer refuses the body; or it cannot be parsed, for which the
\* framework's exception ends in the clause for unforeseen ones.
RejectBody(w) ==
    /\ at[w] = "view" /\ Served(req[w]) /\ req[w].input \in {"bad_body", "malformed"}
    /\ BindScope(w)
    /\ Answer(w, IF req[w].input = "bad_body" THEN 400 ELSE 500)
    /\ UNCHANGED <<registry, req, before, phases, lines>>

\* An upload or delete that does not get its lock, or no connection for it.
NoLock(w) ==
    /\ at[w] = "view" /\ req[w].kind \in {"upload", "delete"} /\ req[w].input = "good"
    /\ BindDocument(w)
    /\ \E status \in {409, 500} : Answer(w, status)
    /\ UNCHANGED <<registry, req, before, phases, lines>>

CallPipeline(w) ==
    /\ at[w] = "view" /\ Served(req[w]) /\ req[w].input = "good"
    /\ IF req[w].kind = "search" THEN BindScope(w) ELSE BindDocument(w)
    /\ \/ req[w].kind = "upload"
          /\ at' = [at EXCEPT ![w] = "register"]
          /\ Register(w, req[w].scope)
       \/ req[w].kind # "upload"
          /\ at' = [at EXCEPT ![w] = "work"]
          /\ UNCHANGED registry
    /\ UNCHANGED <<req, before, phases, answer, lines>>

Registered(w) ==
    /\ at[w] = "register"
    /\ \/ /\ step[w] = "done"
          /\ at' = [at EXCEPT ![w] = "work"]
          /\ UNCHANGED <<registry, answer>>
       \/ step[w] = "failed" /\ Answer(w, 500) /\ Forget(w)
    /\ UNCHANGED <<req, ctx, before, phases, lines>>

Outcomes == [upload |-> {200, 201, 422, 500},
             delete |-> {204, 404, 500},
             search |-> {200, 404, 503, 500}]

\* The rest of the pipeline or the search.  Only uploads are timed, from
\* the creation of the collection on.
Work(w) ==
    /\ at[w] = "work"
    /\ \E status \in Outcomes[req[w].kind] : Answer(w, status)
    /\ \/ UNCHANGED phases
       \/ /\ req[w].kind = "upload"
          /\ phases' = [phases EXCEPT ![w] = @ \cup {req[w].id}]
    /\ Forget(w)
    /\ UNCHANGED <<req, ctx, before, lines>>

\* gunicorn --timeout: the process goes, and a new one takes its place.
Abort(w) ==
    /\ at[w] \in {"view", "register", "work"}
    /\ Forget(w)
    /\ at' = [at EXCEPT ![w] = "idle"]
    /\ req' = [req EXCEPT ![w] = NoRequest]
    /\ ctx' = [ctx EXCEPT ![w] = Unset] /\ before' = [before EXCEPT ![w] = Unset]
    /\ phases' = [phases EXCEPT ![w] = {}]
    /\ answer' = [answer EXCEPT ![w] = 0] /\ lines' = [lines EXCEPT ![w] = <<>>]

-----------------------------------------------------------------------------

Serve(w) ==
    \/ RequestIdIn(w) \/ Refuse(w) \/ AccessLogIn(w) \/ Leave(w) \/ Common(w) \/ Exit(w)
    \/ PlainView(w) \/ Unresolved(w) \/ RejectSlug(w) \/ RejectBody(w) \/ NoLock(w)
    \/ CallPipeline(w) \/ Registered(w) \/ Work(w)
    \/ at[w] = "register" /\ Registering(w) /\ UNCHANGED web

Next ==
    \/ \E w \in Workers, r \in Requests : Begin(w, r)
    \/ \E w \in Workers : Serve(w) \/ Abort(w)
    \/ Operator /\ UNCHANGED web

Spec == Init /\ [][Next]_vars

-----------------------------------------------------------------------------
\* Properties.

\* Every log line of a request carries its own request id, and no tenant, bot
\* or document of another, nor of one the worker served before; the access line
\* names those of every request whose slugs were accepted, and only phases the
\* request went through.
LinesAreOwn ==
    \A w \in Workers : at[w] \in {"view", "register", "work", "leave"} =>
        LET r == req[w] IN
          /\ ctx[w].id = IF Identified(r) THEN r.id ELSE NoId
          /\ ctx[w].scope \in {NoScope, r.scope}
          /\ ctx[w].doc => r.kind \in {"upload", "delete"}
          /\ (at[w] = "leave" /\ Served(r)) =>
                /\ ctx[w].scope = NoScope <=> r.input = "bad_slug"
                /\ phases[w] \subseteq {r.id}
          /\ (at[w] = "leave" /\ r.kind = "slashless") =>
                ctx[w].scope = NoScope /\ phases[w] = {}

=============================================================================
