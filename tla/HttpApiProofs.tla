---------------------------- MODULE HttpApiProofs ----------------------------
(***************************************************************************)
(* Theorems about HttpApi and the Registry under it, for any workers, slugs,  *)
(* request ids and requests.                                                *)
(*                                                                         *)
(* The three parts of the invariant are proved one on top of the other:      *)
(* types; what the log context and the phases are at each place of a         *)
(* request; and why a registration is where it is.               *)
(***************************************************************************)
EXTENDS HttpApi, TLAPS

Context == [id : Ids \cup {NoId}, scope : Scopes \cup {NoScope}, doc : BOOLEAN]

Types ==
    /\ TypeOK
    /\ before \in [Workers -> Context]
    /\ DOMAIN answer = Workers /\ DOMAIN lines = Workers
    /\ DOMAIN meddled = Workers

\* What the context of a request is before a view binds it.
Fresh(r) == IF Identified(r) THEN [Unset EXCEPT !.id = r.id] ELSE Unset

\* What it is on the way back.
Kept(w) ==
    LET r == req[w] IN
      /\ ctx[w].id = IF Identified(r) THEN r.id ELSE NoId
      /\ ctx[w].scope \in {NoScope, r.scope}
      /\ ctx[w].doc => r.kind \in {"upload", "delete"}
      /\ Served(r) => (ctx[w].scope = NoScope <=> r.input = "bad_slug")
      /\ r.kind = "slashless" => ctx[w].scope = NoScope
      /\ ~Identified(r) => ctx[w] = Unset

Bound(w) ==
    /\ Served(req[w]) /\ req[w].input = "good"
    /\ ctx[w] = [id |-> req[w].id, scope |-> req[w].scope, doc |-> req[w].kind # "search"]

Trace(w) ==
    /\ at[w] \in {"idle", "outer"} => ctx[w] = Unset
    /\ at[w] \notin {"idle", "outer"} => before[w] = Unset
    /\ at[w] \in {"inner", "view"} => ctx[w] = Fresh(req[w])
    /\ at[w] \in {"register", "work"} => Bound(w)
    /\ at[w] = "leave" => Kept(w)
    /\ (at[w] \in {"common", "exit"} /\ ~Identified(req[w])) => ctx[w] = Unset
    /\ (at[w] \in {"view", "register", "work", "leave"} /\ Served(req[w])) =>
          phases[w] \subseteq {req[w].id}
    /\ (at[w] \in {"view", "leave"} /\ req[w].kind = "slashless") => phases[w] = {}

Traces == \A w \in Workers : Trace(w)

\* Another bot has the name.
Clash(w) == \E b \in bots : b.scope # target[w] /\ b.name = CollectionName(target[w])

Reasons(w) ==
    /\ (step[w] \in {"get", "add", "find", "last"} /\ table[w] = "bot") =>
          target[w].tenant \in tenants \/ meddled[w]
    /\ step[w] \in {"find", "last"} => Present(w) \/ meddled[w] \/ Clash(w)
    /\ step[w] = "failed" => meddled[w] \/ Clash(w)
    /\ step[w] = "done" => BotRows(target[w]) # {} \/ meddled[w]

Registrations == \A w \in Workers : Reasons(w)

-----------------------------------------------------------------------------
\* Types.

LEMMA RegistryTypes ==
    ASSUME Types, NEW w \in Workers,
           Registering(w) \/ (\E scope \in Scopes : Register(w, scope)) \/ Forget(w) \/ Operator
    PROVE  /\ tenants' \subseteq Slugs
           /\ \A b \in bots' : b.scope \in Scopes
           /\ target' \in [Workers -> Scopes \cup {NoScope}]
           /\ table' \in [Workers -> {"tenant", "bot"}]
           /\ step' \in [Workers -> {"none", "get", "add", "find", "last", "done", "failed"}]
           /\ DOMAIN meddled' = Workers
<1> USE DEF Types, TypeOK, RegistryTypeOK
<1>1. CASE Registering(w)
  <2>1. CASE Get(w)
    BY <2>1 DEF Get, Advance
  <2>2. CASE Add(w)
    <3>1. target[w] \in Scopes
      BY <2>2, NullAssumption DEF Add
    <3>2. \A b \in bots' : b.scope \in Scopes
      BY <2>2, <3>1 DEF Add, BotRow
    <3>3. tenants' \subseteq Slugs
      BY <2>2, <3>1 DEF Add, Scopes
    <3> QED
      BY <2>2, <3>2, <3>3 DEF Add, Advance
  <2>3. CASE Find(w)
    BY <2>3 DEF Find, Advance
  <2>4. CASE Last(w)
    BY <2>4 DEF Last, Advance
  <2> QED
    BY <1>1, <2>1, <2>2, <2>3, <2>4 DEF Registering
<1>2. CASE \E scope \in Scopes : Register(w, scope)
  BY <1>2 DEF Register
<1>3. CASE Forget(w)
  BY <1>3 DEF Forget
<1>4. CASE Operator
  <2>1. tenants' \subseteq Slugs
    BY <1>4 DEF Operator, DropTenant, AddTenant, DropBot, AddBot, RenameBot
  <2>2. \A b \in bots' : b.scope \in Scopes
    BY <1>4 DEF Operator, DropTenant, AddTenant, DropBot, AddBot, RenameBot, BotRow
  <2> QED
    BY <1>4, <2>1, <2>2 DEF Operator, DropTenant, AddTenant, DropBot, AddBot, RenameBot, Meddle
<1> QED
  BY <1>1, <1>2, <1>3, <1>4

LEMMA TypesStep == Types /\ [Next]_vars => Types'
<1> SUFFICES ASSUME Types, [Next]_vars PROVE Types'
  OBVIOUS
<1> USE DEF Types, TypeOK, RegistryTypeOK
<1>1. ASSUME NEW w \in Workers, NEW r \in Requests, Begin(w, r) PROVE Types'
  BY <1>1, NullAssumption DEF Begin, registry, registration
<1>2. ASSUME NEW w \in Workers, RequestIdIn(w) PROVE Types'
  <2>1. req[w] \in Requests
    BY <1>2 DEF RequestIdIn
  <2>2. req[w].id \in Ids
    BY <2>1, RequestAssumption
  <2>3. ctx[w] \in Context /\ Unset \in Context /\ [Unset EXCEPT !.id = req[w].id] \in Context
    BY <2>2 DEF Context, Unset
  <2> QED
    BY <1>2, <2>1, <2>3 DEF RequestIdIn, registry, registration, Context
<1>3. ASSUME NEW w \in Workers, Refuse(w) PROVE Types'
  BY <1>3 DEF Refuse, registry, registration
<1>4. ASSUME NEW w \in Workers, AccessLogIn(w) PROVE Types'
  BY <1>4 DEF AccessLogIn, registry, registration
<1>5. ASSUME NEW w \in Workers, Leave(w) PROVE Types'
  BY <1>5 DEF Leave, registry, registration
<1>19. ASSUME NEW w \in Workers, Common(w) PROVE Types'
  BY <1>19 DEF Common, registry, registration
<1>20. ASSUME NEW w \in Workers, Unresolved(w) PROVE Types'
  BY <1>20 DEF Unresolved, Answer, registry, registration
<1>6. ASSUME NEW w \in Workers, Exit(w) PROVE Types'
  <2>1. ctx' \in [Workers -> Context] /\ before' \in [Workers -> Context]
    BY <1>6 DEF Exit, Context, Unset
  <2> QED
    BY <1>6, <2>1, NullAssumption DEF Exit, registry, registration, Context
<1>7. ASSUME NEW w \in Workers, PlainView(w) PROVE Types'
  BY <1>7 DEF PlainView, Answer, registry, registration
<1>8. ASSUME NEW w \in Workers, RejectSlug(w) PROVE Types'
  BY <1>8 DEF RejectSlug, Answer, registry, registration
<1>9. ASSUME NEW w \in Workers, BindScope(w) \/ BindDocument(w), at[w] = "view"
      PROVE  ctx' \in [Workers -> Context]
  <2>1. req[w] \in Requests
    BY <1>9
  <2>2. req[w].scope \in Scopes
    BY <2>1, RequestAssumption
  <2>3. ctx[w] \in Context
    BY DEF Context
  <2>4. /\ \A c \in Context, s \in Scopes : [c EXCEPT !.scope = s] \in Context
        /\ \A c \in Context : [c EXCEPT !.doc = TRUE] \in Context
    BY DEF Context
  <2> DEFINE scoped == [ctx EXCEPT ![w].scope = req[w].scope]
  <2>5. scoped \in [Workers -> Context]
    BY <2>2, <2>3, <2>4 DEF Context
  <2>6. [scoped EXCEPT ![w].doc = TRUE] \in [Workers -> Context]
    <3> HIDE DEF scoped
    <3> QED
      BY <2>4, <2>5
  <2>7. ctx' = scoped \/ ctx' = [scoped EXCEPT ![w].doc = TRUE]
    BY <1>9 DEF BindScope, BindDocument
  <2> QED
    BY <2>5, <2>6, <2>7
<1>10. ASSUME NEW w \in Workers, RejectBody(w) PROVE Types'
  <2>1. BindScope(w) /\ at[w] = "view"
    BY <1>10, Zenon DEF RejectBody
  <2>2. ctx' \in [Workers -> Context]
    BY <1>9, <2>1
  <2>3. at' = [at EXCEPT ![w] = "leave"] /\ DOMAIN answer' = Workers
    BY <1>10 DEF RejectBody, Answer
  <2>4. UNCHANGED <<req, before, phases, lines, tenants, bots, target, table, step, meddled>>
    BY <1>10 DEF RejectBody, registry, registration
  <2> QED
    BY <2>1, <2>2, <2>3, <2>4 DEF Context
<1>11. ASSUME NEW w \in Workers, NoLock(w) PROVE Types'
  <2>0. BindDocument(w) /\ at[w] = "view"
    BY <1>11, Zenon DEF NoLock
  <2>1. ctx' \in [Workers -> Context]
    BY <1>9, <2>0
  <2>2. at' = [at EXCEPT ![w] = "leave"] /\ DOMAIN answer' = Workers
    BY <1>11 DEF NoLock, Answer
  <2>3. at[w] = "view" /\ UNCHANGED <<req, before, phases, lines>>
    BY <1>11 DEF NoLock
  <2>4. UNCHANGED <<tenants, bots, target, table, step, meddled>>
    BY <1>11 DEF NoLock, registry, registration
  <2> QED
    BY <2>1, <2>2, <2>3, <2>4 DEF Context
<1>12. ASSUME NEW w \in Workers, CallPipeline(w) PROVE Types'
  <2>0. (BindScope(w) \/ BindDocument(w)) /\ at[w] = "view"
    BY <1>12, Zenon DEF CallPipeline
  <2>1. ctx' \in [Workers -> Context]
    BY <1>9, <2>0
  <2>2. req[w] \in Requests /\ req[w].scope \in Scopes /\ at[w] = "view"
    BY <1>12, RequestAssumption DEF CallPipeline
  <2>3. UNCHANGED <<req, before, phases, answer, lines>>
    BY <1>12 DEF CallPipeline
  <2>4. CASE at' = [at EXCEPT ![w] = "work"] /\ UNCHANGED registry
    <3>1. UNCHANGED <<tenants, bots, target, table, step, meddled>>
      BY <2>4 DEF registry, registration
    <3> QED
      BY <2>1, <2>2, <2>3, <2>4, <3>1, NullAssumption DEF Context
  <2>5. CASE /\ req[w].kind = "upload" /\ at' = [at EXCEPT ![w] = "register"]
             /\ Register(w, req[w].scope)
    <3>1. RegistryTypeOK' /\ DOMAIN meddled' = Workers
      <4>1. /\ tenants' \subseteq Slugs /\ \A b \in bots' : b.scope \in Scopes
            /\ target' \in [Workers -> Scopes \cup {NoScope}]
            /\ table' \in [Workers -> {"tenant", "bot"}]
            /\ step' \in [Workers -> {"none", "get", "add", "find", "last", "done", "failed"}]
            /\ DOMAIN meddled' = Workers
        BY <2>2, <2>5, RegistryTypes
      <4>2. \A v \in Workers : step'[v] # "none" => target'[v] # NoScope
        BY <2>2, <2>5, NullAssumption DEF Register
      <4> QED
        BY <4>1, <4>2
    <3>2. \A v \in Workers : v # w => step'[v] = step[v] /\ at'[v] = at[v]
      BY <2>5 DEF Register
    <3>3. at' \in [Workers -> {"idle", "outer", "inner", "view", "register", "work",
                              "leave", "common", "exit"}] /\ at'[w] = "register"
      BY <2>5
    <3>4. \A v \in Workers :
             /\ at'[v] = "idle" <=> req'[v] = NoRequest
             /\ step'[v] # "none" => at'[v] \in {"register", "work"} /\ req'[v].kind = "upload"
      BY <2>2, <2>3, <2>5, <3>2, <3>3, NullAssumption
    <3> QED
      BY <2>1, <2>3, <3>1, <3>3, <3>4 DEF Context
  <2> QED
    BY <1>12, <2>4, <2>5 DEF CallPipeline
<1>13. ASSUME NEW w \in Workers, Registered(w) PROVE Types'
  <2>1. CASE Answer(w, 500) /\ Forget(w)
    BY <1>13, <2>1 DEF Registered, Answer, Forget
  <2>2. CASE at' = [at EXCEPT ![w] = "work"] /\ UNCHANGED <<registry, answer>>
    BY <1>13, <2>2 DEF Registered, registry, registration
  <2> QED
    BY <1>13, <2>1, <2>2 DEF Registered
<1>14. ASSUME NEW w \in Workers, Work(w) PROVE Types'
  <2>1. req[w] \in Requests /\ req[w].id \in Ids
    BY <1>14, RequestAssumption DEF Work
  <2> QED
    BY <1>14, <2>1 DEF Work, Answer, Forget
<1>15. ASSUME NEW w \in Workers, Abort(w) PROVE Types'
  <2>1. Unset \in Context
    BY DEF Unset, Context
  <2> QED
    BY <1>15, <2>1, NullAssumption DEF Abort, Forget, Context
<1>16. ASSUME NEW w \in Workers, at[w] = "register", Registering(w), UNCHANGED web PROVE Types'
  <2>1. \A v \in Workers : step'[v] # "none" => step[v] # "none" /\ target'[v] = target[v]
    BY <1>16 DEF Registering, Get, Add, Find, Last, Advance
  <2> QED
    BY <1>16, <2>1, RegistryTypes DEF web
<1>17. ASSUME Operator, UNCHANGED web PROVE Types'
  <2>1. UNCHANGED <<target, table, step>> /\ DOMAIN meddled' = Workers
    BY <1>17 DEF Operator, DropTenant, AddTenant, DropBot, AddBot, RenameBot, Meddle
  <2>2. tenants' \subseteq Slugs
    BY <1>17 DEF Operator, DropTenant, AddTenant, DropBot, AddBot, RenameBot
  <2>3. \A b \in bots' : b.scope \in Scopes
    BY <1>17 DEF Operator, DropTenant, AddTenant, DropBot, AddBot, RenameBot, BotRow
  <2> QED
    BY <1>17, <2>1, <2>2, <2>3 DEF web
<1>18. ASSUME UNCHANGED vars PROVE Types'
  BY <1>18 DEF vars, web, registry, registration
<1> QED
  BY <1>1, <1>2, <1>3, <1>4, <1>5, <1>6, <1>7, <1>8, <1>10, <1>11, <1>12, <1>13,
     <1>14, <1>15, <1>16, <1>17, <1>18, <1>19, <1>20 DEF Next, Serve

LEMMA TypesInit == Init => Types
<1> SUFFICES ASSUME Init PROVE Types
  OBVIOUS
<1>1. Unset \in Context
  BY DEF Unset, Context
<1> QED
  BY <1>1 DEF Init, RegistryInit, Types, TypeOK, RegistryTypeOK, Context

-----------------------------------------------------------------------------
\* Contexts and phases.

\* What one request has.
Own(w) == <<at[w], req[w], ctx[w], before[w], phases[w]>>

LEMMA TraceFrame ==
    ASSUME NEW w \in Workers, Trace(w), Own(w)' = Own(w)
    PROVE  Trace(w)'
BY DEF Own, Trace, Bound, Kept, Fresh

\* A worker touches only what is its request's.
LEMMA OthersKept ==
    ASSUME Types, NEW w \in Workers, NEW v \in Workers \ {w},
           Serve(w) \/ Abort(w) \/ (\E r \in Requests : Begin(w, r))
    PROVE  Own(v)' = Own(v)
<1> USE DEF Own, Types, TypeOK
<1>1. CASE \E r \in Requests : Begin(w, r)
  BY <1>1 DEF Begin
<1>2. CASE Abort(w)
  BY <1>2 DEF Abort
<1>3. CASE RequestIdIn(w) \/ Refuse(w) \/ AccessLogIn(w) \/ Leave(w) \/ Common(w) \/ Exit(w)
  BY <1>3 DEF RequestIdIn, Refuse, AccessLogIn, Leave, Common, Exit
<1>4. CASE PlainView(w) \/ Unresolved(w) \/ RejectSlug(w)
  BY <1>4 DEF PlainView, Unresolved, RejectSlug, Answer
<1>5. CASE RejectBody(w) \/ NoLock(w)
  BY <1>5 DEF RejectBody, NoLock, Answer, BindScope, BindDocument
<1>6. CASE CallPipeline(w)
  BY <1>6 DEF CallPipeline, BindScope, BindDocument
<1>7. CASE Registered(w) \/ Work(w)
  BY <1>7 DEF Registered, Work, Answer
<1>8. CASE UNCHANGED web
  BY <1>8 DEF web
<1> QED
  BY <1>1, <1>2, <1>3, <1>4, <1>5, <1>6, <1>7, <1>8 DEF Serve

LEMMA OwnTrace ==
    ASSUME Types, NEW w \in Workers, Trace(w),
           Serve(w) \/ Abort(w) \/ (\E r \in Requests : Begin(w, r))
    PROVE  Trace(w)'
<1> USE DEF Types, TypeOK, Trace
<1>0. at[w] # "idle" => req[w] \in Requests /\ req[w].id \in Ids /\ req[w].scope \in Scopes /\ req[w].input \in Inputs
  BY RequestAssumption
<1>1. CASE \E r \in Requests : Begin(w, r)
  BY <1>1 DEF Begin
<1>2. CASE RequestIdIn(w)
  BY <1>0, <1>2, NullAssumption DEF RequestIdIn, Fresh, Identified, Served
<1>3. CASE Refuse(w)
  BY <1>0, <1>3, NullAssumption DEF Refuse, Fresh, Served, Identified, Unset
<1>4. CASE AccessLogIn(w)
  BY <1>0, <1>4, NullAssumption DEF AccessLogIn, Fresh, Logged, Served
<1>5. CASE Leave(w)
  BY <1>0, <1>5, NullAssumption DEF Leave, Kept
<1>16. CASE Common(w)
  BY <1>0, <1>16, NullAssumption DEF Common
<1>17. CASE Unresolved(w)
  BY <1>0, <1>17, NullAssumption DEF Unresolved, Answer, Fresh, Kept, Served, Identified, Unset
<1>6. CASE Exit(w)
  BY <1>0, <1>6, NullAssumption DEF Exit
<1>7. CASE PlainView(w)
  BY <1>0, <1>7, NullAssumption DEF PlainView, Answer, Fresh, Kept, Served, Identified, Unset
<1>8. CASE RejectSlug(w)
  BY <1>0, <1>8, NullAssumption DEF RejectSlug, Answer, Fresh, Kept, Served, Identified, Unset
<1>9. CASE RejectBody(w)
  BY <1>0, <1>9, NullAssumption DEF RejectBody, Answer, BindScope, BindDocument, Fresh, Kept, Served, Identified, Unset
<1>10. CASE NoLock(w)
  BY <1>0, <1>10, NullAssumption DEF NoLock, Answer, BindScope, BindDocument, Fresh, Kept, Served, Identified, Unset
<1>11. CASE CallPipeline(w)
  BY <1>0, <1>11, NullAssumption DEF CallPipeline, BindScope, BindDocument, Fresh, Bound, Served, Identified, Unset
<1>12. CASE Registered(w)
  BY <1>0, <1>12, NullAssumption DEF Registered, Answer, Kept, Bound, Served, Identified
<1>13. CASE Work(w)
  BY <1>0, <1>13, NullAssumption DEF Work, Answer, Kept, Bound, Served, Identified
<1>14. CASE Abort(w)
  BY <1>0, <1>14, NullAssumption DEF Abort
<1>15. CASE UNCHANGED web
  <2>1. Own(w)' = Own(w)
    BY <1>15 DEF web, Own
  <2> QED
    BY <2>1, TraceFrame
<1> QED
  BY <1>1, <1>2, <1>3, <1>4, <1>5, <1>6, <1>7, <1>8, <1>9, <1>10, <1>11, <1>12, <1>13, <1>14, <1>15,
     <1>16, <1>17 DEF Serve

LEMMA TracesStep == Types /\ Traces /\ [Next]_vars => Traces'
<1> SUFFICES ASSUME Types, Traces, [Next]_vars, NEW v \in Workers PROVE Trace(v)'
  BY DEF Traces
<1>1. Trace(v)
  BY DEF Traces
<1>2. ASSUME NEW w \in Workers, Serve(w) \/ Abort(w) \/ (\E r \in Requests : Begin(w, r))
      PROVE  Trace(v)'
  BY <1>1, <1>2, OwnTrace, OthersKept, TraceFrame
<1>3. CASE UNCHANGED web
  <2>1. Own(v)' = Own(v)
    BY <1>3 DEF web, Own
  <2> QED
    BY <1>1, <2>1, TraceFrame
<1> QED
  BY <1>2, <1>3 DEF Next, vars

LEMMA TracesInit == Init => Traces
BY DEF Init, Traces, Trace

-----------------------------------------------------------------------------
\* Registrations.

\* Rows that others add disturb none.
LEMMA ReasonsGrow ==
    ASSUME NEW v \in Workers, Reasons(v), tenants \subseteq tenants', bots \subseteq bots',
           target'[v] = target[v], table'[v] = table[v], step'[v] = step[v],
           meddled'[v] = meddled[v]
    PROVE  Reasons(v)'
<1>1. Clash(v) => Clash(v)'
  BY DEF Clash
<1>2. Present(v) => Present(v)'
  BY DEF Present, BotRows
<1> QED
  BY <1>1, <1>2 DEF Reasons, BotRows

\* What is not insertable is there, or clashes, or lost its tenant.
LEMMA WhyRefused ==
    ASSUME NEW w \in Workers, step[w] = "add", Reasons(w), ~Insertable(w)
    PROVE  Present(w) \/ meddled[w] \/ Clash(w)
BY DEF Reasons, Insertable, Present, BotRows, Clash

LEMMA OwnReasons ==
    ASSUME Types, NEW w \in Workers, Reasons(w), Registering(w)
    PROVE  Reasons(w)'
<1> USE DEF Types, TypeOK, RegistryTypeOK
<1>0. tenants \subseteq tenants' /\ bots \subseteq bots' /\ UNCHANGED <<target, meddled>>
  BY DEF Registering, Get, Add, Find, Last
<1>1. Clash(w) => Clash(w)'
  BY <1>0 DEF Clash
<1>2. BotRows(target[w])' = {b \in bots' : b.scope = target[w]} /\ target'[w] = target[w]
  BY <1>0 DEF BotRows
<1>4. ASSUME Advance(w), table[w] = "tenant", target[w].tenant \in tenants' PROVE Reasons(w)'
  BY <1>0, <1>4 DEF Advance, Reasons
<1>5. ASSUME Advance(w), table[w] = "bot", {b \in bots' : b.scope = target[w]} # {}
      PROVE  Reasons(w)'
  BY <1>0, <1>2, <1>5 DEF Advance, Reasons
<1>6. ASSUME Present(w), Advance(w), UNCHANGED <<tenants, bots>> PROVE Reasons(w)'
  BY <1>4, <1>5, <1>6 DEF Present, BotRows
<1>7. ASSUME UNCHANGED <<tenants, bots, table>> PROVE Present(w)' <=> Present(w)
  BY <1>0, <1>7 DEF Present, BotRows
<1>8. CASE Get(w)
  <2>1. CASE ~Present(w) /\ step' = [step EXCEPT ![w] = "add"] /\ UNCHANGED table
    BY <1>0, <1>8, <2>1 DEF Get, Reasons
  <2> QED
    BY <1>6, <1>8, <2>1 DEF Get
<1>9. CASE Add(w)
  <2>1. CASE Insertable(w) /\ table[w] = "tenant"
    BY <1>4, <1>9, <2>1 DEF Add
  <2>2. CASE Insertable(w) /\ table[w] = "bot"
    <3>1. BotRow(target[w]) \in bots' /\ BotRow(target[w]).scope = target[w] /\ Advance(w)
      BY <1>9, <2>2 DEF Add, BotRow
    <3> QED
      BY <1>5, <2>2, <3>1
  <2>3. CASE ~Insertable(w)
    <3>1. step'[w] = "find" /\ UNCHANGED <<tenants, bots, table>>
      BY <1>9, <2>3 DEF Add
    <3>2. Present(w) \/ meddled[w] \/ Clash(w)
      BY <1>9, <2>3, WhyRefused DEF Add
    <3>3. table[w] = "bot" => target[w].tenant \in tenants \/ meddled[w]
      BY <1>9 DEF Add, Reasons
    <3> QED
      BY <1>0, <1>1, <1>7, <3>1, <3>2, <3>3 DEF Reasons
  <2> QED
    BY <1>9, <2>1, <2>2, <2>3 DEF Add
<1>10. CASE Find(w)
  <2>1. CASE ~Present(w) /\ step' = [step EXCEPT ![w] = "last"] /\ UNCHANGED table
    BY <1>0, <1>1, <1>10, <2>1 DEF Find, Reasons
  <2> QED
    BY <1>6, <1>10, <2>1 DEF Find
<1>11. CASE Last(w)
  <2>1. CASE ~Present(w) /\ step' = [step EXCEPT ![w] = "failed"] /\ UNCHANGED table
    BY <1>0, <1>1, <1>11, <2>1 DEF Last, Reasons
  <2> QED
    BY <1>6, <1>11, <2>1 DEF Last
<1> QED
  BY <1>8, <1>9, <1>10, <1>11 DEF Registering

LEMMA RegistrationsStep == Types /\ Registrations /\ [Next]_vars => Registrations'
<1> SUFFICES ASSUME Types, Registrations, [Next]_vars, NEW v \in Workers PROVE Reasons(v)'
  BY DEF Registrations
<1> USE DEF Types, TypeOK, RegistryTypeOK
<1>0. Reasons(v)
  BY DEF Registrations
<1>1. CASE UNCHANGED registry
  BY <1>0, <1>1, ReasonsGrow DEF registry, registration
<1>2. ASSUME NEW w \in Workers, Registering(w) PROVE Reasons(v)'
  <2>1. tenants \subseteq tenants' /\ bots \subseteq bots' /\ UNCHANGED <<target, meddled>>
    BY <1>2 DEF Registering, Get, Add, Find, Last
  <2>2. v # w => table'[v] = table[v] /\ step'[v] = step[v]
    BY <1>2 DEF Registering, Get, Add, Find, Last, Advance
  <2> QED
    BY <1>0, <1>2, <2>1, <2>2, ReasonsGrow, OwnReasons
<1>3. ASSUME NEW w \in Workers, Forget(w) \/ (\E scope \in Scopes : Register(w, scope))
      PROVE  Reasons(v)'
  <2>1. CASE v = w
    BY <1>3, <2>1 DEF Forget, Register, Reasons
  <2>2. CASE v # w
    BY <1>0, <1>3, <2>2, ReasonsGrow DEF Forget, Register
  <2> QED
    BY <2>1, <2>2
<1>4. CASE Operator
  <2>1. UNCHANGED step /\ (step[v] # "none" => meddled'[v])
    BY <1>4 DEF Operator, DropTenant, AddTenant, DropBot, AddBot, RenameBot, Meddle
  <2> QED
    BY <2>1 DEF Reasons
<1>5. ASSUME NEW w \in Workers, Serve(w) \/ Abort(w) PROVE Reasons(v)'
  <2>1. CASE RequestIdIn(w) \/ Refuse(w) \/ AccessLogIn(w) \/ Leave(w) \/ Common(w) \/ Exit(w)
    BY <1>1, <2>1 DEF RequestIdIn, Refuse, AccessLogIn, Leave, Common, Exit
  <2>2. CASE PlainView(w) \/ Unresolved(w) \/ RejectSlug(w) \/ RejectBody(w) \/ NoLock(w)
    BY <1>1, <2>2 DEF PlainView, Unresolved, RejectSlug, RejectBody, NoLock
  <2>3. CASE CallPipeline(w)
    <3>1. req[w].scope \in Scopes
      BY <2>3, RequestAssumption DEF CallPipeline
    <3> QED
      BY <1>1, <1>3, <2>3, <3>1 DEF CallPipeline
  <2>4. CASE Registered(w) \/ Work(w) \/ Abort(w)
    BY <1>1, <1>3, <2>4 DEF Registered, Work, Abort
  <2> QED
    BY <1>2, <1>5, <2>1, <2>2, <2>3, <2>4 DEF Serve
<1> QED
  BY <1>1, <1>4, <1>5 DEF Next, vars, Begin

LEMMA ApartStep == Types /\ BotsApart /\ [Next]_vars => BotsApart'
<1> SUFFICES ASSUME Types, BotsApart, [Next]_vars PROVE BotsApart'
  OBVIOUS
<1> USE DEF BotsApart
<1>1. CASE UNCHANGED <<tenants, bots>>
  BY <1>1
<1>2. ASSUME NEW w \in Workers, Add(w) PROVE BotsApart'
  <2>1. CASE Insertable(w) /\ table[w] = "tenant"
    BY <1>2, <2>1 DEF Add
  <2>2. CASE Insertable(w) /\ table[w] = "bot"
    BY <1>2, <2>2 DEF Add, Insertable, BotRow
  <2>3. CASE ~Insertable(w)
    BY <1>1, <1>2, <2>3 DEF Add
  <2> QED
    BY <1>2, <2>1, <2>2, <2>3 DEF Add
<1>3. CASE Operator
  <2>1. ASSUME NEW t \in Slugs, DropTenant(t) \/ AddTenant(t) PROVE BotsApart'
    BY <2>1 DEF DropTenant, AddTenant
  <2>2. ASSUME NEW scope \in Scopes, AddBot(scope) PROVE BotsApart'
    BY <2>2 DEF AddBot, BotRow
  <2>3. ASSUME NEW b \in bots, DropBot(b) PROVE BotsApart'
    BY <2>3 DEF DropBot
  <2>4. ASSUME NEW b \in bots, NEW scope \in Scopes, RenameBot(b, scope) PROVE BotsApart'
    BY <2>4 DEF RenameBot, BotRow
  <2> QED
    BY <1>3, <2>1, <2>2, <2>3, <2>4 DEF Operator
<1>4. ASSUME NEW w \in Workers, Get(w) \/ Find(w) \/ Last(w) \/ Forget(w)
                                \/ (\E scope \in Scopes : Register(w, scope))
      PROVE  BotsApart'
  BY <1>1, <1>4 DEF Get, Find, Last, Forget, Register
<1>5. ASSUME NEW w \in Workers, Serve(w) \/ Abort(w) PROVE BotsApart'
  <2>1. CASE \/ RequestIdIn(w) \/ Refuse(w) \/ AccessLogIn(w) \/ Leave(w) \/ Common(w) \/ Exit(w)
              \/ PlainView(w) \/ Unresolved(w) \/ RejectSlug(w) \/ RejectBody(w) \/ NoLock(w)
    <3>1. UNCHANGED registry
      BY <2>1, Zenon DEF RequestIdIn, Refuse, AccessLogIn, Leave, Common, Exit, PlainView,
                         Unresolved, RejectSlug, RejectBody, NoLock
    <3> QED
      BY <1>1, <3>1 DEF registry
  <2>2. CASE CallPipeline(w)
    BY <1>1, <2>2 DEF CallPipeline, Register, registry
  <2>3. CASE Registered(w)
    BY <1>1, <2>3 DEF Registered, Forget, registry
  <2>4. CASE Work(w) \/ Abort(w)
    BY <1>1, <2>4 DEF Work, Abort, Forget
  <2> QED
    BY <1>2, <1>4, <1>5, <2>1, <2>2, <2>3, <2>4 DEF Serve, Registering
<1> QED
  BY <1>1, <1>3, <1>5 DEF Next, Begin, vars, registry

-----------------------------------------------------------------------------
\* Theorems.

\* Every variable keeps to its values; a worker registers a bot only while its
\* upload does.
THEOREM TypeCorrect == Spec => []TypeOK
<1>1. Types => TypeOK
  BY DEF Types
<1> QED
  BY <1>1, TypesInit, TypesStep, PTL DEF Spec

\* The log lines of a request (ContextFilter, AccessLogMiddleware) name that
\* request, its tenant, bot and document, and no phase of another.
THEOREM ContextOwn == Spec => []LinesAreOwn
<1>1. Types /\ Traces => LinesAreOwn
  <2> SUFFICES ASSUME Types, Traces, NEW w \in Workers,
                      at[w] \in {"view", "register", "work", "leave"}
               PROVE  /\ ctx[w].id = IF Identified(req[w]) THEN req[w].id ELSE NoId
                      /\ ctx[w].scope \in {NoScope, req[w].scope}
                      /\ ctx[w].doc => req[w].kind \in {"upload", "delete"}
                      /\ (at[w] = "leave" /\ Served(req[w])) =>
                            /\ ctx[w].scope = NoScope <=> req[w].input = "bad_slug"
                            /\ phases[w] \subseteq {req[w].id}
                      /\ (at[w] = "leave" /\ req[w].kind = "slashless") =>
                            ctx[w].scope = NoScope /\ phases[w] = {}
    BY DEF LinesAreOwn
  <2>1. Trace(w) /\ req[w] \in Requests
    BY DEF Traces, Types, TypeOK
  <2>2. CASE at[w] = "view"
    BY <2>1, <2>2 DEF Trace, Fresh, Unset, Identified
  <2>3. CASE at[w] \in {"register", "work"}
    <3>1. /\ Served(req[w])
          /\ ctx[w] = [id |-> req[w].id, scope |-> req[w].scope,
                       doc |-> req[w].kind # "search"]
      BY <2>1, <2>3 DEF Trace, Bound
    <3>2. ctx[w].id = req[w].id /\ ctx[w].scope = req[w].scope
      BY <3>1
    <3>3. ctx[w].doc => req[w].kind # "search"
      <4> DEFINE d == req[w].kind # "search"
      <4>1. ctx[w].doc = d
        BY <3>1
      <4> QED
        BY <4>1
    <3> QED
      BY <2>3, <3>1, <3>2, <3>3 DEF Served, Identified
  <2>4. CASE at[w] = "leave"
    BY <2>1, <2>4 DEF Trace, Kept
  <2> QED
    BY <2>2, <2>3, <2>4
<1> QED
  BY <1>1, TypesInit, TypesStep, TracesInit, TracesStep, PTL DEF Spec

\* No two bots get one Qdrant collection (Bot.save and the unique keys), however
\* uploads and the operator's edits interleave.
THEOREM CollectionsApart == Spec => []BotsApart
<1>1. Init => BotsApart
  BY DEF Init, RegistryInit, BotsApart
<1> QED
  BY <1>1, TypesInit, TypesStep, ApartStep, PTL DEF Spec

LEMMA RegistrationsAlways == Spec => []Registrations
<1>1. Init => Registrations
  BY DEF Init, RegistryInit, Registrations, Reasons
<1> QED
  BY <1>1, TypesInit, TypesStep, RegistrationsStep, PTL DEF Spec

\* get_or_create fails no upload for the sake of another that registers the bot.
THEOREM RacesHarmless == Spec => []RaceHarmless
<1>1. Registrations => RaceHarmless
  BY DEF Registrations, Reasons, Clash, RaceHarmless
<1> QED
  BY <1>1, RegistrationsAlways, PTL

\* An upload goes past its registration only with the row of its bot.
THEOREM RegisteredGoOn == Spec => []GoesOnRegistered
<1>1. Registrations => GoesOnRegistered
  BY DEF Registrations, Reasons, GoesOnRegistered
<1> QED
  BY <1>1, RegistrationsAlways, PTL

=============================================================================
