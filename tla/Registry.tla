------------------------------- MODULE Registry -------------------------------
(***************************************************************************)
(* Tenants and bots (apps/tenants/models.py), as uploads register them       *)
(* (get_or_create in apps/ingestion/pipeline.py) beside each other and       *)
(* beside an operator in the Django admin.  A bot's collection name is made  *)
(* of its two slugs (qdrant_core/naming.py).                                *)
(*                                                                         *)
(* A slug is the sequence of words that "__b_" separates in it, so that the  *)
(* name t_<tenant>__b_<bot> is the words of both slugs in a row.            *)
(***************************************************************************)
EXTENDS Naturals, Sequences

CONSTANTS
    Workers,     \* gunicorn worker processes
    Slugs,       \* valid slugs
    NoScope

VARIABLES
    tenants,     \* the Tenant rows
    bots,        \* the Bot rows
    target,      \* the scope a worker registers
    table,       \* the table it is at
    step,        \* the statement it makes next
    meddled      \* history: did the operator change rows meanwhile?

registration == <<target, table, step, meddled>>
registry     == <<tenants, bots, registration>>

Scopes == [tenant : Slugs, bot : Slugs]

CollectionName(scope) == scope.tenant \o scope.bot

\* Bot.save sets the name whatever it was.
BotRow(scope) == [scope |-> scope, name |-> CollectionName(scope)]

RegistryTypeOK ==
    /\ tenants \subseteq Slugs
    /\ \A b \in bots : b.scope \in Scopes
    /\ target \in [Workers -> Scopes \cup {NoScope}]
    /\ table \in [Workers -> {"tenant", "bot"}]
    /\ step \in [Workers -> {"none", "get", "add", "find", "last", "done", "failed"}]
    /\ \A w \in Workers : step[w] # "none" => target[w] # NoScope

RegistryInit ==
    /\ tenants = {} /\ bots = {}
    /\ target = [w \in Workers |-> NoScope]
    /\ table = [w \in Workers |-> "tenant"]
    /\ step = [w \in Workers |-> "none"]
    /\ meddled = [w \in Workers |-> FALSE]

-----------------------------------------------------------------------------
\* The unique and foreign keys.

BotRows(scope) == {b \in bots : b.scope = scope}

Present(w) == IF table[w] = "tenant" THEN target[w].tenant \in tenants
                                     ELSE BotRows(target[w]) # {}

\* Two bots with one name are refused, and a bot without its tenant.
Insertable(w) ==
    /\ ~Present(w)
    /\ table[w] = "bot" =>
          /\ target[w].tenant \in tenants
          /\ \A b \in bots : b.name # CollectionName(target[w])

-----------------------------------------------------------------------------
\* Mistakes the code could have made.

\* No handler for a lost race.
Add_Raises(w) ==
    /\ step[w] = "add"
    /\ IF Insertable(w)
       THEN /\ IF table[w] = "tenant"
               THEN tenants' = tenants \cup {target[w].tenant} /\ UNCHANGED bots
               ELSE bots' = bots \cup {BotRow(target[w])} /\ UNCHANGED tenants
            /\ table' = [table EXCEPT ![w] = "bot"]
            /\ step' = [step EXCEPT ![w] = IF table[w] = "tenant" THEN "get" ELSE "done"]
       ELSE step' = [step EXCEPT ![w] = "failed"] /\ UNCHANGED <<tenants, bots, table>>
    /\ UNCHANGED <<target, meddled>>

\* Every conflict is taken for a lost race with the row that is wanted.
Add_Trusts(w) ==
    /\ step[w] = "add"
    /\ IF Insertable(w) /\ table[w] = "tenant"
       THEN tenants' = tenants \cup {target[w].tenant} ELSE UNCHANGED tenants
    /\ IF Insertable(w) /\ table[w] = "bot"
       THEN bots' = bots \cup {BotRow(target[w])} ELSE UNCHANGED bots
    /\ table' = [table EXCEPT ![w] = "bot"]
    /\ step' = [step EXCEPT ![w] = IF table[w] = "tenant" THEN "get" ELSE "done"]
    /\ UNCHANGED <<target, meddled>>

\* A row that is renamed keeps its name.
Rename_KeepsName(b, scope) ==
    /\ b \in bots /\ scope.tenant \in tenants /\ BotRows(scope) = {}
    /\ bots' = (bots \ {b}) \cup {[b EXCEPT !.scope = scope]}
    /\ meddled' = [w \in Workers |-> step[w] # "none"]
    /\ UNCHANGED <<tenants, target, table, step>>

-----------------------------------------------------------------------------
\* Django's get_or_create: get, else insert, after a conflict get again; and the
\* pipeline's own get when that finds nothing.

Register(w, scope) ==
    /\ target' = [target EXCEPT ![w] = scope]
    /\ table' = [table EXCEPT ![w] = "tenant"]
    /\ step' = [step EXCEPT ![w] = "get"]
    /\ meddled' = [meddled EXCEPT ![w] = FALSE]
    /\ UNCHANGED <<tenants, bots>>

\* The row of this table is there; on to the next.
Advance(w) ==
    /\ table' = [table EXCEPT ![w] = "bot"]
    /\ step' = [step EXCEPT ![w] = IF table[w] = "tenant" THEN "get" ELSE "done"]

Get(w) ==
    /\ step[w] = "get"
    /\ \/ Present(w) /\ Advance(w)
       \/ ~Present(w) /\ step' = [step EXCEPT ![w] = "add"] /\ UNCHANGED table
    /\ UNCHANGED <<tenants, bots, target, meddled>>

Add(w) ==
    /\ step[w] = "add"
    /\ \/ /\ Insertable(w) /\ table[w] = "tenant"
          /\ tenants' = tenants \cup {target[w].tenant}
          /\ Advance(w)
          /\ UNCHANGED bots
       \/ /\ Insertable(w) /\ table[w] = "bot"
          /\ bots' = bots \cup {BotRow(target[w])}
          /\ Advance(w)
          /\ UNCHANGED tenants
       \/ /\ ~Insertable(w)
          /\ step' = [step EXCEPT ![w] = "find"]
          /\ UNCHANGED <<tenants, bots, table>>
    /\ UNCHANGED <<target, meddled>>

Find(w) ==
    /\ step[w] = "find"
    /\ \/ Present(w) /\ Advance(w)
       \/ ~Present(w) /\ step' = [step EXCEPT ![w] = "last"] /\ UNCHANGED table
    /\ UNCHANGED <<tenants, bots, target, meddled>>

\* DoesNotExist is not an UploadError: 500.
Last(w) ==
    /\ step[w] = "last"
    /\ \/ Present(w) /\ Advance(w)
       \/ ~Present(w) /\ step' = [step EXCEPT ![w] = "failed"] /\ UNCHANGED table
    /\ UNCHANGED <<tenants, bots, target, meddled>>

Registering(w) == Get(w) \/ Add(w) \/ Find(w) \/ Last(w)

Forget(w) ==
    /\ target' = [target EXCEPT ![w] = NoScope]
    /\ table' = [table EXCEPT ![w] = "tenant"]
    /\ step' = [step EXCEPT ![w] = "none"]
    /\ meddled' = [meddled EXCEPT ![w] = FALSE]
    /\ UNCHANGED <<tenants, bots>>

-----------------------------------------------------------------------------
\* The operator.

Meddle ==
    /\ meddled' = [w \in Workers |-> step[w] # "none"]
    /\ UNCHANGED <<target, table, step>>

\* on_delete=CASCADE.
DropTenant(t) ==
    /\ t \in tenants
    /\ tenants' = tenants \ {t}
    /\ bots' = {b \in bots : b.scope.tenant # t}
    /\ Meddle

DropBot(b) ==
    /\ b \in bots
    /\ bots' = bots \ {b}
    /\ Meddle /\ UNCHANGED tenants

AddTenant(t) ==
    /\ tenants' = tenants \cup {t}
    /\ Meddle /\ UNCHANGED bots

AddBot(scope) ==
    /\ scope.tenant \in tenants
    /\ BotRows(scope) = {} /\ \A b \in bots : b.name # CollectionName(scope)
    /\ bots' = bots \cup {BotRow(scope)}
    /\ Meddle /\ UNCHANGED tenants

\* The admin form of a bot lets tenant and bot_id be changed.
RenameBot(b, scope) ==
    /\ b \in bots /\ scope.tenant \in tenants /\ BotRows(scope) = {}
    /\ \A other \in bots \ {b} : other.name # CollectionName(scope)
    /\ bots' = (bots \ {b}) \cup {BotRow(scope)}
    /\ Meddle /\ UNCHANGED tenants

Operator ==
    \/ \E t \in Slugs : DropTenant(t) \/ AddTenant(t)
    \/ \E scope \in Scopes : AddBot(scope)
    \/ \E b \in bots : DropBot(b) \/ \E scope \in Scopes : RenameBot(b, scope)

-----------------------------------------------------------------------------
\* Properties.

\* No two bots share a collection, for every bot row has the name its slugs
\* derive: the one under which the pipelines and search look for it.
BotsApart ==
    /\ \A b \in bots : b.name = CollectionName(b.scope) /\ b.scope.tenant \in tenants
    /\ \A a, b \in bots : a # b => a.name # b.name

\* Two uploads that register one bot at once both go on: a registration only
\* fails when the operator meddled with it, or another bot has its name.
RaceHarmless ==
    \A w \in Workers : step[w] = "failed" =>
        \/ meddled[w]
        \/ \E b \in bots : b.scope # target[w] /\ b.name = CollectionName(target[w])

\* An upload goes on only with the row of its bot, to which its document row
\* will refer.
GoesOnRegistered ==
    \A w \in Workers : step[w] = "done" => BotRows(target[w]) # {} \/ meddled[w]

=============================================================================
