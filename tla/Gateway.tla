------------------------------- MODULE Gateway -------------------------------
(***************************************************************************)
(* A request to the API from its arrival to its line in api_request_logs:  *)
(* the key's look-up and its rate limit (auth/apiKey.ts), the scope check  *)
(* of the route, the exposed objects of the organization's configuration   *)
(* (server.ts, mappings.ts) and the onResponse hook; and the MCP endpoint, *)
(* which has a gate of its own (mcp.ts).  Admins edit client rows and the  *)
(* configuration meanwhile.  What a route does behind its scope check is   *)
(* in EdiIntake, Staging and Ingest.                                       *)
(***************************************************************************)
EXTENDS RateLimiter, OrgConfig

CONSTANTS
  Handlers,     (* requests served at the same time                        *)
  Scopes,
  ObjectsPart,  (* exposed_objects, a part of the configuration            *)
  Exposed,      (* what each value of it declares for the key requests use *)
  MaxRequests,  (* bound: requests                                         *)
  MaxPatches    (* bound: edits of client rows                             *)

Unknown == "unknown"    \* a request without a key of api_clients
Nobody == "nobody"      \* a log line without a client

\* A dynamic object: the scope that reads it, the one that writes it; none:
\* read-only.
Object == [scope : Scopes, writes : {{s} : s \in Scopes} \cup {{}}]

ASSUME GatewayAssumption ==
  /\ ObjectsPart \in Settings
  /\ Exposed \in [0..MaxSaves -> {{o} : o \in Object} \cup {{}}] /\ Exposed[0] = {}
  /\ Nobody \notin Clients /\ Unknown \notin Clients
  /\ MaxRequests \in Nat /\ MaxPatches \in Nat

VARIABLES
  clients,     \* api_clients
  pc, asked,   \* each handler's step and the request it serves
  row,         \* the client row it read, if any
  answer,      \* its answer
  logs,        \* api_request_logs: how many lines there are of each kind
  used,        \* clients whose last_used_at was bumped
  arrived, patches,
  due,         \* answers that are to be logged
  met,         \* what a request's client row and object were since it came
  tripped      \* a database call of the request failed

served == <<pc, asked, row, answer>>
ledger == <<logs, used, due>>
gateVars == <<clients, served, ledger, arrived, patches, tripped>>
allVars == <<vars, orgVars, gateVars, met>>

Limits == UNION {0..Ceiling[k] : k \in Clients}
\* expires: the first moment the key is no longer good.
ClientRow == [active : BOOLEAN, scopes : SUBSET Scopes, limit : Limits, expires : 1..(MaxTime + 1)]
\* Routes and tools that ask for a scope of their own, and /v1/objects/:key.
RestRoutes == [kind : {"rest"}, scope : Scopes]
McpTools == [kind : {"mcp"}, scope : Scopes]
ObjectRoutes == [kind : {"object"}, write : BOOLEAN]
Request == [key : Clients \cup {Unknown}, route : RestRoutes \cup McpTools \cup ObjectRoutes]
Statuses == {200, 401, 403, 404, 405, 429, 500}   \* 500: any failure behind the gate
Line == [client : Clients \cup {Nobody}, status : Statuses]

GateTypeOK ==
  /\ clients \in [Clients -> ClientRow] /\ \A c \in Clients : clients[c].limit <= Ceiling[c]
  /\ pc \in [Handlers -> {"idle", "lookup", "admit", "handle", "provider", "instance", "answered", "touch"}]
  /\ \A r \in Handlers : asked[r] \subseteq Request /\ row[r] \subseteq ClientRow
  /\ answer \in [Handlers -> {0} \cup Statuses]
  /\ logs \in [Line -> Nat] /\ due \in [Line -> Nat] /\ used \subseteq Clients
  /\ arrived \in 0..MaxRequests /\ patches \in 0..MaxPatches /\ tripped \subseteq Handlers

NoLines == [l \in Line |-> 0]

GateInit ==
  /\ Init /\ OrgInit
  /\ clients \in [Clients -> {x \in ClientRow : x.active}]
  /\ \A c \in Clients : clients[c].limit <= Ceiling[c]
  /\ pc = [r \in Handlers |-> "idle"] /\ asked = [r \in Handlers |-> {}]
  /\ row = [r \in Handlers |-> {}] /\ answer = [r \in Handlers |-> 0]
  /\ logs = NoLines /\ due = NoLines /\ used = {} /\ arrived = 0 /\ patches = 0
  /\ met = [r \in Handlers |-> {}] /\ tripped = {}

-----------------------------------------------------------------------------
(* The gate.                                                               *)

Key(r) == (CHOOSE q \in asked[r] : TRUE).key
Route(r) == (CHOOSE q \in asked[r] : TRUE).route
RowRead(r) == CHOOSE c \in row[r] : TRUE

\* active, and expires_at in the future.
Live(c) == c \in Clients /\ clients[c].active /\ now < clients[c].expires

\* Whom the answer is for: the client, once its row was read.
Caller(r) == IF pc[r] = "lookup" THEN Nobody ELSE Key(r)

\* Authenticated MCP calls are not logged: only the refusal sets apiLogged.
IsLogged(r, status) == Route(r).kind # "mcp" \/ status = 401

Answer(r, status) ==
  /\ pc' = [pc EXCEPT ![r] = "answered"]
  /\ answer' = [answer EXCEPT ![r] = status]
  /\ due' = IF IsLogged(r, status) THEN [due EXCEPT ![[client |-> Caller(r), status |-> status]] = @ + 1] ELSE due

Goto(r, step) ==
  /\ pc' = [pc EXCEPT ![r] = step]
  /\ UNCHANGED <<answer, due>>

Arrive(r, q) ==
  /\ pc[r] = "idle"
  /\ arrived < MaxRequests /\ arrived' = arrived + 1
  /\ asked' = [asked EXCEPT ![r] = {q}]
  /\ Goto(r, "lookup")
  /\ UNCHANGED <<vars, row, clients, logs, used, patches, tripped>>

\* The select on key_hash; the row is what the rest of the request goes by.
Lookup(r) ==
  /\ pc[r] = "lookup"
  /\ IF Live(Key(r))
       THEN /\ row' = [row EXCEPT ![r] = {clients[Key(r)]}]
            /\ Goto(r, IF Route(r).kind = "mcp" THEN "handle" ELSE "admit")
       ELSE /\ UNCHANGED row
            /\ Answer(r, 401)
  /\ UNCHANGED <<vars, asked, clients, logs, used, arrived, patches, tripped>>

\* The MCP endpoint does not read the error.
LookupErrs(r) ==
  /\ pc[r] = "lookup"
  /\ UNCHANGED row
  /\ Answer(r, IF Route(r).kind = "mcp" THEN 401 ELSE 500)
  /\ tripped' = tripped \cup {r}
  /\ UNCHANGED <<vars, asked, clients, logs, used, arrived, patches>>

Behind(r) == IF Route(r).kind = "object" THEN "provider" ELSE "handle"

\* Mutant: the limit is looked up for the key, the client forgotten on refusal.
AdmitAnonymous(r) ==
  /\ pc[r] = "admit" /\ asked' = asked
  /\ Allow({Key(r)}, [k \in {Key(r)} |-> RowRead(r).limit])
  /\ IF Admits(Key(r), RowRead(r).limit)
       THEN UNCHANGED row /\ Goto(r, Behind(r))
       ELSE row' = [row EXCEPT ![r] = {}] /\ Answer(r, 429)
  /\ UNCHANGED <<clients, logs, used, arrived, patches, tripped>>

Admit(r) ==
  /\ pc[r] = "admit"
  /\ Allow({Key(r)}, [k \in {Key(r)} |-> RowRead(r).limit])
  /\ UNCHANGED row
  /\ IF Admits(Key(r), RowRead(r).limit) THEN Goto(r, Behind(r)) ELSE Answer(r, 429)
  /\ UNCHANGED <<asked, clients, logs, used, arrived, patches, tripped>>

\* requireScope, in the route or in the resource it calls; what follows may
\* succeed or fail.
Handle(r) ==
  /\ pc[r] = "handle"
  /\ UNCHANGED row
  /\ IF Route(r).scope \notin RowRead(r).scopes THEN Answer(r, 403)
     ELSE \E status \in {200, 500} : Answer(r, status)
  /\ UNCHANGED <<vars, asked, clients, logs, used, arrived, patches, tripped>>

\* Mutant: a write is let in with the scope that reads.
NeededForReading(o, write) == {o.scope}

\* Mutant: a write needs the scope that reads, too.
NeededBoth(o, write) == IF write THEN o.writes \cup {o.scope} ELSE {o.scope}

Needed(o, write) == IF write THEN o.writes ELSE {o.scope}

\* The object the configuration declares: unknown, read-only, out of scope, or
\* served.
Decide(r, config) ==
  LET declared == Exposed[config[ObjectsPart]]
      object == CHOOSE o \in declared : TRUE
  IN IF declared = {} THEN Answer(r, 404)
     ELSE IF Route(r).write /\ object.writes = {} THEN Answer(r, 405)
     ELSE IF ~(Needed(object, Route(r).write) \subseteq RowRead(r).scopes) THEN Answer(r, 403)
     ELSE \E status \in {200, 500} : Answer(r, status)

\* getExposedObjects: the provider, then its row.
ReadProvider(r) ==
  /\ pc[r] = "provider"
  /\ UNCHANGED row
  /\ IF providers = 1 THEN Goto(r, "instance") ELSE Decide(r, Empty)
  /\ UNCHANGED <<vars, asked, clients, logs, used, arrived, patches, tripped>>

ReadInstance(r) ==
  /\ pc[r] = "instance"
  /\ UNCHANGED row
  /\ Decide(r, ShownBy(1))
  /\ UNCHANGED <<vars, asked, clients, logs, used, arrived, patches, tripped>>

\* Neither call's error is read: it looks like an empty configuration.
ConfigErrs(r) ==
  /\ pc[r] \in {"provider", "instance"}
  /\ UNCHANGED row
  /\ Decide(r, Empty)
  /\ tripped' = tripped \cup {r}
  /\ UNCHANGED <<vars, asked, clients, logs, used, arrived, patches>>

-----------------------------------------------------------------------------
(* The onResponse hook, after the answer is out.                           *)

LineOf(r) == [client |-> IF row[r] = {} THEN Nobody ELSE Key(r), status |-> answer[r]]

Leave(r) ==
  /\ pc' = [pc EXCEPT ![r] = "idle"] /\ asked' = [asked EXCEPT ![r] = {}]
  /\ row' = [row EXCEPT ![r] = {}] /\ answer' = [answer EXCEPT ![r] = 0]
  /\ tripped' = tripped \ {r}

\* Mutant: the last use is bumped for whatever key was sent.
LogTouchingAll(r) ==
  /\ pc[r] = "answered"
  /\ IF ~IsLogged(r, answer[r]) THEN Leave(r) /\ UNCHANGED logs
     ELSE /\ logs' = [logs EXCEPT ![LineOf(r)] = @ + 1]
          /\ pc' = [pc EXCEPT ![r] = "touch"] /\ UNCHANGED <<asked, row, answer, tripped>>
  /\ UNCHANGED <<vars, clients, used, due, arrived, patches>>

\* The insert, then the client's last use.
Log(r) ==
  /\ pc[r] = "answered"
  /\ IF ~IsLogged(r, answer[r]) THEN Leave(r) /\ UNCHANGED logs
     ELSE /\ logs' = [logs EXCEPT ![LineOf(r)] = @ + 1]
          /\ IF row[r] = {} THEN Leave(r)
             ELSE pc' = [pc EXCEPT ![r] = "touch"] /\ UNCHANGED <<asked, row, answer, tripped>>
  /\ UNCHANGED <<vars, clients, used, due, arrived, patches>>

\* The insert fails: an error in the process's log, and no more.
LogErrs(r) ==
  /\ pc[r] = "answered" /\ IsLogged(r, answer[r])
  /\ due' = [due EXCEPT ![LineOf(r)] = @ - 1]
  /\ IF row[r] = {} THEN Leave(r)
     ELSE pc' = [pc EXCEPT ![r] = "touch"] /\ UNCHANGED <<asked, row, answer, tripped>>
  /\ UNCHANGED <<vars, clients, used, logs, arrived, patches>>

Touch(r) ==
  /\ pc[r] = "touch"
  /\ used' = used \cup {Key(r)}
  /\ Leave(r)
  /\ UNCHANGED <<vars, clients, logs, due, arrived, patches>>

TouchErrs(r) ==
  /\ pc[r] = "touch"
  /\ Leave(r)
  /\ UNCHANGED <<vars, clients, used, logs, due, arrived, patches>>

-----------------------------------------------------------------------------
(* Admins, restarts.                                                       *)

\* PATCH /admin/api/clients/:id sets the columns it names.
PatchClient(c) ==
  /\ patches < MaxPatches /\ patches' = patches + 1
  /\ \/ \E on \in BOOLEAN : clients' = [clients EXCEPT ![c].active = on]
     \/ \E scopes \in SUBSET Scopes : clients' = [clients EXCEPT ![c].scopes = scopes]
     \/ \E n \in 0..Ceiling[c] : clients' = [clients EXCEPT ![c].limit = n]
     \/ \E t \in 1..(MaxTime + 1) : clients' = [clients EXCEPT ![c].expires = t]
  /\ UNCHANGED <<vars, served, ledger, arrived, tripped>>

\* The limiter's memory goes with the process, and the answers not yet logged.
RestartGate ==
  /\ Restart
  /\ hits' = [k \in Keys |-> {}] /\ granted' = [k \in Keys |-> {}] /\ refusal' = {}
  /\ pc' = [r \in Handlers |-> "idle"] /\ asked' = [r \in Handlers |-> {}]
  /\ row' = [r \in Handlers |-> {}] /\ answer' = [r \in Handlers |-> 0]
  /\ due' = logs /\ tripped' = {}
  /\ UNCHANGED <<now, calls, clients, logs, used, arrived, patches>>

Serve(r) ==
  \/ \E q \in Request : Arrive(r, q)
  \/ Lookup(r) \/ Admit(r) \/ Handle(r) \/ ReadProvider(r) \/ ReadInstance(r)
  \/ Log(r) \/ Touch(r)

Errs(r) == LookupErrs(r) \/ ConfigErrs(r) \/ LogErrs(r) \/ TouchErrs(r)

\* What decides about a request with key k at this moment.
Moment == [k \in Clients \cup {Unknown} |->
  [live |-> Live(k), scopes |-> IF k \in Clients THEN clients[k].scopes ELSE {},
   object |-> Exposed[Shown[ObjectsPart]]]]

\* Bookkeeping: the moments a request has met on its way to the answer.
Watch == met' = [r \in Handlers |->
  IF asked'[r] = {} THEN {}
  ELSE IF pc[r] \in {"answered", "touch"} THEN met[r]
  ELSE met[r] \cup {Moment'[q.key] : q \in asked'[r]}]

GateNext ==
  /\ \/ /\ \/ Prune \/ Tick \/ Done
           \/ \E c \in Clients : ApiRequest(c) \/ \E a \in Addresses : PortalRequest(c, a)
        /\ UNCHANGED <<orgVars, gateVars>>
     \/ /\ \/ \E a \in Actors : Find(a)
           \/ \E w \in Windows : Edit(w)
           \/ \E p \in Polls : Poll(p)
        /\ UNCHANGED <<vars, gateVars>>
     \/ RestartGate
     \/ (\E r \in Handlers : Serve(r)) /\ UNCHANGED orgVars
     \/ /\ \E r \in Handlers : Errs(r)
        /\ trips < MaxTrips /\ trips' = trips + 1
        /\ UNCHANGED <<tables, context, runs, call, form, saves, polls, trace, doubled, orphans>>
     \/ (\E c \in Clients : PatchClient(c)) /\ UNCHANGED orgVars
  /\ Watch

\* The timer fires, the clock runs; nobody has to send requests.
GateSpec == /\ GateInit /\ [][GateNext]_allVars
            /\ WF_allVars(Prune /\ UNCHANGED <<orgVars, gateVars>> /\ Watch)
            /\ WF_allVars(Tick /\ UNCHANGED <<orgVars, gateVars>> /\ Watch)

-----------------------------------------------------------------------------
(* Properties.                                                             *)

\* The scopes are the ones the route, or the object as declared, asks for.
Allowed(q, scopes, object) ==
  IF q.kind # "object" THEN q.scope \in scopes
  ELSE \E o \in object : IF q.write THEN o.writes # {} /\ o.writes \subseteq scopes ELSE o.scope \in scopes

\* What an object is goes by one configuration; a second provider, which
\* appears in the middle of a request, leaves it with a row that no later
\* request finds.
OneConfig(r) == Route(r).kind = "object" => providers <= 1

\* A request is served only if, between its arrival and its answer, its key
\* was good, its client had the scope and the object was declared so: a key
\* that was revoked or expired, and a scope or an object that was withdrawn,
\* before the request came do not let it in, whatever requests are under way.
AccessJustified ==
  \A r \in Handlers : pc[r] = "answered" /\ answer[r] = 200 /\ OneConfig(r) =>
    \E x, y \in met[r] : x.live /\ Allowed(Route(r), x.scopes, y.object)

\* And it is refused only for what was so in the same span, unless a database
\* call of it failed.
DenialJustified ==
  \A r \in Handlers \ tripped : pc[r] = "answered" /\ OneConfig(r) =>
    /\ answer[r] = 401 => \E x \in met[r] : ~x.live
    /\ answer[r] = 403 => \E x, y \in met[r] : ~Allowed(Route(r), x.scopes, y.object)
    /\ answer[r] = 404 => \E y \in met[r] : y.object = {}
    /\ answer[r] = 405 => \E y \in met[r] : \E o \in y.object : o.writes = {}

\* "every request logged": an answer of an API route, a refusal too, has its
\* line, with the client whose key it was and the status it got, exactly
\* once, but for failed inserts, restarts and requests still under way.
Logged ==
  \A l \in Line : due[l] = logs[l] +
    Cardinality({r \in Handlers : pc[r] = "answered" /\ IsLogged(r, answer[r]) /\ LineOf(r) = l})

\* The two ledgers an operator looks into, api_request_logs and
\* integration_runs, are true: every request has its line, every run its end.
LedgersTrue == Logged /\ RunsClosed

\* Types of the gate, of the limiter inside it and of the configuration it reads.
AllTypesOK == TypeOK /\ OrgTypeOK /\ GateTypeOK
=============================================================================
