------------------------------ MODULE OrgConfig ------------------------------
(***************************************************************************)
(* An organization's gateway configuration and the parent of its poll      *)
(* runs: one org_integrations row of the file_gateway provider.  Nobody    *)
(* creates it beforehand; the dashboard's routes (adminApi.ts,             *)
(* orgConfigRow) and the poller (files/runs.ts, ensureRunContext) look for *)
(* provider and row and insert what they miss, one round trip at a time.   *)
(* A dashboard window reads the configuration whole and writes it back     *)
(* whole.  Whether the hub's database keeps provider keys and rows unique  *)
(* is the hub's affair: both are possible.                                 *)
(***************************************************************************)
EXTENDS Integers, Sequences, FiniteSets

CONSTANTS
  Windows,      (* dashboard pages and modals that edit the configuration  *)
  Polls,        (* pollEndpoint calls for the organization's endpoints     *)
  Mappings,     (* edi_mappings: the partners' entries                     *)
  Settings,     (* stock_status_rules, exposed_objects                     *)
  MaxSaves,     (* bound: saves                                            *)
  MaxRows,      (* bound: provider rows, and rows of the organization      *)
  MaxRuns,      (* bound: polls                                            *)
  MaxTrips      (* bound: failed database calls and restarts               *)

Parts == Mappings \cup Settings
Actors == Windows \cup Polls

ASSUME OrgAssumption ==
  /\ Windows \cap Polls = {} /\ Mappings \cap Settings = {}
  /\ {"closed", "settings"} \cap Parts = {}
  /\ MaxSaves \in Nat /\ MaxRows \in Nat /\ MaxRuns \in Nat /\ MaxTrips \in Nat

VARIABLES
  unique,      \* the database refuses a second provider, a second row
  providers,   \* how many rows integration_providers has for the key
  instances,   \* the organization's rows in org_integrations
  context,     \* contextCache's entry
  runs,        \* integration_runs
  call,        \* what each window's request or poll is doing
  form,        \* what each window shows, and what it sends when saved
  saves, polls, trips,
  writes,      \* configurations written so far
  wanted,      \* the values a part may have after the last acknowledged save
  writtenAt,   \* the write that made it
  overtaken,   \* parts written over by a window that had not seen their save
  doubled,     \* two looked for a row together, or a failed look-up passed for none
  orphans      \* runs whose poll was cut off, or whose start or finish went wrong

tables == <<unique, providers, instances>>
counters == <<saves, polls, trips>>
trace == <<writes, wanted, writtenAt, overtaken>>
orgVars == <<tables, context, runs, call, form, counters, trace, doubled, orphans>>

\* A part's value is the save that set it; 0: not configured.
Config == [Parts -> 0..MaxSaves]
Empty == [p \in Parts |-> 0]
Ids == 0..MaxRows
Instance == [provider : Ids, config : Config]
RunStatus == {"running", "success", "failed"}
Calls == [at : {"idle", "provider", "addProvider", "instance", "addInstance", "write",
                "start", "ingest", "finish"},
          does : {"nothing", "load", "current", "put", "run"}, provider : Ids, row : Ids, run : 0..MaxRuns]
Idle == [at |-> "idle", does |-> "nothing", provider |-> 0, row |-> 0, run |-> 0]
\* edited: the parts changed since the last acknowledged save; base: the
\* writes the form has seen.
Forms == [of : {"closed", "settings"} \cup Mappings, shown : Config, edited : SUBSET Parts, base : Nat]

OrgTypeOK ==
  /\ unique \in BOOLEAN /\ providers \in Ids
  /\ instances \in Seq(Instance) /\ Len(instances) <= MaxRows
  /\ context \subseteq DOMAIN instances /\ Cardinality(context) <= 1
  /\ runs \in Seq(RunStatus) /\ Len(runs) <= MaxRuns
  /\ call \in [Actors -> Calls] /\ form \in [Windows -> Forms]
  /\ \A a \in Actors : call[a].provider <= providers /\ call[a].row <= Len(instances)
  /\ saves \in 0..MaxSaves /\ polls \in 0..MaxRuns /\ trips \in 0..MaxTrips
  /\ writes \in Nat /\ wanted \in [Parts -> SUBSET (0..MaxSaves)] /\ writtenAt \in [Parts -> 0..writes]
  /\ overtaken \subseteq Parts /\ doubled \in BOOLEAN /\ orphans \subseteq DOMAIN runs

Closed == [of |-> "closed", shown |-> Empty, edited |-> {}, base |-> 0]

OrgInit ==
  /\ unique \in BOOLEAN /\ providers = 0 /\ instances = <<>>
  /\ context = {} /\ runs = <<>>
  /\ call = [a \in Actors |-> Idle] /\ form = [w \in Windows |-> Closed]
  /\ saves = 0 /\ polls = 0 /\ trips = 0
  /\ writes = 0 /\ wanted = [p \in Parts |-> {0}] /\ writtenAt = [p \in Parts |-> 0]
  /\ overtaken = {} /\ doubled = FALSE /\ orphans = {}

-----------------------------------------------------------------------------
(* Finding the row, or creating it.                                        *)

RowsOf(p) == {i \in DOMAIN instances : instances[i].provider = p}

\* getGatewayOrgConfig: maybeSingle answers an error for two rows, and the
\* error reads like no row.  (mappings.ts looks in two calls; a provider
\* seen alone is number 1.)
ShownBy(p) == IF Cardinality(RowsOf(p)) = 1 THEN instances[CHOOSE i \in RowsOf(p) : TRUE].config ELSE Empty
Shown == IF providers = 1 THEN ShownBy(1) ELSE Empty

Begin(a, does) ==
  /\ call[a].at = "idle"
  /\ call' = [call EXCEPT ![a] = [Idle EXCEPT !.at = "provider", !.does = does]]

Step(a, at) == call' = [call EXCEPT ![a].at = at]

\* The request answers 500: a window that was to open does not, one that was
\* saving keeps what it shows.  A poll goes on without a run.
Fail(a) ==
  /\ call' = [call EXCEPT ![a] = IF a \in Windows THEN Idle ELSE [Idle EXCEPT !.at = "ingest", !.does = "run"]]
  /\ form' = IF call[a].does = "load" THEN [form EXCEPT ![a] = Closed] ELSE form
  /\ UNCHANGED context

\* The row is there; the configuration came with it.  A window that opens
\* shows it, Org Settings goes on to ask for the row it writes.
Ready(a, i, config) ==
  \/ /\ call[a].does = "load"
     /\ call' = [call EXCEPT ![a] = Idle]
     /\ form' = [form EXCEPT ![a].shown = config, ![a].base = writes]
     /\ UNCHANGED context
  \/ /\ call[a].does = "current"
     /\ call' = [call EXCEPT ![a] = [Idle EXCEPT !.at = "provider", !.does = "put"]]
     /\ UNCHANGED <<context, form>>
  \/ /\ call[a].does = "put"
     /\ call' = [call EXCEPT ![a].at = "write", ![a].row = i]
     /\ UNCHANGED <<context, form>>
  \/ /\ call[a].does = "run"
     /\ call' = [call EXCEPT ![a].at = "start", ![a].row = i]
     /\ context' = {i}
     /\ UNCHANGED form

\* Mutant: an existing provider is not looked at.
FindProviderAlways(a) ==
  /\ call[a].at = "provider" /\ Step(a, "addProvider")
  /\ UNCHANGED <<tables, context, form, runs, counters, trace, doubled, orphans>>

\* One row is used, two are an error.  A window's request ignores the error
\* of its look-up, its own or a lost one, and takes it for no row.
FindProvider(a) ==
  /\ call[a].at = "provider"
  /\ \/ /\ providers = 1
        /\ call' = [call EXCEPT ![a].at = "instance", ![a].provider = 1] /\ UNCHANGED <<context, form>>
     \/ /\ providers = 0 \/ (providers > 1 /\ a \in Windows)
        /\ Step(a, "addProvider") /\ UNCHANGED <<context, form>>
     \/ providers > 1 /\ a \in Polls /\ Fail(a)
  /\ UNCHANGED <<tables, runs, counters, trace, doubled, orphans>>

FindInstance(a) ==
  LET rows == RowsOf(call[a].provider) IN
  /\ call[a].at = "instance"
  /\ \/ \E i \in rows : rows = {i} /\ Ready(a, i, instances[i].config)
     \/ /\ rows = {} \/ (Cardinality(rows) > 1 /\ a \in Windows)
        /\ Step(a, "addInstance") /\ UNCHANGED <<context, form>>
     \/ Cardinality(rows) > 1 /\ a \in Polls /\ Fail(a)
  /\ UNCHANGED <<tables, runs, counters, trace, doubled, orphans>>

\* A look-up's call fails.
LookupFails(a) ==
  /\ trips < MaxTrips /\ trips' = trips + 1
  /\ call[a].at \in {"provider", "instance"}
  /\ IF a \in Polls THEN Fail(a) /\ UNCHANGED doubled
     ELSE /\ Step(a, IF call[a].at = "provider" THEN "addProvider" ELSE "addInstance")
          /\ doubled' = TRUE
          /\ UNCHANGED <<context, form>>
  /\ UNCHANGED <<tables, runs, saves, polls, trace, orphans>>

\* Somebody else is about to insert the same row.
Another(a) == \E b \in Actors \ {a} : call[b].at = call[a].at

AddProvider(a) ==
  /\ call[a].at = "addProvider"
  /\ IF unique /\ providers > 0
       THEN Fail(a) /\ UNCHANGED <<providers, doubled>>
       ELSE /\ providers < MaxRows
            /\ providers' = providers + 1
            /\ call' = [call EXCEPT ![a].at = "instance", ![a].provider = providers + 1]
            /\ doubled' = (doubled \/ Another(a))
            /\ UNCHANGED <<context, form>>
  /\ UNCHANGED <<unique, instances, runs, counters, trace, orphans>>

AddInstance(a) ==
  LET p == call[a].provider IN
  /\ call[a].at = "addInstance"
  /\ IF unique /\ RowsOf(p) # {}
       THEN Fail(a) /\ UNCHANGED <<instances, doubled>>
       ELSE /\ Len(instances) < MaxRows
            /\ instances' = Append(instances, [provider |-> p, config |-> Empty])
            /\ Ready(a, Len(instances) + 1, Empty)
            /\ doubled' = (doubled \/ Another(a))
  /\ UNCHANGED <<unique, providers, runs, counters, trace, orphans>>

\* An insert's call fails, whether or not the row is there now.  (For the
\* instance so does the look-up of a user to attribute it to.)
AddFails(a) ==
  /\ trips < MaxTrips /\ trips' = trips + 1
  /\ \/ /\ call[a].at = "addProvider" /\ UNCHANGED instances
        /\ \/ UNCHANGED providers
           \/ ~(unique /\ providers > 0) /\ providers < MaxRows /\ providers' = providers + 1
     \/ /\ call[a].at = "addInstance" /\ UNCHANGED providers
        /\ \/ UNCHANGED instances
           \/ /\ ~(unique /\ RowsOf(call[a].provider) # {}) /\ Len(instances) < MaxRows
              /\ instances' = Append(instances, [provider |-> call[a].provider, config |-> Empty])
  /\ Fail(a)
  /\ doubled' = (doubled \/ Another(a))
  /\ UNCHANGED <<unique, runs, saves, polls, trace, orphans>>

-----------------------------------------------------------------------------
(* The dashboard's windows: Org Settings shows and saves every part, a     *)
(* partner's mapping window its own entry, with the rest as it was read.   *)

Open(w, of) ==
  /\ form[w].of = "closed"
  /\ Begin(w, "load")
  /\ form' = [form EXCEPT ![w].of = of]
  /\ UNCHANGED <<tables, context, runs, counters, trace, doubled, orphans>>

\* A new value for one part, or, in Org Settings, an emptied field.  Settings
\* asks for the configuration again, for keys it has no field for; the parts
\* come from its fields.
Save(w, part) ==
  /\ form[w].of \in {"settings", part}
  /\ saves < MaxSaves /\ saves' = saves + 1
  /\ Begin(w, IF form[w].of = "settings" THEN "current" ELSE "put")
  /\ \E value \in {saves + 1} \cup IF form[w].of = "settings" THEN {0} ELSE {} :
       form' = [form EXCEPT ![w].shown[part] = value, ![w].edited = @ \cup {part}]
  /\ UNCHANGED <<tables, context, runs, polls, trips, trace, doubled, orphans>>

\* Mutant: only the edited part is sent.
PutEdited(w) == [p \in Parts |-> IF p \in form[w].edited THEN form[w].shown[p] ELSE 0]

\* The body of the PUT.
Put(w) == form[w].shown

\* The mapping window closes, Org Settings stays open.
Write(w) ==
  LET f == form[w] IN
  /\ call[w].at = "write"
  /\ instances' = [instances EXCEPT ![call[w].row].config = Put(w)]
  /\ writes' = writes + 1
  /\ overtaken' = (overtaken \cup {p \in Parts : writtenAt[p] > f.base}) \ f.edited
  /\ wanted' = [p \in Parts |-> IF p \in f.edited THEN {f.shown[p]} ELSE wanted[p]]
  /\ writtenAt' = [p \in Parts |-> IF p \in f.edited THEN writes + 1 ELSE writtenAt[p]]
  /\ call' = [call EXCEPT ![w] = Idle]
  /\ form' = [form EXCEPT ![w] = IF f.of = "settings" THEN [f EXCEPT !.base = writes + 1, !.edited = {}] ELSE Closed]
  /\ UNCHANGED <<unique, providers, context, runs, counters, doubled, orphans>>

\* The update's call fails, applied or not; the window keeps what it shows.
WriteFails(w) ==
  LET f == form[w] IN
  /\ call[w].at = "write"
  /\ trips < MaxTrips /\ trips' = trips + 1
  /\ \/ UNCHANGED <<instances, trace>>
     \/ /\ instances' = [instances EXCEPT ![call[w].row].config = Put(w)]
        /\ writes' = writes + 1
        /\ overtaken' = overtaken \cup {p \in Parts \ f.edited : writtenAt[p] > f.base}
        /\ wanted' = [p \in Parts |-> wanted[p] \cup IF p \in f.edited THEN {f.shown[p]} ELSE {}]
        /\ UNCHANGED writtenAt
  /\ Fail(w)
  /\ UNCHANGED <<unique, providers, runs, saves, polls, doubled, orphans>>

Close(w) ==
  /\ form[w].of # "closed" /\ call[w].at = "idle"
  /\ form' = [form EXCEPT ![w] = Closed]
  /\ UNCHANGED <<tables, context, runs, call, counters, trace, doubled, orphans>>

-----------------------------------------------------------------------------
(* A poll's ledger: pollEndpoint opens a run, ingests, closes the run.     *)

\* The cached row is taken unseen.
BeginPoll(p) ==
  /\ call[p].at = "idle" /\ polls < MaxRuns /\ polls' = polls + 1
  /\ call' = [call EXCEPT ![p] =
       IF context = {} THEN [Idle EXCEPT !.at = "provider", !.does = "run"]
       ELSE [Idle EXCEPT !.at = "start", !.does = "run", !.row = CHOOSE i \in context : TRUE]]
  /\ UNCHANGED <<tables, context, runs, form, saves, trips, trace, doubled, orphans>>

StartRun(p) ==
  /\ call[p].at = "start"
  /\ runs' = Append(runs, "running")
  /\ call' = [call EXCEPT ![p].at = "ingest", ![p].run = Len(runs) + 1]
  /\ UNCHANGED <<tables, context, form, counters, trace, doubled, orphans>>

\* The poll goes on; a run that was inserted all the same is nobody's.
StartFails(p) ==
  /\ call[p].at = "start"
  /\ trips < MaxTrips /\ trips' = trips + 1
  /\ \/ UNCHANGED <<runs, orphans>>
     \/ runs' = Append(runs, "running") /\ orphans' = orphans \cup {Len(runs) + 1}
  /\ Fail(p)
  /\ UNCHANGED <<tables, saves, polls, trace, doubled>>

\* The ingest itself is FilePoller's.
Ingest(p) ==
  /\ call[p].at = "ingest"
  /\ IF call[p].run = 0 THEN call' = [call EXCEPT ![p] = Idle] ELSE Step(p, "finish")
  /\ UNCHANGED <<tables, context, runs, form, counters, trace, doubled, orphans>>

FinishRun(p) ==
  /\ call[p].at = "finish"
  /\ \E status \in {"success", "failed"} : runs' = [runs EXCEPT ![call[p].run] = status]
  /\ call' = [call EXCEPT ![p] = Idle]
  /\ UNCHANGED <<tables, context, form, counters, trace, doubled, orphans>>

\* Nobody looks at the failure: catch(() => {}).
FinishFails(p) ==
  /\ call[p].at = "finish"
  /\ trips < MaxTrips /\ trips' = trips + 1
  /\ orphans' = orphans \cup {call[p].run}
  /\ call' = [call EXCEPT ![p] = Idle]
  /\ UNCHANGED <<tables, context, runs, form, saves, polls, trace, doubled>>

\* The process restarts: the cache is gone, so are the polls; requests end
\* in an error.
Restart ==
  /\ trips < MaxTrips /\ trips' = trips + 1
  /\ call' = [a \in Actors |-> Idle]
  /\ form' = [w \in Windows |-> IF call[w].does = "load" THEN Closed ELSE form[w]]
  /\ context' = {}
  /\ orphans' = orphans \cup {call[p].run : p \in {q \in Polls : call[q].run # 0}}
  /\ UNCHANGED <<tables, runs, saves, polls, trace, doubled>>

Find(a) ==
  \/ FindProvider(a) \/ FindInstance(a) \/ LookupFails(a)
  \/ AddProvider(a) \/ AddInstance(a) \/ AddFails(a)

Edit(w) ==
  \/ \E of \in {"settings"} \cup Mappings : Open(w, of)
  \/ \E part \in Parts : Save(w, part)
  \/ Write(w) \/ WriteFails(w) \/ Close(w)

Poll(p) ==
  \/ BeginPoll(p) \/ StartRun(p) \/ StartFails(p) \/ Ingest(p) \/ FinishRun(p) \/ FinishFails(p)

OrgNext ==
  \/ \E a \in Actors : Find(a)
  \/ \E w \in Windows : Edit(w)
  \/ \E p \in Polls : Poll(p)
  \/ Restart

OrgSpec == OrgInit /\ [][OrgNext]_orgVars

-----------------------------------------------------------------------------
(* Properties.                                                             *)

\* Every poll of the organization hangs off one row, the one the dashboard
\* edits and the intake reads: "ensure a provider and a per-org integration
\* instance exist, and reuse them for every poll run".  A second row, which
\* makes the configuration read as empty and every look-up fail, needs two
\* that look before either inserts, or a failed look-up that passes for
\* none, and a database that accepts it.
SingleContext ==
  unique \/ ~doubled => providers <= 1 /\ Len(instances) <= 1

\* A saved part stays as the dashboard last acknowledged it until it is saved
\* anew, however many windows and failed writes come in between; only a
\* window that was opened before the save writes over it.
EditsKept ==
  providers = 1 /\ Cardinality(RowsOf(1)) = 1 => \A p \in Parts \ overtaken : Shown[p] \in wanted[p]

\* A run the ledger shows as running is one: a poll is about to close it,
\* unless a restart or a failed call cut it off.
RunsClosed ==
  \A i \in DOMAIN runs :
    runs[i] = "running" => i \in orphans \/ \E p \in Polls : call[p].run = i
=============================================================================
