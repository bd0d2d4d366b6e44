---------------------------- MODULE GatewayProofs ----------------------------
(***************************************************************************)
(* Proofs about Gateway and the limiter inside it, for any clients,        *)
(* requests, edits, restarts and failed calls: the budget is exact, nobody *)
(* is served or refused without a reason that held while the request was   *)
(* under way, and every answer has its line in the log; and about the      *)
(* configuration row the gateway reads.                                    *)
(***************************************************************************)
EXTENDS Gateway, FiniteSetTheorems, TLAPS

-----------------------------------------------------------------------------
(* The organization's configuration row and its poll runs, for any windows, *)
(* polls, partners and settings: there is one row, a saved part stays      *)
(* saved, a run the ledger shows as running is one.                        *)

(* What a step does to an actor's call.                                    *)

Ats == {"idle", "provider", "addProvider", "instance", "addInstance", "write",
        "start", "ingest", "finish"}

\* Only a's call changes.
Only(a) == /\ call' \in [Actors -> Calls]
           /\ \A b \in Actors : b # a => call'[b] = call[b]

\* It keeps what it does, for which row and run.
SameRun(a) == call'[a].does = call[a].does /\ call'[a].run = call[a].run
SameProvider(a) == call'[a].provider = call[a].provider
SameRow(a) == call'[a].row = call[a].row

LEMMA CallFields ==
  ASSUME call \in [Actors -> Calls], NEW a \in Actors
  PROVE  /\ call[a] \in Calls /\ call[a].at \in Ats
         /\ call[a].does \in {"nothing", "load", "current", "put", "run"}
         /\ call[a].provider \in Ids /\ call[a].row \in Ids /\ call[a].run \in 0..MaxRuns
  BY DEF Calls, Ats

LEMMA CallSet ==
  ASSUME call \in [Actors -> Calls], NEW a \in Actors, NEW e \in Calls, call' = [call EXCEPT ![a] = e]
  PROVE  Only(a) /\ call'[a] = e
  BY DEF Only

LEMMA IdleType == Idle \in Calls /\ Idle.at = "idle" /\ Idle.does = "nothing" /\ Idle.provider = 0
                  /\ Idle.row = 0 /\ Idle.run = 0
  BY OrgAssumption DEF Idle, Calls, Ids

\* A new call.
LEMMA NewCall ==
  ASSUME NEW at \in Ats, NEW does \in {"load", "current", "put", "run"}
  PROVE  LET e == [Idle EXCEPT !.at = at, !.does = does]
         IN e \in Calls /\ e.at = at /\ e.does = does /\ e.provider = 0 /\ e.row = 0 /\ e.run = 0
  BY IdleType DEF Calls, Ats

LEMMA StepTo ==
  ASSUME call \in [Actors -> Calls], NEW a \in Actors, NEW at \in Ats, Step(a, at)
  PROVE  Only(a) /\ call'[a].at = at /\ SameRun(a) /\ SameProvider(a) /\ SameRow(a)
<1> DEFINE e == [call[a] EXCEPT !.at = at]
<1>1. e \in Calls /\ e.at = at /\ e.does = call[a].does /\ e.run = call[a].run
      /\ e.provider = call[a].provider /\ e.row = call[a].row
  BY DEF Calls, Ats
<1>2. call' = [call EXCEPT ![a] = e]
  BY DEF Step
<1> HIDE DEF e
<1> QED
  BY <1>1, <1>2, CallSet DEF SameRun, SameProvider, SameRow

LEMMA StepToProvider ==
  ASSUME call \in [Actors -> Calls], NEW a \in Actors, NEW at \in Ats, NEW n \in Ids,
         call' = [call EXCEPT ![a].at = at, ![a].provider = n]
  PROVE  Only(a) /\ call'[a].at = at /\ SameRun(a) /\ call'[a].provider = n /\ SameRow(a)
<1> DEFINE e == [call[a] EXCEPT !.at = at, !.provider = n]
<1>1. e \in Calls /\ e.at = at /\ e.does = call[a].does /\ e.run = call[a].run
      /\ e.provider = n /\ e.row = call[a].row
  BY DEF Calls, Ats
<1>2. call' = [call EXCEPT ![a] = e]
  OBVIOUS
<1> HIDE DEF e
<1> QED
  BY <1>1, <1>2, CallSet DEF SameRun, SameProvider, SameRow

LEMMA StepToRow ==
  ASSUME call \in [Actors -> Calls], NEW a \in Actors, NEW at \in Ats, NEW n \in Ids,
         call' = [call EXCEPT ![a].at = at, ![a].row = n]
  PROVE  Only(a) /\ call'[a].at = at /\ SameRun(a) /\ SameProvider(a) /\ call'[a].row = n
<1> DEFINE e == [call[a] EXCEPT !.at = at, !.row = n]
<1>1. e \in Calls /\ e.at = at /\ e.does = call[a].does /\ e.run = call[a].run
      /\ e.provider = call[a].provider /\ e.row = n
  BY DEF Calls, Ats
<1>2. call' = [call EXCEPT ![a] = e]
  OBVIOUS
<1> HIDE DEF e
<1> QED
  BY <1>1, <1>2, CallSet DEF SameRun, SameProvider, SameRow

LEMMA StepToRun ==
  ASSUME call \in [Actors -> Calls], NEW a \in Actors, NEW at \in Ats, NEW n \in 0..MaxRuns,
         call' = [call EXCEPT ![a].at = at, ![a].run = n]
  PROVE  Only(a) /\ call'[a].at = at /\ call'[a].does = call[a].does /\ SameProvider(a) /\ SameRow(a)
         /\ call'[a].run = n
<1> DEFINE e == [call[a] EXCEPT !.at = at, !.run = n]
<1>1. e \in Calls /\ e.at = at /\ e.does = call[a].does /\ e.run = n
      /\ e.provider = call[a].provider /\ e.row = call[a].row
  BY DEF Calls, Ats
<1>2. call' = [call EXCEPT ![a] = e]
  OBVIOUS
<1> HIDE DEF e
<1> QED
  BY <1>1, <1>2, CallSet DEF SameProvider, SameRow

LEMMA BeginTo ==
  ASSUME call \in [Actors -> Calls], NEW a \in Actors, NEW does \in {"load", "current", "put", "run"}, Begin(a, does)
  PROVE  /\ Only(a) /\ call[a].at = "idle" /\ call'[a].at = "provider" /\ call'[a].does = does
         /\ call'[a].provider = 0 /\ call'[a].row = 0 /\ call'[a].run = 0
<1> DEFINE e == [Idle EXCEPT !.at = "provider", !.does = does]
<1>1. e \in Calls /\ e.at = "provider" /\ e.does = does /\ e.provider = 0 /\ e.row = 0 /\ e.run = 0
  BY IdleType DEF Calls
<1>2. call' = [call EXCEPT ![a] = e] /\ call[a].at = "idle"
  BY DEF Begin
<1> HIDE DEF e
<1> QED
  BY <1>1, <1>2, CallSet

\* A window's request ends, a poll goes on without a run.
LEMMA FailTo ==
  ASSUME call \in [Actors -> Calls], NEW a \in Actors, Fail(a)
  PROVE  /\ Only(a) /\ call'[a].provider = 0 /\ call'[a].row = 0 /\ call'[a].run = 0
         /\ a \in Windows => call'[a] = Idle
         /\ a \in Polls => call'[a].at = "ingest" /\ call'[a].does = "run"
<1> DEFINE e == [Idle EXCEPT !.at = "ingest", !.does = "run"]
<1>1. e \in Calls /\ e.at = "ingest" /\ e.does = "run" /\ e.provider = 0 /\ e.row = 0 /\ e.run = 0
  BY NewCall DEF Ats
<1>2. call' = [call EXCEPT ![a] = IF a \in Windows THEN Idle ELSE e]
  BY DEF Fail
<1> HIDE DEF e
<1>3. CASE a \in Windows
  BY <1>2, <1>3, IdleType, CallSet, OrgAssumption
<1>4. CASE a \notin Windows
  BY <1>1, <1>2, <1>4, CallSet
<1> QED
  BY <1>3, <1>4

\* Where the row leads.
LEMMA ReadyTo ==
  ASSUME call \in [Actors -> Calls], NEW a \in Actors, NEW i \in Ids, NEW config, Ready(a, i, config)
  PROVE  /\ Only(a)
         /\ \/ call[a].does = "load" /\ call'[a] = Idle
            \/ /\ call[a].does = "current" /\ call'[a].at = "provider" /\ call'[a].does = "put"
               /\ call'[a].provider = 0 /\ call'[a].row = 0 /\ call'[a].run = 0
            \/ /\ call[a].does = "put" /\ call'[a].at = "write"
               /\ SameRun(a) /\ SameProvider(a) /\ call'[a].row = i
            \/ /\ call[a].does = "run" /\ call'[a].at = "start"
               /\ SameRun(a) /\ SameProvider(a) /\ call'[a].row = i
<1>1. CASE call' = [call EXCEPT ![a] = Idle] /\ call[a].does = "load"
  BY <1>1, IdleType, CallSet
<1>2. CASE /\ call' = [call EXCEPT ![a] = [Idle EXCEPT !.at = "provider", !.does = "put"]]
           /\ call[a].does = "current"
  <2> DEFINE e == [Idle EXCEPT !.at = "provider", !.does = "put"]
  <2>1. e \in Calls /\ e.at = "provider" /\ e.does = "put" /\ e.provider = 0 /\ e.row = 0 /\ e.run = 0
    BY NewCall DEF Ats
  <2> HIDE DEF e
  <2> QED
    BY <1>2, <2>1, CallSet DEF e
<1>3. CASE call' = [call EXCEPT ![a].at = "write", ![a].row = i] /\ call[a].does = "put"
  BY <1>3, StepToRow DEF Ats
<1>4. CASE call' = [call EXCEPT ![a].at = "start", ![a].row = i] /\ call[a].does = "run"
  BY <1>4, StepToRow DEF Ats
<1> QED
  BY <1>1, <1>2, <1>3, <1>4 DEF Ready

-----------------------------------------------------------------------------
(* What a step does to a window's form.                                    *)

OnlyForm(w) == /\ form' \in [Windows -> Forms]
               /\ \A v \in Windows : v # w => form'[v] = form[v]

LEMMA FormFields ==
  ASSUME form \in [Windows -> Forms], NEW w \in Windows
  PROVE  /\ form[w] \in Forms /\ form[w].of \in {"closed", "settings"} \cup Mappings
         /\ form[w].shown \in Config /\ form[w].edited \subseteq Parts /\ form[w].base \in Nat
  BY DEF Forms

LEMMA FormSet ==
  ASSUME form \in [Windows -> Forms], NEW w \in Windows, NEW e \in Forms, form' = [form EXCEPT ![w] = e]
  PROVE  OnlyForm(w) /\ form'[w] = e
  BY DEF OnlyForm

LEMMA ClosedType == /\ Closed \in Forms /\ Closed.of = "closed" /\ Closed.shown = Empty
                    /\ Closed.edited = {} /\ Closed.base = 0 /\ Empty \in Config
                    /\ \A p \in Parts : Empty[p] = 0
<1>1. Empty \in Config /\ \A p \in Parts : Empty[p] = 0
  BY OrgAssumption DEF Empty, Config
<1> QED
  BY <1>1 DEF Closed, Forms

\* A window shows what was read.
LEMMA FormLoad ==
  ASSUME form \in [Windows -> Forms], NEW w \in Windows, NEW config \in Config, writes \in Nat,
         form' = [form EXCEPT ![w].shown = config, ![w].base = writes]
  PROVE  /\ OnlyForm(w) /\ form'[w].of = form[w].of /\ form'[w].shown = config
         /\ form'[w].edited = form[w].edited /\ form'[w].base = writes
<1> DEFINE e == [form[w] EXCEPT !.shown = config, !.base = writes]
<1>1. e \in Forms /\ e.of = form[w].of /\ e.shown = config /\ e.edited = form[w].edited /\ e.base = writes
  BY DEF Forms
<1>2. form' = [form EXCEPT ![w] = e]
  OBVIOUS
<1> HIDE DEF e
<1> QED
  BY <1>1, <1>2, FormSet

LEMMA FormOpen ==
  ASSUME form \in [Windows -> Forms], NEW w \in Windows, NEW of \in {"settings"} \cup Mappings,
         form' = [form EXCEPT ![w].of = of]
  PROVE  /\ OnlyForm(w) /\ form'[w].shown = form[w].shown
         /\ form'[w].edited = form[w].edited /\ form'[w].base = form[w].base
<1> DEFINE e == [form[w] EXCEPT !.of = of]
<1>1. e \in Forms /\ e.shown = form[w].shown /\ e.edited = form[w].edited /\ e.base = form[w].base
  BY DEF Forms
<1>2. form' = [form EXCEPT ![w] = e]
  OBVIOUS
<1> HIDE DEF e
<1> QED
  BY <1>1, <1>2, FormSet

LEMMA FormEdit ==
  ASSUME form \in [Windows -> Forms], NEW w \in Windows, NEW part \in Parts, NEW value \in 0..MaxSaves,
         form' = [form EXCEPT ![w].shown[part] = value, ![w].edited = @ \cup {part}]
  PROVE  /\ OnlyForm(w) /\ form'[w].of = form[w].of
         /\ \A p \in Parts : p # part => form'[w].shown[p] = form[w].shown[p]
         /\ form'[w].edited = form[w].edited \cup {part} /\ form'[w].base = form[w].base
<1> DEFINE sh == [form[w].shown EXCEPT ![part] = value]
           ed == form[w].edited \cup {part}
           e == [form[w] EXCEPT !.shown = sh, !.edited = ed]
<1>1. sh \in Config /\ \A p \in Parts : p # part => sh[p] = form[w].shown[p]
  BY FormFields DEF Config
<1>2. ed \subseteq Parts
  BY FormFields
<1>3. form' = [form EXCEPT ![w] = e]
  OBVIOUS
<1> HIDE DEF sh, ed
<1>4. e \in Forms /\ e.of = form[w].of /\ e.shown = sh /\ e.edited = ed /\ e.base = form[w].base
  BY <1>1, <1>2 DEF Forms
<1> HIDE DEF e
<1> QED
  BY <1>1, <1>3, <1>4, FormSet DEF ed

-----------------------------------------------------------------------------
(* The invariant, part by part.                                            *)

TablesInv ==
  /\ unique \in BOOLEAN /\ providers \in Ids
  /\ instances \in Seq(Instance) /\ Len(instances) <= MaxRows
  /\ \A i \in DOMAIN instances : instances[i].provider \in 1..providers
  /\ context = {} \/ \E i \in DOMAIN instances : context = {i}
  /\ runs \in Seq(RunStatus)

\* Where an actor is, it has what it needs to go on.
CallOK(x) ==
  /\ call[x].at # "idle" /\ x \in Windows =>
       call[x].does \in {"load", "current", "put"} /\ call[x].at \notin {"start", "ingest", "finish"}
  /\ call[x].at # "idle" /\ x \in Polls => call[x].does = "run" /\ call[x].at # "write"
  /\ call[x].at \in {"instance", "addInstance"} => call[x].provider >= 1
  /\ call[x].at \in {"write", "start"} => call[x].row >= 1
  /\ call[x].at \notin {"ingest", "finish"} => call[x].run = 0
  /\ call[x].at = "finish" => call[x].run >= 1
  /\ call[x].provider <= providers /\ call[x].row <= Len(instances) /\ call[x].run <= Len(runs)

CallsInv == call \in [Actors -> Calls] /\ \A x \in Actors : CallOK(x)

FormsInv == /\ form \in [Windows -> Forms] /\ writes \in Nat
            /\ \A w \in Windows : form[w].base <= writes

\* No step takes a provider, a row or a run away.
Grows ==
  /\ providers \in Nat /\ providers' \in Nat /\ providers <= providers'
  /\ Len(instances) \in Nat /\ Len(instances') \in Nat /\ Len(instances) <= Len(instances')
  /\ Len(runs) \in Nat /\ Len(runs') \in Nat /\ Len(runs) <= Len(runs')

LEMMA ActorKinds ==
  ASSUME NEW a \in Actors
  PROVE  /\ a \in Windows \/ a \in Polls
         /\ ~(a \in Windows /\ a \in Polls)
  BY OrgAssumption DEF Actors

LEMMA CallsKept ==
  ASSUME CallsInv, NEW a \in Actors, Only(a), Grows, CallOK(a)'
  PROVE  CallsInv'
<1>1. ASSUME NEW b \in Actors, b # a PROVE CallOK(b)'
  <2>1. call'[b] = call[b] /\ CallOK(b)
    BY <1>1 DEF Only, CallsInv
  <2>2. call[b].provider \in Nat /\ call[b].row \in Nat /\ call[b].run \in Nat
    BY CallFields, OrgAssumption DEF CallsInv, Ids
  <2> QED
    BY <2>1, <2>2 DEF CallOK, Grows
<1> QED
  BY <1>1 DEF CallsInv, Only

-----------------------------------------------------------------------------
(* The tables.                                                             *)

LEMMA RowsType ==
  ASSUME TablesInv, NEW i \in DOMAIN instances
  PROVE  /\ instances[i] \in Instance /\ instances[i].provider \in Ids /\ instances[i].config \in Config
         /\ i \in 1..Len(instances) /\ i \in Ids /\ Len(instances) \in Nat
<1>1. instances[i] \in Instance /\ i \in 1..Len(instances) /\ Len(instances) \in Nat
  BY DEF TablesInv
<1>2. i \in Ids
  BY <1>1, OrgAssumption DEF TablesInv, Ids
<1> QED
  BY <1>1, <1>2 DEF Instance

\* A row for provider p, without a configuration.
LEMMA RowAdded ==
  ASSUME TablesInv, NEW p \in 1..providers, Len(instances) < MaxRows,
         instances' = Append(instances, [provider |-> p, config |-> Empty])
  PROVE  /\ instances' \in Seq(Instance) /\ Len(instances') = Len(instances) + 1 /\ Len(instances') <= MaxRows
         /\ \A i \in DOMAIN instances : instances'[i] = instances[i]
         /\ instances'[Len(instances) + 1].provider = p /\ instances'[Len(instances) + 1].config = Empty
         /\ \A i \in DOMAIN instances' : instances'[i].provider \in 1..providers
<1> DEFINE e == [provider |-> p, config |-> Empty]
<1>1. e \in Instance /\ e.provider = p /\ e.config = Empty
  <2>1. p \in Ids
    BY OrgAssumption DEF TablesInv, Ids
  <2> QED
    BY <2>1, ClosedType DEF Instance
<1> HIDE DEF e
<1>2. /\ instances' \in Seq(Instance) /\ Len(instances') = Len(instances) + 1 /\ Len(instances) \in Nat
      /\ \A i \in DOMAIN instances : instances'[i] = instances[i]
      /\ instances'[Len(instances) + 1] = e
      /\ DOMAIN instances' = 1..(Len(instances) + 1) /\ DOMAIN instances = 1..Len(instances)
  BY <1>1 DEF TablesInv, e
<1>3. Len(instances') <= MaxRows
  BY <1>2, OrgAssumption
<1>4. \A i \in DOMAIN instances' : instances'[i].provider \in 1..providers
  BY <1>1, <1>2 DEF TablesInv
<1> QED
  BY <1>1, <1>2, <1>3, <1>4

\* A row's configuration is written.
LEMMA RowWritten ==
  ASSUME TablesInv, NEW n \in DOMAIN instances, NEW config \in Config,
         instances' = [instances EXCEPT ![n].config = config]
  PROVE  /\ instances' \in Seq(Instance) /\ Len(instances') = Len(instances)
         /\ \A i \in DOMAIN instances :
              /\ instances'[i].provider = instances[i].provider
              /\ instances'[i].config = IF i = n THEN config ELSE instances[i].config
<1> DEFINE e == [instances[n] EXCEPT !.config = config]
<1>1. e \in Instance /\ e.provider = instances[n].provider /\ e.config = config
  BY RowsType DEF Instance
<1>2. instances' = [instances EXCEPT ![n] = e]
  OBVIOUS
<1> HIDE DEF e
<1>3. /\ instances' \in Seq(Instance) /\ Len(instances') = Len(instances)
      /\ \A i \in DOMAIN instances : instances'[i] = IF i = n THEN e ELSE instances[i]
  <2>1. instances \in Seq(Instance) /\ n \in 1..Len(instances) /\ DOMAIN instances = 1..Len(instances)
    BY DEF TablesInv
  <2> QED
    BY <1>1, <1>2, <2>1
<1> QED
  BY <1>1, <1>3

\* The rows that were there belong to the same provider as before.
SameProviders == \A i \in DOMAIN instances : instances'[i].provider = instances[i].provider

\* Nothing but the cache changes, to the row found or to nothing.
LEMMA TablesStay ==
  ASSUME TablesInv, UNCHANGED <<tables, runs>>,
         context' \in {context, {}} \/ \E i \in DOMAIN instances : context' = {i}
  PROVE  TablesInv' /\ Grows /\ SameProviders
<1>1. unique' = unique /\ providers' = providers /\ instances' = instances /\ runs' = runs
  BY DEF tables
<1>2. providers \in Nat /\ Len(instances) \in Nat /\ Len(runs) \in Nat
  BY OrgAssumption DEF TablesInv, Ids
<1> QED
  BY <1>1, <1>2 DEF TablesInv, Grows, SameProviders

LEMMA TablesProvider ==
  ASSUME TablesInv, UNCHANGED <<unique, instances, context, runs>>,
         providers < MaxRows, providers' = providers + 1
  PROVE  TablesInv' /\ Grows /\ SameProviders
<1>1. providers \in Nat /\ providers' \in Nat /\ providers' \in Ids
  BY OrgAssumption DEF TablesInv, Ids
<1>2. \A i \in DOMAIN instances : instances[i].provider \in 1..providers'
  BY <1>1 DEF TablesInv
<1>3. TablesInv'
  BY <1>1, <1>2 DEF TablesInv
<1>4. Len(instances) \in Nat /\ Len(runs) \in Nat
  BY DEF TablesInv
<1> QED
  BY <1>1, <1>3, <1>4 DEF Grows, SameProviders

LEMMA TablesInstance ==
  ASSUME TablesInv, UNCHANGED <<unique, providers, runs>>, NEW p \in 1..providers, Len(instances) < MaxRows,
         instances' = Append(instances, [provider |-> p, config |-> Empty]),
         context' \in {context, {Len(instances) + 1}}
  PROVE  TablesInv' /\ Grows /\ SameProviders
<1>1. /\ instances' \in Seq(Instance) /\ Len(instances') = Len(instances) + 1 /\ Len(instances') <= MaxRows
      /\ \A i \in DOMAIN instances : instances'[i] = instances[i]
      /\ \A i \in DOMAIN instances' : instances'[i].provider \in 1..providers
  BY RowAdded
<1>2. /\ Len(instances) \in Nat /\ Len(runs) \in Nat /\ providers \in Nat
      /\ DOMAIN instances = 1..Len(instances) /\ DOMAIN instances' = 1..Len(instances')
  BY <1>1, OrgAssumption DEF TablesInv, Ids
<1>3. context' = {} \/ \E i \in DOMAIN instances' : context' = {i}
  BY <1>1, <1>2 DEF TablesInv
<1>4. TablesInv'
  BY <1>1, <1>3 DEF TablesInv
<1> QED
  BY <1>1, <1>2, <1>4 DEF Grows, SameProviders

LEMMA TablesWrite ==
  ASSUME TablesInv, UNCHANGED <<unique, providers, context, runs>>, NEW n \in DOMAIN instances,
         NEW config \in Config, instances' = [instances EXCEPT ![n].config = config]
  PROVE  TablesInv' /\ Grows /\ SameProviders
<1>1. /\ instances' \in Seq(Instance) /\ Len(instances') = Len(instances)
      /\ \A i \in DOMAIN instances : instances'[i].provider = instances[i].provider
  BY RowWritten
<1>2. /\ Len(instances) \in Nat /\ Len(runs) \in Nat /\ providers \in Nat
      /\ DOMAIN instances' = DOMAIN instances
  BY <1>1, OrgAssumption DEF TablesInv, Ids
<1>3. TablesInv'
  BY <1>1, <1>2 DEF TablesInv
<1> QED
  BY <1>1, <1>2, <1>3 DEF Grows, SameProviders

LEMMA TablesRun ==
  ASSUME TablesInv, UNCHANGED <<tables, context>>, runs' \in Seq(RunStatus), Len(runs) <= Len(runs')
  PROVE  TablesInv' /\ Grows /\ SameProviders
<1>1. unique' = unique /\ providers' = providers /\ instances' = instances /\ context' = context
  BY DEF tables
<1>2. providers \in Nat /\ Len(instances) \in Nat /\ Len(runs) \in Nat /\ Len(runs') \in Nat
  BY OrgAssumption DEF TablesInv, Ids
<1>3. TablesInv'
  BY <1>1 DEF TablesInv
<1> QED
  BY <1>1, <1>2, <1>3 DEF Grows, SameProviders

-----------------------------------------------------------------------------
(* The forms.                                                              *)

LEMMA FormsKept ==
  ASSUME FormsInv, NEW w \in Windows, OnlyForm(w), writes' \in Nat, writes <= writes', form'[w].base <= writes'
  PROVE  FormsInv'
<1>1. ASSUME NEW v \in Windows, v # w PROVE form'[v].base <= writes'
  <2>1. form'[v] = form[v] /\ form[v].base \in Nat /\ form[v].base <= writes /\ writes \in Nat
    BY <1>1, FormFields DEF FormsInv, OnlyForm
  <2> QED
    BY <2>1
<1> QED
  BY <1>1 DEF FormsInv, OnlyForm

LEMMA FormsStay ==
  ASSUME FormsInv, UNCHANGED <<form, writes>> PROVE FormsInv'
  BY DEF FormsInv

\* A window that was to open is closed again; nothing else happens to a form.
LEMMA FailForm ==
  ASSUME CallsInv, FormsInv, NEW a \in Actors, call[a].at # "idle", Fail(a)
  PROVE  \/ UNCHANGED form
         \/ /\ a \in Windows /\ call[a].does = "load"
            /\ OnlyForm(a) /\ form'[a] = Closed
<1>1. call[a].does = "load" => a \in Windows
  BY ActorKinds DEF CallsInv, CallOK
<1>2. CASE call[a].does = "load"
  <2>1. form' = [form EXCEPT ![a] = Closed]
    BY <1>2 DEF Fail
  <2> QED
    BY <1>1, <1>2, <2>1, ClosedType, FormSet DEF FormsInv
<1>3. CASE call[a].does # "load"
  BY <1>3 DEF Fail
<1> QED
  BY <1>2, <1>3

LEMMA FailForms ==
  ASSUME CallsInv, FormsInv, NEW a \in Actors, call[a].at # "idle", Fail(a), writes' \in Nat, writes <= writes'
  PROVE  FormsInv'
<1>1. CASE UNCHANGED form
  <2>1. \A w \in Windows : form[w].base \in Nat /\ form[w].base <= writes /\ writes \in Nat
    BY FormFields DEF FormsInv
  <2> QED
    BY <1>1, <2>1 DEF FormsInv
<1>2. CASE a \in Windows /\ OnlyForm(a) /\ form'[a] = Closed
  BY <1>2, ClosedType, FormsKept
<1> QED
  BY <1>1, <1>2, FailForm

-----------------------------------------------------------------------------
(* Each step keeps the parts so far.                                       *)

Base == TablesInv /\ CallsInv /\ FormsInv

\* What is needed of a step of actor a to know that it does.
Sound(a) == Base' /\ Grows /\ SameProviders /\ Only(a)

LEMMA BaseTypes ==
  ASSUME Base
  PROVE  /\ call \in [Actors -> Calls] /\ form \in [Windows -> Forms] /\ writes \in Nat
         /\ providers \in Nat /\ providers \in Ids /\ Len(instances) \in Nat /\ Len(runs) \in Nat
         /\ instances \in Seq(Instance) /\ DOMAIN instances = 1..Len(instances) /\ MaxRows \in Nat
         /\ runs \in Seq(RunStatus) /\ DOMAIN runs = 1..Len(runs)
  BY OrgAssumption DEF Base, TablesInv, CallsInv, FormsInv, Ids

\* A look-up or an insert that fails.
LEMMA BaseFail ==
  ASSUME Base, NEW a \in Actors, call[a].at \notin {"idle", "ingest", "finish"}, Fail(a),
         TablesInv', Grows, SameProviders, writes' \in Nat, writes <= writes'
  PROVE  Sound(a)
<1>1. CallOK(a)'
  <2>1. a \in Windows \/ a \in Polls
    BY ActorKinds
  <2>2. CASE a \in Windows
    BY <2>2, BaseTypes, FailTo, IdleType, ActorKinds DEF CallOK, Grows
  <2>3. CASE a \in Polls
    BY <2>3, BaseTypes, FailTo, ActorKinds DEF CallOK, Grows
  <2> QED
    BY <2>1, <2>2, <2>3
<1>2. Only(a)
  BY BaseTypes, FailTo
<1>3. CallsInv'
  BY <1>1, <1>2, CallsKept DEF Base
<1>4. FormsInv'
  BY FailForms DEF Base
<1> QED
  BY <1>2, <1>3, <1>4 DEF Sound, Base

\* The row is there.
LEMMA BaseReady ==
  ASSUME Base, NEW a \in Actors, call[a].at \in {"instance", "addInstance"},
         NEW i \in Ids, i >= 1, i <= Len(instances'), NEW config \in Config, Ready(a, i, config),
         TablesInv', Grows, SameProviders, UNCHANGED writes
  PROVE  Sound(a)
<1>0. CallOK(a) /\ (a \in Windows \/ a \in Polls) /\ ~(a \in Windows /\ a \in Polls) /\ i \in Nat
  BY ActorKinds, OrgAssumption DEF Base, CallsInv, Ids
<1>1. /\ Only(a)
      /\ \/ call[a].does = "load" /\ call'[a] = Idle
         \/ /\ call[a].does = "current" /\ call'[a].at = "provider" /\ call'[a].does = "put"
            /\ call'[a].provider = 0 /\ call'[a].row = 0 /\ call'[a].run = 0
         \/ /\ call[a].does = "put" /\ call'[a].at = "write"
            /\ SameRun(a) /\ SameProvider(a) /\ call'[a].row = i
         \/ /\ call[a].does = "run" /\ call'[a].at = "start"
            /\ SameRun(a) /\ SameProvider(a) /\ call'[a].row = i
  BY BaseTypes, ReadyTo
<1>2. call[a].provider \in Nat /\ call[a].provider <= providers /\ call[a].run = 0
  BY <1>0, BaseTypes, CallFields, OrgAssumption DEF CallOK, Ids
<1>3. CallOK(a)'
  BY <1>0, <1>1, <1>2, IdleType DEF CallOK, Grows, SameRun, SameProvider
<1>4. CallsInv'
  BY <1>1, <1>3, CallsKept DEF Base
<1>5. FormsInv'
  <2>1. CASE UNCHANGED form
    BY <2>1, FormsStay DEF Base
  <2>2. CASE call[a].does = "load" /\ form' = [form EXCEPT ![a].shown = config, ![a].base = writes]
    <3>1. a \in Windows
      BY <1>0, <2>2 DEF CallOK
    <3>2. OnlyForm(a) /\ form'[a].base = writes
      BY <2>2, <3>1, BaseTypes, FormLoad
    <3> QED
      BY <3>1, <3>2, BaseTypes, FormsKept DEF Base
  <2> QED
    BY <2>1, <2>2 DEF Ready
<1> QED
  BY <1>1, <1>4, <1>5 DEF Sound, Base

\* Only the step itself changes.
LEMMA BaseStep ==
  ASSUME Base, NEW a \in Actors, call[a].at \in {"provider", "instance"}, NEW at \in {"addProvider", "addInstance"},
         at = "addInstance" => call[a].provider >= 1,
         Step(a, at), UNCHANGED <<tables, runs, context, form, writes>>
  PROVE  Sound(a)
<1>1. TablesInv' /\ Grows /\ SameProviders
  BY TablesStay DEF Base
<1>2. Only(a) /\ call'[a].at = at /\ SameRun(a) /\ SameProvider(a) /\ SameRow(a)
  BY BaseTypes, StepTo DEF Ats
<1>3. CallOK(a) /\ UNCHANGED <<providers, instances, runs>>
  BY DEF Base, CallsInv, tables
<1>4. CallOK(a)'
  BY <1>2, <1>3 DEF CallOK, SameRun, SameProvider, SameRow
<1>5. CallsInv' /\ FormsInv'
  BY <1>1, <1>2, <1>4, CallsKept, FormsStay DEF Base
<1> QED
  BY <1>1, <1>2, <1>5 DEF Sound, Base

LEMMA BaseFindProvider ==
  ASSUME Base, NEW a \in Actors, FindProvider(a) PROVE Sound(a)
<1>1. call[a].at = "provider" /\ UNCHANGED <<tables, runs, writes>>
  BY DEF FindProvider, trace
<1>2. CASE providers = 1 /\ call' = [call EXCEPT ![a].at = "instance", ![a].provider = 1]
           /\ UNCHANGED <<context, form>>
  <2>1. TablesInv' /\ Grows /\ SameProviders
    BY <1>1, <1>2, TablesStay DEF Base
  <2>2. 1 \in Ids
    BY <1>2, BaseTypes
  <2>3. Only(a) /\ call'[a].at = "instance" /\ SameRun(a) /\ call'[a].provider = 1 /\ SameRow(a)
    BY <1>2, <2>2, BaseTypes, StepToProvider DEF Ats
  <2>4. CallOK(a) /\ UNCHANGED <<providers, instances, runs>>
    BY <1>1 DEF Base, CallsInv, tables
  <2>5. CallOK(a)'
    BY <1>1, <1>2, <2>3, <2>4 DEF CallOK, SameRun, SameRow
  <2>6. CallsInv' /\ FormsInv'
    BY <1>1, <1>2, <2>1, <2>3, <2>5, CallsKept, FormsStay DEF Base
  <2> QED
    BY <2>1, <2>3, <2>6 DEF Sound, Base
<1>3. CASE Step(a, "addProvider") /\ UNCHANGED <<context, form>>
  BY <1>1, <1>3, BaseStep
<1>4. CASE Fail(a)
  <2>1. UNCHANGED context
    BY <1>4 DEF Fail
  <2>2. TablesInv' /\ Grows /\ SameProviders
    BY <1>1, <2>1, TablesStay DEF Base
  <2> QED
    BY <1>1, <1>4, <2>2, BaseTypes, BaseFail
<1> QED
  BY <1>2, <1>3, <1>4 DEF FindProvider

LEMMA BaseFindInstance ==
  ASSUME Base, NEW a \in Actors, FindInstance(a) PROVE Sound(a)
<1>1. call[a].at = "instance" /\ UNCHANGED <<tables, runs, writes>>
  BY DEF FindInstance, trace
<1>2. ASSUME NEW i \in RowsOf(call[a].provider), Ready(a, i, instances[i].config) PROVE Sound(a)
  <2>1. i \in DOMAIN instances
    BY <1>2 DEF RowsOf
  <2>2. context' \in {context, {}} \/ \E j \in DOMAIN instances : context' = {j}
    BY <1>2, <2>1 DEF Ready
  <2>3. TablesInv' /\ Grows /\ SameProviders
    BY <1>1, <2>2, TablesStay DEF Base
  <2>4. i \in Ids /\ i >= 1 /\ i <= Len(instances') /\ instances[i].config \in Config
    BY <1>1, <2>1, RowsType DEF Base, tables
  <2> QED
    BY <1>1, <1>2, <2>3, <2>4, BaseReady
<1>3. CASE Step(a, "addInstance") /\ UNCHANGED <<context, form>>
  <2>1. call[a].provider >= 1
    BY <1>1 DEF Base, CallsInv, CallOK
  <2> QED
    BY <1>1, <1>3, <2>1, BaseStep
<1>4. CASE Fail(a)
  <2>1. UNCHANGED context
    BY <1>4 DEF Fail
  <2>2. TablesInv' /\ Grows /\ SameProviders
    BY <1>1, <2>1, TablesStay DEF Base
  <2> QED
    BY <1>1, <1>4, <2>2, BaseTypes, BaseFail
<1> QED
  BY <1>2, <1>3, <1>4 DEF FindInstance

LEMMA BaseLookupFails ==
  ASSUME Base, NEW a \in Actors, LookupFails(a) PROVE Sound(a)
<1>1. call[a].at \in {"provider", "instance"} /\ UNCHANGED <<tables, runs, writes>>
  BY DEF LookupFails, trace
<1>2. CASE Fail(a)
  <2>1. UNCHANGED context
    BY <1>2 DEF Fail
  <2>2. TablesInv' /\ Grows /\ SameProviders
    BY <1>1, <2>1, TablesStay DEF Base
  <2> QED
    BY <1>1, <1>2, <2>2, BaseTypes, BaseFail
<1>3. CASE Step(a, IF call[a].at = "provider" THEN "addProvider" ELSE "addInstance") /\ UNCHANGED <<context, form>>
  <2>1. call[a].at = "instance" => call[a].provider >= 1
    BY DEF Base, CallsInv, CallOK
  <2> QED
    BY <1>1, <1>3, <2>1, BaseStep
<1> QED
  BY <1>2, <1>3 DEF LookupFails

LEMMA BaseAddProvider ==
  ASSUME Base, NEW a \in Actors, AddProvider(a) PROVE Sound(a)
<1>1. call[a].at = "addProvider" /\ UNCHANGED <<unique, instances, runs, writes>>
  BY DEF AddProvider, trace
<1>2. CASE Fail(a) /\ UNCHANGED providers
  <2>1. UNCHANGED <<tables, context>>
    BY <1>1, <1>2 DEF Fail, tables
  <2>2. TablesInv' /\ Grows /\ SameProviders
    BY <1>1, <2>1, TablesStay DEF Base
  <2> QED
    BY <1>1, <1>2, <2>2, BaseTypes, BaseFail
<1>3. CASE /\ providers < MaxRows /\ providers' = providers + 1 /\ UNCHANGED <<context, form>>
           /\ call' = [call EXCEPT ![a].at = "instance", ![a].provider = providers + 1]
  <2>1. TablesInv' /\ Grows /\ SameProviders
    BY <1>1, <1>3, TablesProvider DEF Base
  <2>2. providers + 1 \in Ids /\ providers \in Nat
    BY <1>3, BaseTypes, OrgAssumption DEF Ids
  <2>3. Only(a) /\ call'[a].at = "instance" /\ SameRun(a) /\ call'[a].provider = providers + 1 /\ SameRow(a)
    BY <1>3, <2>2, BaseTypes, StepToProvider DEF Ats
  <2>4. CallOK(a)
    BY DEF Base, CallsInv
  <2>5. CallOK(a)'
    BY <1>1, <1>3, <2>2, <2>3, <2>4 DEF CallOK, SameRun, SameRow
  <2>6. CallsInv' /\ FormsInv'
    BY <1>1, <1>3, <2>1, <2>3, <2>5, CallsKept, FormsStay DEF Base
  <2> QED
    BY <2>1, <2>3, <2>6 DEF Sound, Base
<1> QED
  BY <1>2, <1>3 DEF AddProvider

LEMMA BaseAddInstance ==
  ASSUME Base, NEW a \in Actors, AddInstance(a) PROVE Sound(a)
<1>1. call[a].at = "addInstance" /\ UNCHANGED <<unique, providers, runs, writes>>
  BY DEF AddInstance, trace
<1>2. CASE Fail(a) /\ UNCHANGED instances
  <2>1. UNCHANGED <<tables, context>>
    BY <1>1, <1>2 DEF Fail, tables
  <2>2. TablesInv' /\ Grows /\ SameProviders
    BY <1>1, <2>1, TablesStay DEF Base
  <2> QED
    BY <1>1, <1>2, <2>2, BaseTypes, BaseFail
<1>3. CASE /\ Len(instances) < MaxRows
           /\ instances' = Append(instances, [provider |-> call[a].provider, config |-> Empty])
           /\ Ready(a, Len(instances) + 1, Empty)
  <2>1. call[a].provider \in 1..providers
    BY <1>1, BaseTypes, CallFields, OrgAssumption DEF Base, CallsInv, CallOK, Ids
  <2>2. context' \in {context, {Len(instances) + 1}}
    BY <1>3 DEF Ready
  <2>3. TablesInv' /\ Grows /\ SameProviders
    BY <1>1, <1>3, <2>1, <2>2, TablesInstance DEF Base
  <2>4. Len(instances') = Len(instances) + 1 /\ Len(instances) \in Nat
    BY <1>3, BaseTypes
  <2>5. Len(instances) + 1 \in Ids
    BY <1>3, BaseTypes, OrgAssumption DEF Ids
  <2> QED
    BY <1>1, <1>3, <2>3, <2>4, <2>5, ClosedType, BaseReady
<1> QED
  BY <1>2, <1>3 DEF AddInstance

LEMMA BaseAddFails ==
  ASSUME Base, NEW a \in Actors, AddFails(a) PROVE Sound(a)
<1>1. /\ call[a].at \in {"addProvider", "addInstance"} /\ UNCHANGED <<unique, runs, writes, context>>
      /\ Fail(a)
  BY DEF AddFails, trace, Fail
<1>2. CASE UNCHANGED <<providers, instances>>
  <2>1. TablesInv' /\ Grows /\ SameProviders
    BY <1>1, <1>2, TablesStay DEF Base, tables
  <2> QED
    BY <1>1, <2>1, BaseTypes, BaseFail
<1>3. CASE UNCHANGED instances /\ providers < MaxRows /\ providers' = providers + 1
  <2>1. TablesInv' /\ Grows /\ SameProviders
    BY <1>1, <1>3, TablesProvider DEF Base
  <2> QED
    BY <1>1, <2>1, BaseTypes, BaseFail
<1>4. CASE /\ call[a].at = "addInstance" /\ UNCHANGED providers /\ Len(instances) < MaxRows
           /\ instances' = Append(instances, [provider |-> call[a].provider, config |-> Empty])
  <2>1. call[a].provider \in 1..providers
    BY <1>4, BaseTypes, CallFields, OrgAssumption DEF Base, CallsInv, CallOK, Ids
  <2>2. TablesInv' /\ Grows /\ SameProviders
    BY <1>1, <1>4, <2>1, TablesInstance DEF Base
  <2> QED
    BY <1>1, <2>2, BaseTypes, BaseFail
<1> QED
  BY <1>2, <1>3, <1>4 DEF AddFails

LEMMA BaseFind ==
  ASSUME Base, NEW a \in Actors, Find(a) PROVE Sound(a)
  BY BaseFindProvider, BaseFindInstance, BaseLookupFails, BaseAddProvider, BaseAddInstance, BaseAddFails DEF Find

\* A window's next call.
LEMMA BaseBegin ==
  ASSUME Base, NEW w \in Windows, NEW does \in {"load", "current", "put"}, Begin(w, does),
         UNCHANGED <<tables, context, runs, writes>>, OnlyForm(w), form'[w].base = form[w].base
  PROVE  Sound(w)
<1>1. TablesInv' /\ Grows /\ SameProviders
  BY TablesStay DEF Base
<1>2. w \in Actors /\ w \notin Polls
  BY OrgAssumption DEF Actors
<1>3. /\ Only(w) /\ call[w].at = "idle" /\ call'[w].at = "provider" /\ call'[w].does = does
      /\ call'[w].provider = 0 /\ call'[w].row = 0 /\ call'[w].run = 0
  BY <1>2, BaseTypes, BeginTo
<1>4. CallOK(w)'
  BY <1>1, <1>2, <1>3 DEF CallOK, Grows
<1>5. CallsInv'
  BY <1>1, <1>2, <1>3, <1>4, CallsKept DEF Base
<1>6. FormsInv'
  <2>1. form[w].base \in Nat /\ form[w].base <= writes
    BY FormFields DEF Base, FormsInv
  <2> QED
    BY <2>1, BaseTypes, FormsKept DEF Base
<1> QED
  BY <1>1, <1>3, <1>5, <1>6 DEF Sound, Base

LEMMA BaseOpen ==
  ASSUME Base, NEW w \in Windows, NEW of \in {"settings"} \cup Mappings, Open(w, of) PROVE Sound(w)
<1>1. OnlyForm(w) /\ form'[w].base = form[w].base
  BY BaseTypes, FormOpen DEF Open
<1>2. Begin(w, "load") /\ UNCHANGED <<tables, context, runs, writes>>
  BY DEF Open, trace
<1> QED
  BY <1>1, <1>2, BaseBegin

\* What a save does to the form.
LEMMA SaveForm ==
  ASSUME Base, saves \in 0..MaxSaves, NEW w \in Windows, NEW part \in Parts, Save(w, part)
  PROVE  /\ OnlyForm(w) /\ form'[w].of = form[w].of
         /\ \A p \in Parts : p # part => form'[w].shown[p] = form[w].shown[p]
         /\ form'[w].edited = form[w].edited \cup {part} /\ form'[w].base = form[w].base
         /\ saves' \in 0..MaxSaves /\ UNCHANGED <<tables, context, runs, writes, polls, trips>>
<1>1. PICK value \in {saves + 1} \cup (IF form[w].of = "settings" THEN {0} ELSE {}) :
        form' = [form EXCEPT ![w].shown[part] = value, ![w].edited = @ \cup {part}]
  BY DEF Save
<1>2. value \in 0..MaxSaves /\ saves' \in 0..MaxSaves
  BY OrgAssumption DEF Save
<1>3. UNCHANGED <<tables, context, runs, writes, polls, trips>>
  BY DEF Save, trace
<1> QED
  BY <1>1, <1>2, <1>3, BaseTypes, FormEdit

LEMMA BaseSave ==
  ASSUME Base, saves \in 0..MaxSaves, NEW w \in Windows, NEW part \in Parts, Save(w, part) PROVE Sound(w)
<1>1. Begin(w, IF form[w].of = "settings" THEN "current" ELSE "put")
  BY DEF Save
<1> QED
  BY <1>1, SaveForm, BaseBegin

\* What is written, where, and what the window shows then.
LEMMA WriteForm ==
  ASSUME Base, NEW w \in Windows, Write(w)
  PROVE  /\ OnlyForm(w)
         /\ IF form[w].of = "settings"
              THEN /\ form'[w].shown = form[w].shown /\ form'[w].edited = {} /\ form'[w].base = writes + 1
              ELSE form'[w] = Closed
<1>1. CASE form[w].of = "settings"
  <2> DEFINE e == [form[w] EXCEPT !.base = writes + 1, !.edited = {}]
  <2>0. form[w] \in Forms /\ writes + 1 \in Nat
    BY BaseTypes, FormFields
  <2>1. e \in Forms /\ e.shown = form[w].shown /\ e.edited = {} /\ e.base = writes + 1
    BY <2>0 DEF Forms
  <2>2. form' = [form EXCEPT ![w] = e]
    BY <1>1 DEF Write
  <2> HIDE DEF e
  <2> QED
    BY <1>1, <2>1, <2>2, BaseTypes, FormSet
<1>2. CASE form[w].of # "settings"
  <2>1. form' = [form EXCEPT ![w] = Closed]
    BY <1>2 DEF Write
  <2> QED
    BY <1>2, <2>1, BaseTypes, ClosedType, FormSet
<1> QED
  BY <1>1, <1>2

LEMMA WriteRow ==
  ASSUME Base, NEW w \in Windows, call[w].at = "write"
  PROVE  call[w].row \in DOMAIN instances /\ Put(w) \in Config /\ w \in Actors
<1>1. w \in Actors
  BY DEF Actors
<1>2. call[w].row \in Nat /\ call[w].row >= 1 /\ call[w].row <= Len(instances)
  BY <1>1, BaseTypes, CallFields, OrgAssumption DEF Base, CallsInv, CallOK, Ids
<1> QED
  BY <1>1, <1>2, BaseTypes, FormFields DEF Put

LEMMA BaseWrite ==
  ASSUME Base, NEW w \in Windows, Write(w) PROVE Sound(w)
<1>1. call[w].at = "write" /\ UNCHANGED <<unique, providers, context, runs>> /\ writes' = writes + 1
      /\ instances' = [instances EXCEPT ![call[w].row].config = Put(w)] /\ call' = [call EXCEPT ![w] = Idle]
  BY DEF Write
<1>2. call[w].row \in DOMAIN instances /\ Put(w) \in Config /\ w \in Actors
  BY <1>1, WriteRow
<1>3. TablesInv' /\ Grows /\ SameProviders
  BY <1>1, <1>2, TablesWrite DEF Base
<1>4. Only(w) /\ call'[w] = Idle
  BY <1>1, <1>2, BaseTypes, IdleType, CallSet
<1>5. CallOK(w)'
  BY <1>3, <1>4, IdleType DEF CallOK, Grows
<1>6. CallsInv'
  BY <1>2, <1>3, <1>4, <1>5, CallsKept DEF Base
<1>7. FormsInv'
  <2>1. OnlyForm(w) /\ form'[w].base <= writes'
    BY <1>1, BaseTypes, WriteForm, ClosedType
  <2> QED
    BY <1>1, <2>1, BaseTypes, FormsKept DEF Base
<1> QED
  BY <1>3, <1>4, <1>6, <1>7 DEF Sound, Base

LEMMA BaseWriteFails ==
  ASSUME Base, NEW w \in Windows, WriteFails(w) PROVE Sound(w)
<1>1. call[w].at = "write" /\ UNCHANGED <<unique, providers, runs, context>> /\ Fail(w)
  BY DEF WriteFails, Fail
<1>2. call[w].row \in DOMAIN instances /\ Put(w) \in Config /\ w \in Actors
  BY <1>1, WriteRow
<1>3. \/ UNCHANGED <<instances, writes>>
      \/ instances' = [instances EXCEPT ![call[w].row].config = Put(w)] /\ writes' = writes + 1
  BY DEF WriteFails, trace
<1>4. TablesInv' /\ Grows /\ SameProviders
  <2>1. CASE UNCHANGED instances
    BY <1>1, <2>1, TablesStay DEF Base, tables
  <2>2. CASE instances' = [instances EXCEPT ![call[w].row].config = Put(w)]
    BY <1>1, <1>2, <2>2, TablesWrite DEF Base
  <2> QED
    BY <1>3, <2>1, <2>2
<1>5. writes' \in Nat /\ writes <= writes'
  BY <1>3, BaseTypes
<1> QED
  BY <1>1, <1>2, <1>4, <1>5, BaseFail

LEMMA BaseClose ==
  ASSUME Base, NEW w \in Windows, Close(w) PROVE Sound(w)
<1>1. form' = [form EXCEPT ![w] = Closed] /\ UNCHANGED <<tables, context, runs, call, writes>>
  BY DEF Close, trace
<1>2. OnlyForm(w) /\ form'[w] = Closed /\ Closed.base = 0
  BY <1>1, BaseTypes, ClosedType, FormSet
<1>3. TablesInv' /\ Grows /\ SameProviders
  BY <1>1, TablesStay DEF Base
<1>4. CallsInv'
  BY <1>1 DEF Base, CallsInv, CallOK, tables
<1>5. FormsInv'
  BY <1>1, <1>2, BaseTypes, FormsKept DEF Base
<1>6. Only(w)
  BY <1>1, BaseTypes DEF Only
<1> QED
  BY <1>3, <1>4, <1>5, <1>6 DEF Sound, Base

-----------------------------------------------------------------------------
(* The polls.                                                              *)

Early == {"provider", "addProvider", "instance", "addInstance", "start"}
Pending == {p \in Polls : call[p].at \in Early}

\* Every poll so far has opened at most one run.
PollsInv == /\ polls \in 0..MaxRuns
            /\ Len(runs) + Cardinality(Pending) <= polls

LEMMA PendingFinite ==
  ASSUME IsFiniteSet(Polls)
  PROVE  IsFiniteSet(Pending) /\ Cardinality(Pending) \in Nat
<1>1. Pending \subseteq Polls
  BY DEF Pending
<1>2. IsFiniteSet(Pending)
  BY <1>1, FS_Subset
<1> QED
  BY <1>2, FS_CardinalityType

\* A poll that is about to open a run has room for it.
LEMMA RoomForRun ==
  ASSUME IsFiniteSet(Polls), Base, PollsInv, NEW p \in Polls, call[p].at = "start"
  PROVE  /\ Len(runs) + 1 \in 0..MaxRuns /\ Cardinality(Pending \ {p}) = Cardinality(Pending) - 1
         /\ Cardinality(Pending) >= 1
<1>1. p \in Pending
  BY DEF Pending, Early
<1>2. Cardinality(Pending \ {p}) = Cardinality(Pending) - 1
  BY <1>1, PendingFinite, FS_RemoveElement
<1>3. Pending # {} /\ Cardinality(Pending) \in Nat
  BY <1>1, PendingFinite
<1>4. Cardinality(Pending) # 0
  BY <1>3, PendingFinite, FS_EmptySet
<1> QED
  BY <1>2, <1>3, <1>4, BaseTypes, OrgAssumption DEF PollsInv

LEMMA BaseBeginPoll ==
  ASSUME Base, NEW p \in Polls, BeginPoll(p)
  PROVE  Sound(p) /\ call'[p].at \in {"provider", "start"} /\ call[p].at = "idle"
<1>0. p \in Actors /\ p \notin Windows
  BY OrgAssumption DEF Actors
<1>1. UNCHANGED <<tables, context, runs, form, writes>> /\ call[p].at = "idle"
  BY DEF BeginPoll, trace
<1>2. TablesInv' /\ Grows /\ SameProviders
  BY <1>1, TablesStay DEF Base
<1>3. FormsInv'
  BY <1>1, FormsStay DEF Base
<1>4. CASE context = {}
  <2> DEFINE e == [Idle EXCEPT !.at = "provider", !.does = "run"]
  <2>1. e \in Calls /\ e.at = "provider" /\ e.does = "run" /\ e.provider = 0 /\ e.row = 0 /\ e.run = 0
    BY NewCall DEF Ats
  <2>2. call' = [call EXCEPT ![p] = e]
    BY <1>4 DEF BeginPoll
  <2> HIDE DEF e
  <2>3. Only(p) /\ call'[p] = e
    BY <1>0, <2>1, <2>2, BaseTypes, CallSet
  <2>4. CallOK(p)'
    BY <1>0, <1>2, <2>1, <2>3 DEF CallOK, Grows
  <2>5. CallsInv'
    BY <1>0, <1>2, <2>3, <2>4, CallsKept DEF Base
  <2> QED
    BY <1>1, <1>2, <1>3, <2>1, <2>3, <2>5 DEF Sound, Base
<1>5. CASE context # {}
  <2> DEFINE n == CHOOSE i \in context : TRUE
             e == [Idle EXCEPT !.at = "start", !.does = "run", !.row = n]
  <2>1. n \in DOMAIN instances
    BY <1>5 DEF Base, TablesInv
  <2>2. n \in Ids /\ n \in Nat /\ n >= 1 /\ n <= Len(instances)
    BY <2>1, BaseTypes, RowsType DEF Base
  <2>3. call' = [call EXCEPT ![p] = e]
    BY <1>5 DEF BeginPoll
  <2> HIDE DEF n
  <2>4. e \in Calls /\ e.at = "start" /\ e.does = "run" /\ e.provider = 0 /\ e.row = n /\ e.run = 0
    BY <2>2, IdleType DEF Calls
  <2> HIDE DEF e
  <2>5. Only(p) /\ call'[p] = e
    BY <1>0, <2>3, <2>4, BaseTypes, CallSet
  <2>6. CallOK(p)'
    <3>1. UNCHANGED instances
      BY <1>1 DEF tables
    <3> QED
      BY <1>0, <1>2, <2>2, <2>4, <2>5, <3>1 DEF CallOK, Grows
  <2>7. CallsInv'
    BY <1>0, <1>2, <2>5, <2>6, CallsKept DEF Base
  <2> QED
    BY <1>1, <1>2, <1>3, <2>4, <2>5, <2>7 DEF Sound, Base
<1> QED
  BY <1>4, <1>5

\* A poll that is past its run.
LEMMA BaseStartRun ==
  ASSUME Base, NEW p \in Polls, StartRun(p), Len(runs) + 1 \in 0..MaxRuns
  PROVE  /\ Sound(p) /\ call'[p].at = "ingest" /\ call[p].at = "start" /\ call'[p].run = Len(runs) + 1
         /\ Len(runs') = Len(runs) + 1 /\ \A i \in DOMAIN runs : runs'[i] = runs[i]
<1>0. p \in Actors /\ p \notin Windows
  BY OrgAssumption DEF Actors
<1>1. UNCHANGED <<tables, context, form, writes>> /\ call[p].at = "start" /\ runs' = Append(runs, "running")
      /\ call' = [call EXCEPT ![p].at = "ingest", ![p].run = Len(runs) + 1]
  BY DEF StartRun, trace
<1>2. /\ runs' \in Seq(RunStatus) /\ Len(runs') = Len(runs) + 1
      /\ \A i \in DOMAIN runs : runs'[i] = runs[i]
  <2>1. "running" \in RunStatus
    BY DEF RunStatus
  <2> QED
    BY <1>1, <2>1, BaseTypes
<1>3. TablesInv' /\ Grows /\ SameProviders
  BY <1>1, <1>2, BaseTypes, TablesRun DEF Base
<1>4. /\ Only(p) /\ call'[p].at = "ingest" /\ call'[p].does = call[p].does /\ SameProvider(p) /\ SameRow(p)
      /\ call'[p].run = Len(runs) + 1
  BY <1>0, <1>1, BaseTypes, StepToRun DEF Ats
<1>5. CallOK(p) /\ UNCHANGED <<providers, instances>>
  BY <1>0, <1>1 DEF Base, CallsInv, tables
<1>6. CallOK(p)'
  BY <1>0, <1>1, <1>2, <1>4, <1>5, BaseTypes DEF CallOK, SameProvider, SameRow
<1>7. CallsInv' /\ FormsInv'
  BY <1>0, <1>1, <1>3, <1>4, <1>6, CallsKept, FormsStay DEF Base
<1> QED
  BY <1>1, <1>2, <1>3, <1>4, <1>7 DEF Sound, Base

LEMMA BaseStartFails ==
  ASSUME Base, NEW p \in Polls, StartFails(p)
  PROVE  /\ Sound(p) /\ call'[p].at = "ingest" /\ call'[p].run = 0 /\ call[p].at = "start"
         /\ \/ UNCHANGED <<runs, orphans>>
            \/ /\ Len(runs') = Len(runs) + 1 /\ \A i \in DOMAIN runs : runs'[i] = runs[i]
               /\ orphans' = orphans \cup {Len(runs) + 1}
<1>0. p \in Actors /\ p \notin Windows
  BY OrgAssumption DEF Actors
<1>1. UNCHANGED <<tables, context, writes>> /\ call[p].at = "start" /\ Fail(p)
      /\ (UNCHANGED <<runs, orphans>> \/ (runs' = Append(runs, "running") /\ orphans' = orphans \cup {Len(runs) + 1}))
  BY DEF StartFails, trace, Fail
<1>2. /\ \/ UNCHANGED <<runs, orphans>>
         \/ /\ Len(runs') = Len(runs) + 1 /\ \A i \in DOMAIN runs : runs'[i] = runs[i]
            /\ orphans' = orphans \cup {Len(runs) + 1}
      /\ runs' \in Seq(RunStatus) /\ Len(runs) <= Len(runs')
  <2>1. "running" \in RunStatus /\ runs \in Seq(RunStatus)
    BY BaseTypes DEF RunStatus
  <2>2. CASE UNCHANGED <<runs, orphans>>
    BY <2>1, <2>2
  <2>3. CASE runs' = Append(runs, "running") /\ orphans' = orphans \cup {Len(runs) + 1}
    <3>1. /\ runs' \in Seq(RunStatus) /\ Len(runs') = Len(runs) + 1 /\ Len(runs) \in Nat
          /\ \A i \in DOMAIN runs : runs'[i] = runs[i]
      BY <2>1, <2>3
    <3> QED
      BY <2>3, <3>1
  <2> QED
    BY <1>1, <2>2, <2>3
<1>3. TablesInv' /\ Grows /\ SameProviders
  BY <1>1, <1>2, TablesRun DEF Base
<1>4. Sound(p)
  BY <1>0, <1>1, <1>3, BaseTypes, BaseFail
<1>5. call'[p].at = "ingest" /\ call'[p].run = 0
  BY <1>0, <1>1, BaseTypes, FailTo
<1> QED
  BY <1>1, <1>2, <1>4, <1>5

\* A poll ends: its call is over.
LEMMA BaseEnd ==
  ASSUME Base, NEW p \in Polls, call' = [call EXCEPT ![p] = Idle], UNCHANGED <<form, writes>>,
         TablesInv', Grows, SameProviders
  PROVE  Sound(p) /\ call'[p] = Idle
<1>0. p \in Actors /\ p \notin Windows
  BY OrgAssumption DEF Actors
<1>1. Only(p) /\ call'[p] = Idle
  BY <1>0, BaseTypes, IdleType, CallSet
<1>2. CallOK(p)'
  BY <1>1, IdleType DEF CallOK, Grows
<1>3. CallsInv' /\ FormsInv'
  BY <1>0, <1>1, <1>2, CallsKept, FormsStay DEF Base
<1> QED
  BY <1>1, <1>3 DEF Sound, Base

LEMMA BaseIngest ==
  ASSUME Base, NEW p \in Polls, Ingest(p)
  PROVE  /\ Sound(p) /\ call'[p].run = call[p].run /\ call[p].at = "ingest" /\ call'[p].at \notin Early
<1>0. p \in Actors /\ p \notin Windows
  BY OrgAssumption DEF Actors
<1>1. UNCHANGED <<tables, context, runs, form, writes>> /\ call[p].at = "ingest"
  BY DEF Ingest, trace
<1>2. TablesInv' /\ Grows /\ SameProviders
  BY <1>1, TablesStay DEF Base
<1>3. CASE call[p].run = 0
  <2>1. call' = [call EXCEPT ![p] = Idle]
    BY <1>3 DEF Ingest
  <2> QED
    BY <1>1, <1>2, <1>3, <2>1, BaseEnd, IdleType DEF Early
<1>4. CASE call[p].run # 0
  <2>1. Step(p, "finish")
    BY <1>4 DEF Ingest
  <2>2. Only(p) /\ call'[p].at = "finish" /\ SameRun(p) /\ SameProvider(p) /\ SameRow(p)
    BY <1>0, <2>1, BaseTypes, StepTo DEF Ats
  <2>3. CallOK(p) /\ UNCHANGED <<providers, instances, runs>> /\ call[p].run \in Nat
    BY <1>0, <1>1, BaseTypes, CallFields, OrgAssumption DEF Base, CallsInv, tables
  <2>4. CallOK(p)'
    BY <1>0, <1>1, <1>4, <2>2, <2>3 DEF CallOK, SameRun, SameProvider, SameRow
  <2>5. CallsInv' /\ FormsInv'
    BY <1>0, <1>1, <1>2, <2>2, <2>4, CallsKept, FormsStay DEF Base
  <2> QED
    BY <1>1, <1>2, <2>2, <2>5 DEF Sound, Base, SameRun, Early
<1> QED
  BY <1>3, <1>4

\* The run is one of the ledger's.
LEMMA RunOfFinish ==
  ASSUME Base, NEW p \in Polls, call[p].at = "finish"
  PROVE  call[p].run \in DOMAIN runs /\ p \in Actors
<1>1. p \in Actors
  BY DEF Actors
<1> QED
  BY <1>1, BaseTypes, CallFields, OrgAssumption DEF Base, CallsInv, CallOK

LEMMA BaseFinishRun ==
  ASSUME Base, NEW p \in Polls, FinishRun(p)
  PROVE  /\ Sound(p) /\ call'[p] = Idle /\ call[p].at = "finish" /\ Len(runs') = Len(runs)
         /\ runs'[call[p].run] # "running"
         /\ \A i \in DOMAIN runs : i # call[p].run => runs'[i] = runs[i]
<1>1. UNCHANGED <<tables, context, form, writes>> /\ call[p].at = "finish" /\ call' = [call EXCEPT ![p] = Idle]
  BY DEF FinishRun, trace
<1>2. PICK status \in {"success", "failed"} : runs' = [runs EXCEPT ![call[p].run] = status]
  BY DEF FinishRun
<1>3. /\ runs' \in Seq(RunStatus) /\ Len(runs') = Len(runs) /\ runs'[call[p].run] # "running"
      /\ \A i \in DOMAIN runs : i # call[p].run => runs'[i] = runs[i]
  <2>1. status \in RunStatus /\ status # "running"
    BY DEF RunStatus
  <2> DEFINE n == call[p].run
  <2>2. n \in 1..Len(runs) /\ runs \in Seq(RunStatus) /\ DOMAIN runs = 1..Len(runs)
    BY <1>1, BaseTypes, RunOfFinish
  <2>3. runs' = [runs EXCEPT ![n] = status]
    BY <1>2
  <2> HIDE DEF n
  <2>4. /\ runs' \in Seq(RunStatus) /\ Len(runs') = Len(runs) /\ runs'[n] = status
        /\ \A i \in DOMAIN runs : i # n => runs'[i] = runs[i]
    BY <2>1, <2>2, <2>3
  <2> QED
    BY <2>1, <2>4 DEF n
<1>4. TablesInv' /\ Grows /\ SameProviders
  BY <1>1, <1>3, BaseTypes, TablesRun DEF Base
<1> QED
  BY <1>1, <1>3, <1>4, BaseEnd

LEMMA BaseFinishFails ==
  ASSUME Base, NEW p \in Polls, FinishFails(p)
  PROVE  /\ Sound(p) /\ call'[p] = Idle /\ call[p].at = "finish" /\ UNCHANGED runs
         /\ orphans' = orphans \cup {call[p].run}
<1>1. UNCHANGED <<tables, context, runs, form, writes>> /\ call[p].at = "finish"
      /\ call' = [call EXCEPT ![p] = Idle] /\ orphans' = orphans \cup {call[p].run}
  BY DEF FinishFails, trace
<1>2. TablesInv' /\ Grows /\ SameProviders
  BY <1>1, TablesStay DEF Base
<1> QED
  BY <1>1, <1>2, BaseEnd

-----------------------------------------------------------------------------
(* Restarts, and all steps together.                                       *)

LEMMA RestartForm ==
  ASSUME Base, Restart
  PROVE  /\ form' \in [Windows -> Forms]
         /\ \A w \in Windows : form'[w] = form[w] \/ form'[w] = Closed
  BY BaseTypes, ClosedType DEF Restart

LEMMA BaseRestart ==
  ASSUME Base, Restart PROVE Base' /\ Grows /\ SameProviders /\ \A a \in Actors : call'[a] = Idle
<1>1. UNCHANGED <<tables, runs, writes>> /\ context' = {} /\ call' = [a \in Actors |-> Idle]
  BY DEF Restart, trace
<1>2. TablesInv' /\ Grows /\ SameProviders
  BY <1>1, TablesStay DEF Base
<1>3. CallsInv'
  BY <1>1, <1>2, IdleType DEF CallsInv, CallOK, Grows
<1>4. FormsInv'
  BY <1>1, BaseTypes, RestartForm, ClosedType DEF Base, FormsInv
<1> QED
  BY <1>1, <1>2, <1>3, <1>4 DEF Base

LEMMA BaseStill ==
  ASSUME Base, UNCHANGED orgVars PROVE Base' /\ Grows /\ SameProviders
<1>1. UNCHANGED <<tables, context, runs, call, form, writes>>
  BY DEF orgVars, trace
<1>2. TablesInv' /\ Grows /\ SameProviders
  BY <1>1, TablesStay DEF Base
<1> QED
  BY <1>1, <1>2 DEF Base, CallsInv, CallOK, FormsInv, tables

LEMMA BaseInit == OrgInit => Base
<1> SUFFICES ASSUME OrgInit PROVE Base
  OBVIOUS
<1>1. TablesInv
  BY OrgAssumption DEF OrgInit, TablesInv, Ids
<1>2. CallsInv
  <2>1. Len(runs) = 0 /\ Len(instances) = 0
    BY DEF OrgInit
  <2> QED
    BY <2>1, IdleType DEF OrgInit, CallsInv, CallOK
<1>3. FormsInv
  BY ClosedType DEF OrgInit, FormsInv
<1> QED
  BY <1>1, <1>2, <1>3 DEF Base

-----------------------------------------------------------------------------
(* Counters and runs.                                                      *)

CountsInv == saves \in 0..MaxSaves /\ trips \in 0..MaxTrips /\ PollsInv

RunsInv == orphans \subseteq DOMAIN runs /\ RunsClosed

LEMMA PollsKept ==
  ASSUME IsFiniteSet(Polls), Base, PollsInv, Base', Len(runs') = Len(runs), UNCHANGED polls, Pending' \subseteq Pending
  PROVE  PollsInv'
<1>1. Cardinality(Pending') <= Cardinality(Pending)
  BY PendingFinite, FS_Subset
<1>2. Cardinality(Pending') \in Nat /\ Cardinality(Pending) \in Nat
  BY PendingFinite, FS_Subset, FS_CardinalityType
<1> QED
  BY <1>1, <1>2, BaseTypes DEF PollsInv

LEMMA RunsKept ==
  ASSUME Base, RunsInv, UNCHANGED <<runs, orphans>>,
         \A p \in Polls : call'[p].run = call[p].run \/ call[p].run = 0
  PROVE  RunsInv'
<1>1. ASSUME NEW i \in DOMAIN runs, runs[i] = "running"
      PROVE  i \in orphans \/ \E p \in Polls : call'[p].run = i
  <2>1. CASE i \in orphans
    BY <2>1
  <2>2. CASE \E p \in Polls : call[p].run = i
    <3>1. PICK p \in Polls : call[p].run = i
      BY <2>2
    <3>2. i # 0
      BY BaseTypes
    <3> QED
      BY <3>1, <3>2
  <2> QED
    BY <1>1, <2>1, <2>2 DEF RunsInv, RunsClosed
<1> QED
  BY <1>1 DEF RunsInv, RunsClosed

\* A step of a window, or of a poll before its run.
LEMMA PollsElsewhere ==
  ASSUME IsFiniteSet(Polls), Base, PollsInv, RunsInv, NEW a \in Actors, Sound(a),
         a \in Polls => call[a].at \in Early, UNCHANGED <<runs, polls, orphans>>
  PROVE  PollsInv' /\ RunsInv'
<1>1. Pending' \subseteq Pending
  <2>1. ASSUME NEW p \in Polls, call'[p].at \in Early PROVE call[p].at \in Early
    <3>1. p \in Actors
      BY DEF Actors
    <3> QED
      BY <2>1, <3>1 DEF Sound, Only
  <2> QED
    BY <2>1 DEF Pending
<1>2. PollsInv'
  BY <1>1, PollsKept DEF Sound
<1>3. ASSUME NEW p \in Polls PROVE call'[p].run = call[p].run \/ call[p].run = 0
  <2>1. p \in Actors
    BY DEF Actors
  <2>2. CASE p = a
    BY <2>1, <2>2 DEF Base, CallsInv, CallOK, Early
  <2>3. CASE p # a
    BY <2>1, <2>3 DEF Sound, Only
  <2> QED
    BY <2>2, <2>3
<1>4. RunsInv'
  BY <1>3, RunsKept
<1> QED
  BY <1>2, <1>4

\* What a look-up or insert leaves alone.
LEMMA FindFrame ==
  ASSUME NEW a \in Actors, Find(a), trips \in 0..MaxTrips
  PROVE  /\ call[a].at \in {"provider", "addProvider", "instance", "addInstance"}
         /\ UNCHANGED <<unique, runs, saves, polls, trace, orphans>> /\ trips' \in 0..MaxTrips
<1>1. CASE FindProvider(a) \/ FindInstance(a)
  BY <1>1 DEF FindProvider, FindInstance, tables, counters
<1>2. CASE LookupFails(a)
  BY <1>2, OrgAssumption DEF LookupFails, tables
<1>3. CASE AddProvider(a) \/ AddInstance(a)
  BY <1>3 DEF AddProvider, AddInstance, counters
<1>4. CASE AddFails(a)
  BY <1>4, OrgAssumption DEF AddFails
<1> QED
  BY <1>1, <1>2, <1>3, <1>4 DEF Find

LEMMA EditFrame ==
  ASSUME Base, NEW w \in Windows, Edit(w), trips \in 0..MaxTrips, saves \in 0..MaxSaves
  PROVE  /\ UNCHANGED <<unique, providers, context, runs, polls, doubled, orphans>>
         /\ trips' \in 0..MaxTrips /\ saves' \in 0..MaxSaves
<1>1. ASSUME NEW of \in {"settings"} \cup Mappings, Open(w, of)
      PROVE  UNCHANGED <<tables, context, runs, counters, doubled, orphans>>
  BY <1>1 DEF Open
<1>2. ASSUME NEW part \in Parts, Save(w, part)
      PROVE  UNCHANGED <<tables, context, runs, polls, trips, doubled, orphans>> /\ saves' \in 0..MaxSaves
  <2>1. UNCHANGED <<doubled, orphans>>
    BY <1>2 DEF Save
  <2> QED
    BY <1>2, <2>1, SaveForm
<1>3. CASE Write(w)
  BY <1>3 DEF Write, counters
<1>4. CASE WriteFails(w)
  BY <1>4, OrgAssumption DEF WriteFails, Fail
<1>5. CASE Close(w)
  BY <1>5 DEF Close, counters, tables
<1> QED
  BY <1>1, <1>2, <1>3, <1>4, <1>5 DEF Edit, tables, counters

LEMMA PollFrame ==
  ASSUME NEW p \in Polls, Poll(p), trips \in 0..MaxTrips
  PROVE  UNCHANGED <<tables, saves, trace, doubled>> /\ trips' \in 0..MaxTrips
  BY OrgAssumption DEF Poll, BeginPoll, StartRun, StartFails, Ingest, FinishRun, FinishFails, counters

LEMMA BaseEdit ==
  ASSUME Base, saves \in 0..MaxSaves, NEW w \in Windows, Edit(w) PROVE Sound(w)
  BY BaseOpen, BaseSave, BaseWrite, BaseWriteFails, BaseClose DEF Edit

\* A poll's own steps.
LEMMA PollStep ==
  ASSUME IsFiniteSet(Polls), Base, PollsInv, RunsInv, NEW p \in Polls, Poll(p)
  PROVE  Sound(p) /\ PollsInv' /\ RunsInv'
<1>0. p \in Actors
  BY DEF Actors
<1>1. IsFiniteSet(Pending) /\ Cardinality(Pending) \in Nat /\ polls \in Nat /\ Len(runs) \in Nat
  BY PendingFinite, BaseTypes, OrgAssumption DEF PollsInv
<1>2. ASSUME Sound(p), call'[p].at \notin Early PROVE Pending' = Pending \ {p}
  <2>1. ASSUME NEW q \in Polls, q # p PROVE call'[q].at = call[q].at
    <3>1. q \in Actors
      BY DEF Actors
    <3> QED
      BY <1>2, <2>1, <3>1 DEF Sound, Only
  <2> QED
    BY <1>2, <2>1 DEF Pending
<1>3. ASSUME Sound(p), NEW q \in Polls, q # p PROVE call'[q].run = call[q].run
  <2>1. q \in Actors
    BY DEF Actors
  <2> QED
    BY <1>3, <2>1 DEF Sound, Only
<1>4. CASE BeginPoll(p)
  <2>1. Sound(p) /\ call'[p].at \in Early /\ call[p].at = "idle"
    BY <1>4, BaseBeginPoll DEF Early
  <2>2. p \notin Pending
    BY <2>1 DEF Pending, Early
  <2>3. Pending' = Pending \cup {p}
    <3>1. ASSUME NEW q \in Polls, q # p PROVE call'[q].at = call[q].at
      <4>1. q \in Actors
        BY DEF Actors
      <4> QED
        BY <2>1, <3>1, <4>1 DEF Sound, Only
    <3> QED
      BY <2>1, <3>1 DEF Pending
  <2>4. Cardinality(Pending \cup {p}) = Cardinality(Pending) + 1
    BY <1>1, <2>2, FS_AddElement
  <2>5. UNCHANGED <<runs, orphans>> /\ polls < MaxRuns /\ polls' = polls + 1
    BY <1>4 DEF BeginPoll
  <2>6. PollsInv'
    BY <1>1, <2>3, <2>4, <2>5, OrgAssumption DEF PollsInv
  <2>7. call[p].run = 0
    BY <1>0, <2>1 DEF Base, CallsInv, CallOK
  <2>8. RunsInv'
    BY <1>3, <2>1, <2>5, <2>7, RunsKept
  <2> QED
    BY <2>1, <2>6, <2>8
<1>5. CASE StartRun(p)
  <2>1. call[p].at = "start" /\ UNCHANGED <<polls, orphans>> /\ runs' = Append(runs, "running")
    BY <1>5 DEF StartRun, counters
  <2>2. /\ Len(runs) + 1 \in 0..MaxRuns /\ Cardinality(Pending \ {p}) = Cardinality(Pending) - 1
    BY <2>1, RoomForRun
  <2>3. /\ Sound(p) /\ call'[p].at = "ingest" /\ call'[p].run = Len(runs) + 1
        /\ Len(runs') = Len(runs) + 1 /\ \A i \in DOMAIN runs : runs'[i] = runs[i]
    BY <1>5, <2>2, BaseStartRun
  <2>4. PollsInv'
    <3>1. Pending' = Pending \ {p}
      BY <1>2, <2>3 DEF Early
    <3>2. polls' = polls /\ Len(runs') = Len(runs) + 1 /\ Cardinality(Pending') = Cardinality(Pending) - 1
      BY <2>1, <2>2, <2>3, <3>1
    <3> QED
      BY <1>1, <3>2 DEF PollsInv
  <2>5. call[p].run = 0
    BY <1>0, <2>1 DEF Base, CallsInv, CallOK
  <2>6. DOMAIN runs' = 1..(Len(runs) + 1) /\ DOMAIN runs = 1..Len(runs)
    BY <2>1, BaseTypes
  <2>7. ASSUME NEW i \in DOMAIN runs', runs'[i] = "running"
        PROVE  i \in orphans \/ \E q \in Polls : call'[q].run = i
    <3>1. CASE i = Len(runs) + 1
      BY <2>3, <3>1
    <3>2. CASE i \in DOMAIN runs
      <4>1. i \in orphans \/ \E q \in Polls : call[q].run = i
        BY <2>3, <2>7, <3>2 DEF RunsInv, RunsClosed
      <4>2. i # 0
        BY <2>6, <3>2
      <4> QED
        BY <1>3, <2>3, <2>5, <4>1, <4>2
    <3> QED
      BY <1>1, <2>6, <3>1, <3>2
  <2>8. RunsInv'
    BY <1>1, <2>1, <2>6, <2>7 DEF RunsInv, RunsClosed
  <2> QED
    BY <2>3, <2>4, <2>8
<1>6. CASE StartFails(p)
  <2>1. /\ Sound(p) /\ call'[p].at = "ingest" /\ call'[p].run = 0 /\ call[p].at = "start"
        /\ \/ UNCHANGED <<runs, orphans>>
           \/ /\ Len(runs') = Len(runs) + 1 /\ \A i \in DOMAIN runs : runs'[i] = runs[i]
              /\ orphans' = orphans \cup {Len(runs) + 1}
    BY <1>6, BaseStartFails
  <2>2. Cardinality(Pending \ {p}) = Cardinality(Pending) - 1 /\ UNCHANGED polls
    BY <1>6, <2>1, RoomForRun DEF StartFails
  <2>3. PollsInv'
    <3>1. Pending' = Pending \ {p}
      BY <1>2, <2>1 DEF Early
    <3>2. polls' = polls /\ Cardinality(Pending') = Cardinality(Pending) - 1
      BY <2>2, <3>1
    <3>3. Len(runs') = Len(runs) \/ Len(runs') = Len(runs) + 1
      BY <2>1
    <3> QED
      BY <1>1, <3>2, <3>3 DEF PollsInv
  <2>4. call[p].run = 0
    BY <1>0, <2>1 DEF Base, CallsInv, CallOK
  <2>5. RunsInv'
    <3>1. CASE UNCHANGED <<runs, orphans>>
      BY <1>3, <2>1, <2>4, <3>1, RunsKept
    <3>2. CASE /\ Len(runs') = Len(runs) + 1 /\ \A i \in DOMAIN runs : runs'[i] = runs[i]
               /\ orphans' = orphans \cup {Len(runs) + 1}
      <4>1. DOMAIN runs' = 1..(Len(runs) + 1) /\ DOMAIN runs = 1..Len(runs)
        BY <2>1, <3>2, BaseTypes DEF Sound, Base, TablesInv
      <4>2. ASSUME NEW i \in DOMAIN runs', runs'[i] = "running", i # Len(runs) + 1
            PROVE  i \in orphans' \/ \E q \in Polls : call'[q].run = i
        <5>1. i \in DOMAIN runs /\ i # 0
          BY <1>1, <4>1, <4>2
        <5>2. i \in orphans \/ \E q \in Polls : call[q].run = i
          BY <3>2, <4>2, <5>1 DEF RunsInv, RunsClosed
        <5> QED
          BY <1>3, <2>1, <2>4, <3>2, <5>1, <5>2
      <4>3. orphans' \subseteq DOMAIN runs'
        BY <1>1, <3>2, <4>1 DEF RunsInv
      <4> QED
        BY <3>2, <4>2, <4>3 DEF RunsInv, RunsClosed
    <3> QED
      BY <2>1, <3>1, <3>2
  <2> QED
    BY <2>1, <2>3, <2>5
<1>7. CASE Ingest(p)
  <2>1. Sound(p) /\ call'[p].run = call[p].run /\ call'[p].at \notin Early /\ UNCHANGED <<runs, polls, orphans>>
    BY <1>7, BaseIngest DEF Ingest, counters
  <2>2. PollsInv' /\ RunsInv'
    BY <1>2, <1>3, <2>1, PollsKept, RunsKept DEF Sound
  <2> QED
    BY <2>1, <2>2
<1>8. CASE FinishRun(p)
  <2>1. /\ Sound(p) /\ call'[p] = Idle /\ call[p].at = "finish" /\ Len(runs') = Len(runs)
        /\ runs'[call[p].run] # "running"
        /\ \A i \in DOMAIN runs : i # call[p].run => runs'[i] = runs[i]
    BY <1>8, BaseFinishRun
  <2>2. UNCHANGED <<polls, orphans>>
    BY <1>8 DEF FinishRun, counters
  <2>3. PollsInv'
    BY <1>2, <2>1, <2>2, IdleType, PollsKept DEF Sound, Early
  <2>4. DOMAIN runs' = DOMAIN runs
    BY <2>1, BaseTypes DEF Sound, Base, TablesInv
  <2>5. ASSUME NEW i \in DOMAIN runs, runs'[i] = "running"
        PROVE  i \in orphans \/ \E q \in Polls : call'[q].run = i
    <3>1. i # call[p].run /\ runs[i] = "running"
      BY <2>1, <2>5
    <3> QED
      BY <1>3, <2>1, <3>1 DEF RunsInv, RunsClosed
  <2> QED
    BY <2>1, <2>2, <2>3, <2>4, <2>5 DEF RunsInv, RunsClosed
<1>9. CASE FinishFails(p)
  <2>1. /\ Sound(p) /\ call'[p] = Idle /\ call[p].at = "finish" /\ UNCHANGED runs
        /\ orphans' = orphans \cup {call[p].run}
    BY <1>9, BaseFinishFails
  <2>2. UNCHANGED polls
    BY <1>9 DEF FinishFails
  <2>3. PollsInv'
    BY <1>2, <2>1, <2>2, IdleType, PollsKept DEF Sound, Early
  <2>4. call[p].run \in DOMAIN runs
    BY <2>1, RunOfFinish
  <2>5. ASSUME NEW i \in DOMAIN runs, runs[i] = "running"
        PROVE  i \in orphans' \/ \E q \in Polls : call'[q].run = i
    BY <1>3, <2>1, <2>5 DEF RunsInv, RunsClosed
  <2> QED
    BY <2>1, <2>3, <2>4, <2>5 DEF RunsInv, RunsClosed
<1> QED
  BY <1>4, <1>5, <1>6, <1>7, <1>8, <1>9 DEF Poll

-----------------------------------------------------------------------------
(* One provider, one row.  Whoever is about to insert one has looked and    *)
(* found none, unless two were about to insert together or a look-up failed. *)

One == providers <= 1 /\ Len(instances) <= 1

Looked(x) == /\ call[x].at = "addProvider" => providers = 0
             /\ call[x].at = "addInstance" => Len(instances) = 0

SingleInv == /\ unique \/ ~doubled => One
             /\ ~doubled => \A x \in Actors : Looked(x)

\* A step that inserts nothing.
LEMMA SingleKept ==
  ASSUME SingleInv, NEW a \in Actors, Only(a), UNCHANGED <<unique, providers>>, Len(instances') = Len(instances),
         doubled => doubled', ~doubled' => Looked(a)'
  PROVE  SingleInv'
<1>1. ASSUME ~doubled', NEW b \in Actors, b # a PROVE Looked(b)'
  BY <1>1 DEF SingleInv, Looked, Only
<1> QED
  BY <1>1 DEF SingleInv, One

\* Where a failed call, a row found or a new call leads, nothing is inserted.
LEMMA LookedFail ==
  ASSUME Base, NEW a \in Actors, Fail(a) PROVE Only(a) /\ Looked(a)'
<1>1. Only(a) /\ (a \in Windows \/ a \in Polls) /\ call'[a].at \in {"idle", "ingest"}
  BY BaseTypes, FailTo, IdleType, ActorKinds
<1> QED
  BY <1>1 DEF Looked

LEMMA LookedReady ==
  ASSUME Base, NEW a \in Actors, NEW i \in Ids, NEW config, Ready(a, i, config) PROVE Only(a) /\ Looked(a)'
<1>1. Only(a) /\ call'[a].at \in {"idle", "provider", "write", "start"}
  BY BaseTypes, ReadyTo, IdleType
<1> QED
  BY <1>1 DEF Looked

\* The only row belongs to the only provider.
LEMMA OneRow ==
  ASSUME Base, One, NEW p \in 1..providers
  PROVE  /\ p = 1 /\ providers = 1
         /\ RowsOf(p) = {} => Len(instances) = 0
         /\ \A i \in RowsOf(p) : i = 1 /\ Len(instances) = 1 /\ RowsOf(p) = {1}
         /\ ~(Cardinality(RowsOf(p)) > 1)
<1>1. providers \in Nat /\ Len(instances) \in Nat /\ DOMAIN instances = 1..Len(instances)
      /\ \A i \in DOMAIN instances : instances[i].provider \in 1..providers
  BY BaseTypes DEF Base, TablesInv
<1>2. p = 1 /\ providers = 1
  BY <1>1 DEF One
<1>3. CASE Len(instances) = 0
  <2>1. RowsOf(p) = {}
    BY <1>1, <1>3 DEF RowsOf
  <2> QED
    BY <1>2, <1>3, <2>1, FS_EmptySet
<1>4. CASE Len(instances) = 1
  <2>1. DOMAIN instances = {1}
    BY <1>1, <1>4
  <2>2. RowsOf(p) = {1}
    <3>1. instances[1].provider \in 1..1
      BY <1>1, <1>2, <2>1
    <3> QED
      BY <1>2, <2>1, <3>1 DEF RowsOf
  <2>3. Cardinality({1}) = 1
    BY FS_Singleton
  <2> QED
    BY <1>2, <1>4, <2>2, <2>3
<1> QED
  BY <1>1, <1>3, <1>4 DEF One

LEMMA SingleFind ==
  ASSUME Base, SingleInv, doubled \in BOOLEAN, NEW a \in Actors, Find(a) PROVE SingleInv'
<1>0. call \in [Actors -> Calls] /\ providers \in Nat /\ Len(instances) \in Nat
  BY BaseTypes
<1>1. CASE FindProvider(a)
  <2>1. UNCHANGED <<unique, providers, instances, doubled>> /\ call[a].at = "provider"
    BY <1>1 DEF FindProvider, tables
  <2>2. CASE call' = [call EXCEPT ![a].at = "instance", ![a].provider = 1] /\ providers = 1
    <3>1. Only(a) /\ call'[a].at = "instance"
      BY <1>0, <2>2, BaseTypes, StepToProvider DEF Ats
    <3> QED
      BY <2>1, <3>1, SingleKept DEF Looked
  <2>3. CASE Step(a, "addProvider") /\ (providers = 0 \/ providers > 1)
    <3>1. Only(a) /\ call'[a].at = "addProvider"
      BY <1>0, <2>3, StepTo DEF Ats
    <3>2. ~doubled' => providers' = 0
      BY <1>0, <2>1, <2>3 DEF SingleInv, One
    <3> QED
      BY <2>1, <3>1, <3>2, SingleKept DEF Looked
  <2>4. CASE Fail(a)
    BY <2>1, <2>4, LookedFail, SingleKept
  <2> QED
    BY <1>1, <2>2, <2>3, <2>4 DEF FindProvider
<1>2. CASE FindInstance(a)
  <2>1. UNCHANGED <<unique, providers, instances, doubled>> /\ call[a].at = "instance"
    BY <1>2 DEF FindInstance, tables
  <2>2. CASE \E i \in RowsOf(call[a].provider) : Ready(a, i, instances[i].config)
    <3>1. PICK i \in RowsOf(call[a].provider) : Ready(a, i, instances[i].config)
      BY <2>2
    <3>2. i \in Ids
      BY RowsType DEF RowsOf, Base
    <3> QED
      BY <2>1, <3>1, <3>2, LookedReady, SingleKept
  <2>3. CASE Step(a, "addInstance")
             /\ (RowsOf(call[a].provider) = {} \/ Cardinality(RowsOf(call[a].provider)) > 1)
    <3>1. Only(a) /\ call'[a].at = "addInstance"
      BY <1>0, <2>3, StepTo DEF Ats
    <3>2. call[a].provider \in 1..providers
      BY <1>0, <2>1, CallFields, OrgAssumption DEF Base, CallsInv, CallOK, Ids
    <3>3. ~doubled' => Len(instances') = 0
      BY <2>1, <2>3, <3>2, OneRow DEF SingleInv
    <3> QED
      BY <2>1, <3>1, <3>3, SingleKept DEF Looked
  <2>4. CASE Fail(a)
    BY <2>1, <2>4, LookedFail, SingleKept
  <2> QED
    BY <1>2, <2>2, <2>3, <2>4 DEF FindInstance
<1>3. CASE LookupFails(a)
  <2>1. UNCHANGED <<unique, providers, instances>>
    BY <1>3 DEF LookupFails, tables
  <2>2. CASE Fail(a) /\ UNCHANGED doubled
    BY <2>1, <2>2, LookedFail, SingleKept
  <2>3. CASE Step(a, IF call[a].at = "provider" THEN "addProvider" ELSE "addInstance") /\ doubled' = TRUE
    <3>1. Only(a)
      BY <1>0, <2>3, StepTo DEF Ats
    <3> QED
      BY <2>1, <2>3, <3>1, SingleKept
  <2> QED
    BY <1>3, <2>2, <2>3 DEF LookupFails
<1>4. ASSUME AddProvider(a) \/ AddFails(a), call[a].at = "addProvider", providers' = providers + 1,
             ~(unique /\ providers > 0), doubled' = (doubled \/ Another(a)), UNCHANGED <<unique, instances>>,
             Only(a), call'[a].at \notin {"addProvider", "addInstance"}
      PROVE  SingleInv'
  <2>1. unique => One'
    BY <1>0, <1>4 DEF SingleInv, One
  <2>2. ASSUME ~doubled' PROVE One' /\ \A x \in Actors : Looked(x)'
    <3>1. ~doubled /\ ~Another(a) /\ providers = 0
      BY <1>4, <2>2 DEF SingleInv, Looked
    <3>2. \A b \in Actors : b # a => call'[b] = call[b] /\ call[b].at # "addProvider"
      BY <1>4, <3>1 DEF Another, Only
    <3>3. One'
      BY <1>4, <3>1 DEF SingleInv, One
    <3> QED
      BY <1>4, <3>1, <3>2, <3>3 DEF SingleInv, Looked
  <2> QED
    BY <1>4, <2>1, <2>2 DEF SingleInv
<1>5. ASSUME AddInstance(a) \/ AddFails(a), call[a].at = "addInstance", Len(instances') = Len(instances) + 1,
             ~(unique /\ RowsOf(call[a].provider) # {}), doubled' = (doubled \/ Another(a)),
             UNCHANGED <<unique, providers>>, Only(a), call'[a].at \notin {"addProvider", "addInstance"}
      PROVE  SingleInv'
  <2>0. call[a].provider \in 1..providers
    BY <1>0, <1>5, CallFields, OrgAssumption DEF Base, CallsInv, CallOK, Ids
  <2>1. unique => One'
    BY <1>0, <1>5, <2>0, OneRow DEF SingleInv, One
  <2>2. ASSUME ~doubled' PROVE One' /\ \A x \in Actors : Looked(x)'
    <3>1. ~doubled /\ ~Another(a) /\ Len(instances) = 0
      BY <1>5, <2>2 DEF SingleInv, Looked
    <3>2. \A b \in Actors : b # a => call'[b] = call[b] /\ call[b].at # "addInstance"
      BY <1>5, <3>1 DEF Another, Only
    <3>3. One'
      BY <1>5, <3>1 DEF SingleInv, One
    <3> QED
      BY <1>5, <3>1, <3>2, <3>3 DEF SingleInv, Looked
  <2> QED
    BY <1>5, <2>1, <2>2 DEF SingleInv
<1>6. CASE AddProvider(a)
  <2>1. call[a].at = "addProvider" /\ UNCHANGED <<unique, instances>>
    BY <1>6 DEF AddProvider
  <2>2. CASE Fail(a) /\ UNCHANGED <<providers, doubled>>
    BY <2>1, <2>2, LookedFail, SingleKept
  <2>3. CASE /\ ~(unique /\ providers > 0) /\ providers < MaxRows /\ providers' = providers + 1
             /\ call' = [call EXCEPT ![a].at = "instance", ![a].provider = providers + 1]
             /\ doubled' = (doubled \/ Another(a))
    <3>1. providers + 1 \in Ids
      BY <1>0, <2>3, OrgAssumption DEF Ids
    <3>2. Only(a) /\ call'[a].at = "instance"
      BY <1>0, <2>3, <3>1, StepToProvider DEF Ats
    <3> QED
      BY <1>4, <1>6, <2>1, <2>3, <3>2
  <2> QED
    BY <1>6, <2>2, <2>3 DEF AddProvider
<1>7. CASE AddInstance(a)
  <2>1. call[a].at = "addInstance" /\ UNCHANGED <<unique, providers>>
    BY <1>7 DEF AddInstance
  <2>2. CASE Fail(a) /\ UNCHANGED <<instances, doubled>>
    BY <2>1, <2>2, LookedFail, SingleKept
  <2>3. CASE /\ ~(unique /\ RowsOf(call[a].provider) # {}) /\ Len(instances) < MaxRows
             /\ instances' = Append(instances, [provider |-> call[a].provider, config |-> Empty])
             /\ Ready(a, Len(instances) + 1, Empty) /\ doubled' = (doubled \/ Another(a))
    <3>1. Len(instances) + 1 \in Ids /\ Len(instances') = Len(instances) + 1
      BY <1>0, <2>3, BaseTypes, OrgAssumption DEF Ids
    <3>2. Only(a) /\ call'[a].at \in {"idle", "provider", "write", "start"}
      BY <1>0, <2>3, <3>1, ReadyTo, IdleType
    <3> QED
      BY <1>5, <1>7, <2>1, <2>3, <3>1, <3>2
  <2> QED
    BY <1>7, <2>2, <2>3 DEF AddInstance
<1>8. CASE AddFails(a)
  <2>1. UNCHANGED unique /\ Fail(a) /\ doubled' = (doubled \/ Another(a))
    BY <1>8 DEF AddFails
  <2>2. Only(a) /\ call'[a].at \in {"idle", "ingest"} /\ Looked(a)'
    BY <1>0, <2>1, FailTo, IdleType, ActorKinds, LookedFail
  <2>3. CASE UNCHANGED <<providers, instances>>
    BY <2>1, <2>2, <2>3, SingleKept
  <2>4. CASE /\ call[a].at = "addProvider" /\ UNCHANGED instances
             /\ ~(unique /\ providers > 0) /\ providers' = providers + 1
    BY <1>4, <1>8, <2>1, <2>2, <2>4
  <2>5. CASE /\ call[a].at = "addInstance" /\ UNCHANGED providers /\ ~(unique /\ RowsOf(call[a].provider) # {})
             /\ instances' = Append(instances, [provider |-> call[a].provider, config |-> Empty])
    <3>1. Len(instances') = Len(instances) + 1
      BY <2>5, BaseTypes
    <3> QED
      BY <1>5, <1>8, <2>1, <2>2, <2>5, <3>1
  <2> QED
    BY <1>8, <2>3, <2>4, <2>5 DEF AddFails
<1> QED
  BY <1>1, <1>2, <1>3, <1>6, <1>7, <1>8 DEF Find

\* What a window edits, and a poll, inserts nothing.
LEMMA SingleElse ==
  ASSUME Base, SingleInv, NEW a \in Actors, Sound(a), UNCHANGED <<unique, providers, doubled>>,
         Len(instances') = Len(instances), call'[a].at \notin {"addProvider", "addInstance"}
  PROVE  SingleInv'
  BY SingleKept DEF Sound, Looked

LEMMA SingleEdit ==
  ASSUME Base, SingleInv, NEW w \in Windows, saves \in 0..MaxSaves, Edit(w) PROVE SingleInv'
<1>0. w \in Actors /\ Sound(w) /\ call \in [Actors -> Calls]
  BY BaseEdit, BaseTypes DEF Actors
<1>1. ASSUME NEW of \in {"settings"} \cup Mappings, Open(w, of) PROVE SingleInv'
  <2>1. Begin(w, "load") /\ UNCHANGED <<unique, providers, instances, doubled>>
    BY <1>1 DEF Open, tables
  <2>2. call'[w].at = "provider"
    BY <1>0, <2>1, BeginTo
  <2> QED
    BY <1>0, <2>1, <2>2, SingleElse
<1>2. ASSUME NEW part \in Parts, Save(w, part) PROVE SingleInv'
  <2>1. Begin(w, IF form[w].of = "settings" THEN "current" ELSE "put")
        /\ UNCHANGED <<unique, providers, instances, doubled>>
    BY <1>2 DEF Save, tables
  <2>2. call'[w].at = "provider"
    BY <1>0, <2>1, BeginTo
  <2> QED
    BY <1>0, <2>1, <2>2, SingleElse
<1>3. CASE Write(w)
  <2>1. /\ instances' = [instances EXCEPT ![call[w].row].config = Put(w)] /\ call' = [call EXCEPT ![w] = Idle]
        /\ UNCHANGED <<unique, providers, doubled>> /\ call[w].at = "write"
    BY <1>3 DEF Write
  <2>2. Len(instances') = Len(instances)
    BY <2>1, WriteRow, RowWritten DEF Base
  <2>3. call'[w] = Idle
    BY <1>0, <2>1
  <2> QED
    BY <1>0, <2>1, <2>2, <2>3, IdleType, SingleElse
<1>4. CASE WriteFails(w)
  <2>1. /\ UNCHANGED instances \/ instances' = [instances EXCEPT ![call[w].row].config = Put(w)]
        /\ Fail(w) /\ UNCHANGED <<unique, providers, doubled>> /\ call[w].at = "write"
    BY <1>4 DEF WriteFails
  <2>2. Len(instances') = Len(instances)
    BY <2>1, WriteRow, RowWritten DEF Base
  <2> QED
    BY <1>0, <2>1, <2>2, LookedFail, SingleKept
<1>5. CASE Close(w)
  <2>1. UNCHANGED <<unique, providers, instances, call, doubled>>
    BY <1>5 DEF Close, tables
  <2> QED
    BY <2>1 DEF SingleInv, One, Looked
<1> QED
  BY <1>1, <1>2, <1>3, <1>4, <1>5 DEF Edit

LEMMA SinglePoll ==
  ASSUME IsFiniteSet(Polls), Base, SingleInv, CountsInv, RunsInv, NEW p \in Polls, Poll(p) PROVE SingleInv'
<1>0. p \in Actors /\ Sound(p) /\ call \in [Actors -> Calls]
  BY PollStep, BaseTypes DEF Actors, CountsInv
<1>1. UNCHANGED <<unique, providers, instances, doubled>>
  BY PollFrame DEF CountsInv, tables
<1>2. call'[p].at \notin {"addProvider", "addInstance"}
  <2>1. CASE BeginPoll(p)
    BY <2>1, BaseBeginPoll
  <2>2. CASE StartRun(p)
    BY <1>0, <2>2, RoomForRun, BaseStartRun DEF StartRun, CountsInv
  <2>3. CASE StartFails(p)
    BY <1>0, <2>3, BaseStartFails
  <2>4. CASE Ingest(p)
    <3>1. CASE call' = [call EXCEPT ![p] = Idle]
      BY <1>0, <3>1, IdleType
    <3>2. CASE Step(p, "finish")
      BY <1>0, <3>2, StepTo DEF Ats
    <3> QED
      BY <2>4, <3>1, <3>2 DEF Ingest
  <2>5. CASE FinishRun(p) \/ FinishFails(p)
    BY <1>0, <2>5, IdleType DEF FinishRun, FinishFails
  <2> QED
    BY <2>1, <2>2, <2>3, <2>4, <2>5 DEF Poll
<1> QED
  BY <1>0, <1>1, <1>2, SingleElse

-----------------------------------------------------------------------------
(* What was saved.  A window that has seen a part's last acknowledged save  *)
(* shows it; so does the row, unless a window that had not wrote it over.   *)

TraceInv == /\ wanted \in [Parts -> SUBSET (0..MaxSaves)] /\ writtenAt \in [Parts -> 0..writes]
            /\ overtaken \subseteq Parts /\ doubled \in BOOLEAN

FormFresh(w) ==
  \A p \in Parts \ (form[w].edited \cup overtaken) :
    writtenAt[p] <= form[w].base => form[w].shown[p] \in wanted[p]

RowFresh == \A p \in Parts \ overtaken : instances[1].config[p] \in wanted[p]

EditsInv ==
  /\ \A p \in Parts : writtenAt[p] = 0 => 0 \in wanted[p]
  /\ Len(instances) = 0 => \A p \in Parts : 0 \in wanted[p]
  /\ One => /\ Len(instances) = 1 => RowFresh
            /\ \A w \in Windows : FormFresh(w)

LEMMA TraceTypes ==
  ASSUME Base, TraceInv
  PROVE  /\ writes \in Nat
         /\ \A p \in Parts : /\ wanted[p] \in SUBSET (0..MaxSaves) /\ writtenAt[p] \in 0..writes
                             /\ writtenAt[p] \in Nat /\ writtenAt[p] <= writes
<1>1. writes \in Nat
  BY BaseTypes
<1> QED
  BY <1>1 DEF TraceInv

\* A window that is closed has seen nothing.
LEMMA ClosedFresh ==
  ASSUME EditsInv, Base, TraceInv, UNCHANGED <<trace>>, NEW w \in Windows, form'[w] = Closed
  PROVE  FormFresh(w)'
<1>1. UNCHANGED <<writes, wanted, writtenAt, overtaken>>
  BY DEF trace
<1>2. ASSUME NEW p \in Parts, writtenAt[p] <= 0 PROVE Empty[p] \in wanted[p]
  <2>1. writtenAt[p] = 0
    BY <1>2, TraceTypes
  <2> QED
    BY <2>1, ClosedType DEF EditsInv
<1> QED
  BY <1>1, <1>2, ClosedType DEF FormFresh

LEMMA NoneOrOne ==
  ASSUME NEW n \in Nat, n <= 1 PROVE n = 0 \/ n = 1
  OBVIOUS

\* A step that writes nothing and shows nothing new.
LEMMA EditsKept1 ==
  ASSUME Base, TraceInv, EditsInv, UNCHANGED trace, Len(instances') \in Nat, Len(instances) <= Len(instances'),
         providers \in Nat, providers' \in Nat, providers <= providers',
         One' /\ Len(instances) = 1 => instances'[1].config = instances[1].config,
         One' /\ Len(instances) = 0 /\ Len(instances') = 1 => instances'[1].config = Empty,
         \A w \in Windows : One' => form'[w] = form[w] \/ FormFresh(w)'
  PROVE  EditsInv'
<1>1. UNCHANGED <<writes, wanted, writtenAt, overtaken>> /\ Len(instances) \in Nat
  BY BaseTypes DEF trace
<1>2. One' => One
  BY <1>1 DEF One
<1>3. Len(instances') = 0 => Len(instances) = 0
  BY <1>1
<1>4. ASSUME One', Len(instances') = 1 PROVE RowFresh'
  <2>1. CASE Len(instances) = 1
    BY <1>1, <1>2, <1>4, <2>1 DEF EditsInv, RowFresh
  <2>2. CASE Len(instances) = 0
    BY <1>1, <1>4, <2>2, ClosedType DEF EditsInv, RowFresh
  <2>3. Len(instances) = 0 \/ Len(instances) = 1
    <3>1. Len(instances) \in Nat /\ Len(instances) <= 1
      BY <1>1, <1>4, Zenon
    <3> QED
      BY <3>1, NoneOrOne, Zenon
  <2> QED
    BY <2>1, <2>2, <2>3
<1>5. ASSUME One', NEW w \in Windows PROVE FormFresh(w)'
  BY <1>1, <1>2, <1>5 DEF EditsInv, FormFresh
<1> QED
  BY <1>1, <1>3, <1>4, <1>5 DEF EditsInv

\* The row that is there, or was inserted, is shown.
LEMMA ReadyFresh ==
  ASSUME Base, TraceInv, EditsInv, UNCHANGED trace, NEW a \in Actors, call[a].at # "idle",
         NEW i \in Ids, NEW config \in Config, Ready(a, i, config),
         \A p \in Parts \ overtaken : config[p] \in wanted[p]
  PROVE  \A w \in Windows : form'[w] = form[w] \/ FormFresh(w)'
<1>1. CASE UNCHANGED form
  BY <1>1
<1>2. CASE call[a].does = "load" /\ form' = [form EXCEPT ![a].shown = config, ![a].base = writes]
  <2>1. a \in Windows
    BY <1>2, ActorKinds DEF Base, CallsInv, CallOK
  <2>2. OnlyForm(a) /\ form'[a].shown = config
    BY <1>2, <2>1, BaseTypes, FormLoad
  <2>3. FormFresh(a)'
    BY <2>2 DEF FormFresh, trace
  <2> QED
    BY <2>2, <2>3 DEF OnlyForm
<1> QED
  BY <1>1, <1>2 DEF Ready

\* A call that fails closes a window at most.
LEMMA FailFresh ==
  ASSUME Base, TraceInv, EditsInv, UNCHANGED trace, NEW a \in Actors, call[a].at # "idle", Fail(a)
  PROVE  \A w \in Windows : form'[w] = form[w] \/ FormFresh(w)'
<1>1. \/ UNCHANGED form
      \/ a \in Windows /\ OnlyForm(a) /\ form'[a] = Closed
  BY FailForm DEF Base
<1> QED
  BY <1>1, ClosedFresh DEF OnlyForm

LEMMA EditsFind ==
  ASSUME Base, TraceInv, EditsInv, NEW a \in Actors, Find(a), trips \in 0..MaxTrips PROVE EditsInv'
<1>0. /\ call[a].at \in {"provider", "addProvider", "instance", "addInstance"} /\ UNCHANGED trace
      /\ Sound(a) /\ DOMAIN instances = 1..Len(instances) /\ Len(instances) \in Nat /\ providers \in Nat
  BY FindFrame, BaseFind, BaseTypes
<1>1. providers' \in Nat /\ providers <= providers' /\ Len(instances') \in Nat /\ Len(instances) <= Len(instances')
  BY <1>0 DEF Sound, Grows
<1>2. ASSUME UNCHANGED instances, \A w \in Windows : One' => form'[w] = form[w] \/ FormFresh(w)' PROVE EditsInv'
  BY <1>0, <1>1, <1>2, EditsKept1
<1>3. CASE FindProvider(a) \/ LookupFails(a)
  <2>1. UNCHANGED instances /\ (Fail(a) \/ UNCHANGED form)
    BY <1>3 DEF FindProvider, LookupFails, tables
  <2> QED
    BY <1>0, <1>2, <2>1, FailFresh
<1>4. CASE FindInstance(a)
  <2>1. UNCHANGED <<providers, instances>> /\ call[a].at = "instance"
    BY <1>4 DEF FindInstance, tables
  <2>2. CASE \E i \in RowsOf(call[a].provider) : Ready(a, i, instances[i].config)
    <3>1. PICK i \in RowsOf(call[a].provider) : Ready(a, i, instances[i].config)
      BY <2>2
    <3>2. i \in Ids /\ instances[i].config \in Config
      BY RowsType DEF RowsOf, Base
    <3>3. call[a].provider \in 1..providers
      BY <1>0, <2>1, BaseTypes, CallFields, OrgAssumption DEF Base, CallsInv, CallOK, Ids
    <3>4. One' => One /\ i = 1 /\ Len(instances) = 1
      BY <2>1, <3>3, OneRow DEF One
    <3>5. ASSUME One' PROVE \A p \in Parts \ overtaken : instances[i].config[p] \in wanted[p]
      BY <3>4, <3>5 DEF EditsInv, RowFresh
    <3>6. One' => \A w \in Windows : form'[w] = form[w] \/ FormFresh(w)'
      BY <1>0, <3>1, <3>2, <3>5, ReadyFresh
    <3> QED
      BY <1>2, <2>1, <3>6
  <2>3. CASE UNCHANGED form
    BY <1>2, <2>1, <2>3
  <2>4. CASE Fail(a)
    BY <1>0, <1>2, <2>1, <2>4, FailFresh
  <2> QED
    BY <1>4, <2>2, <2>3, <2>4 DEF FindInstance
<1>5. CASE AddProvider(a)
  <2>1. UNCHANGED instances /\ (Fail(a) \/ UNCHANGED form)
    BY <1>5 DEF AddProvider
  <2> QED
    BY <1>0, <1>2, <2>1, FailFresh
<1>6. ASSUME instances' = Append(instances, [provider |-> call[a].provider, config |-> Empty]),
             Len(instances) < MaxRows, call[a].at = "addInstance",
             \A w \in Windows : One' => form'[w] = form[w] \/ FormFresh(w)'
      PROVE  EditsInv'
  <2>1. call[a].provider \in 1..providers
    BY <1>0, <1>6, BaseTypes, CallFields, OrgAssumption DEF Base, CallsInv, CallOK, Ids
  <2>2. Len(instances') = Len(instances) + 1 /\ instances'[Len(instances) + 1].config = Empty
    BY <1>6, <2>1, RowAdded DEF Base
  <2>3. One' => Len(instances) = 0
    BY <1>0, <2>2 DEF One
  <2> QED
    BY <1>0, <1>1, <1>6, <2>2, <2>3, EditsKept1
<1>7. CASE AddInstance(a)
  <2>1. call[a].at = "addInstance"
    BY <1>7 DEF AddInstance
  <2>2. CASE Fail(a) /\ UNCHANGED instances
    BY <1>0, <1>2, <2>2, FailFresh
  <2>3. CASE /\ Len(instances) < MaxRows
             /\ instances' = Append(instances, [provider |-> call[a].provider, config |-> Empty])
             /\ Ready(a, Len(instances) + 1, Empty)
    <3>1. Len(instances) + 1 \in Ids /\ Len(instances') = Len(instances) + 1
      BY <1>0, <2>3, BaseTypes, OrgAssumption DEF Ids
    <3>2. One' => Len(instances) = 0
      BY <1>0, <3>1 DEF One
    <3>3. One' => \A p \in Parts \ overtaken : Empty[p] \in wanted[p]
      BY <3>2, ClosedType DEF EditsInv
    <3>4. One' => \A w \in Windows : form'[w] = form[w] \/ FormFresh(w)'
      BY <1>0, <2>3, <3>1, <3>3, ClosedType, ReadyFresh
    <3> QED
      BY <1>6, <2>1, <2>3, <3>4
  <2> QED
    BY <1>7, <2>2, <2>3 DEF AddInstance
<1>8. CASE AddFails(a)
  <2>1. Fail(a)
    BY <1>8 DEF AddFails
  <2>2. \A w \in Windows : One' => form'[w] = form[w] \/ FormFresh(w)'
    BY <1>0, <2>1, FailFresh
  <2>3. CASE UNCHANGED instances
    BY <1>2, <2>2, <2>3
  <2>4. CASE /\ call[a].at = "addInstance" /\ Len(instances) < MaxRows
             /\ instances' = Append(instances, [provider |-> call[a].provider, config |-> Empty])
    BY <1>6, <2>2, <2>4
  <2> QED
    BY <1>8, <2>3, <2>4 DEF AddFails
<1> QED
  BY <1>3, <1>4, <1>5, <1>7, <1>8 DEF Find

\* The row that is written has what the window shows.
LEMMA WrittenRow ==
  ASSUME Base, NEW w \in Windows, call[w].at = "write",
         instances' = [instances EXCEPT ![call[w].row].config = Put(w)]
  PROVE  /\ Len(instances') = Len(instances) /\ instances'[call[w].row].config = form[w].shown
         /\ Len(instances) # 0 /\ (Len(instances) = 1 => call[w].row = 1)
<1> DEFINE n == call[w].row
           config == Put(w)
<1>1. TablesInv /\ n \in DOMAIN instances /\ config \in Config /\ config = form[w].shown
  BY WriteRow DEF Base, Put
<1>2. instances' = [instances EXCEPT ![n].config = config]
  OBVIOUS
<1> HIDE DEF n, config
<1>3. Len(instances') = Len(instances) /\ instances'[n].config = config
  BY <1>1, <1>2, RowWritten
<1>4. DOMAIN instances = 1..Len(instances)
  BY BaseTypes
<1> QED
  BY <1>1, <1>3, <1>4 DEF n

\* What a window shows, and does not, after a write of its own.
LEMMA EditsWrite ==
  ASSUME Base, TraceInv, EditsInv, NEW w \in Windows, Write(w)
  PROVE  TraceInv' /\ EditsInv'
<1> DEFINE f == form[w]
           n == call[w].row
<1>0. /\ call[w].at = "write" /\ writes' = writes + 1 /\ UNCHANGED <<providers, doubled>>
      /\ instances' = [instances EXCEPT ![n].config = f.shown]
      /\ overtaken' = (overtaken \cup {p \in Parts : writtenAt[p] > f.base}) \ f.edited
      /\ wanted' = [p \in Parts |-> IF p \in f.edited THEN {f.shown[p]} ELSE wanted[p]]
      /\ writtenAt' = [p \in Parts |-> IF p \in f.edited THEN writes + 1 ELSE writtenAt[p]]
  BY DEF Write, Put
<1>1. /\ f.shown \in Config /\ f.edited \subseteq Parts /\ f.base \in Nat /\ f.base <= writes /\ writes \in Nat
      /\ \A p \in Parts : f.shown[p] \in 0..MaxSaves
  <2>1. f.shown \in Config /\ f.edited \subseteq Parts /\ f.base \in Nat
    BY BaseTypes, FormFields
  <2>2. f.base <= writes /\ writes \in Nat
    BY DEF Base, FormsInv
  <2> QED
    BY <2>1, <2>2 DEF Config
<1>3. Len(instances') = Len(instances) /\ instances'[n].config = f.shown /\ Len(instances) # 0
  BY WrittenRow DEF Write
<1>4. /\ OnlyForm(w)
      /\ \/ form'[w].shown = f.shown /\ form'[w].edited = {}
         \/ form'[w] = Closed
  BY WriteForm
<1> HIDE DEF f, n
<1>5. TraceInv'
  <2>1. wanted' \in [Parts -> SUBSET (0..MaxSaves)]
    BY <1>0, <1>1 DEF TraceInv
  <2>2. writtenAt' \in [Parts -> 0..writes']
    BY <1>0, <1>1 DEF TraceInv
  <2> QED
    BY <1>0, <2>1, <2>2 DEF TraceInv
<1>6. \A p \in Parts : writtenAt'[p] = 0 => 0 \in wanted'[p]
  BY <1>0, <1>1 DEF EditsInv
<1>7. ASSUME One PROVE \A p \in Parts \ overtaken' : f.shown[p] \in wanted'[p]
  <2> TAKE p \in Parts \ overtaken'
  <2>1. CASE p \in f.edited
    BY <1>0, <2>1
  <2>2. CASE p \notin f.edited
    <3>1. p \notin overtaken /\ ~(writtenAt[p] > f.base) /\ wanted'[p] = wanted[p]
      BY <1>0, <2>2
    <3>2. writtenAt[p] <= f.base
      BY <1>1, <3>1, TraceTypes
    <3> QED
      BY <1>7, <2>2, <3>1, <3>2 DEF EditsInv, FormFresh, f
  <2> QED
    BY <2>1, <2>2
<1>8. ASSUME One, NEW v \in Windows PROVE FormFresh(v)'
  <2>1. CASE v = w /\ form'[w].shown = f.shown /\ form'[w].edited = {}
    BY <1>7, <1>8, <2>1 DEF FormFresh
  <2>2. CASE v = w /\ form'[w] = Closed
    <3>1. ASSUME NEW p \in Parts, writtenAt'[p] <= 0 PROVE Empty[p] \in wanted'[p]
      <4>1. writtenAt'[p] \in Nat
        BY <1>0, <1>1, TraceTypes
      <4>2. writtenAt'[p] = 0
        BY <3>1, <4>1
      <4> QED
        BY <1>6, <4>2, ClosedType
    <3> QED
      BY <2>2, <3>1, ClosedType DEF FormFresh
  <2>3. CASE v # w
    <3>1. form'[v] = form[v] /\ form[v].base \in Nat /\ form[v].base <= writes
      BY <1>4, <2>3, BaseTypes, FormFields DEF OnlyForm, Base, FormsInv
    <3>2. ASSUME NEW p \in Parts \ (form[v].edited \cup overtaken'), writtenAt'[p] <= form[v].base
          PROVE  form[v].shown[p] \in wanted'[p]
      <4>1. p \notin f.edited
        BY <1>0, <1>1, <3>1, <3>2
      <4>2. p \notin overtaken /\ wanted'[p] = wanted[p] /\ writtenAt[p] <= form[v].base
        BY <1>0, <3>2, <4>1
      <4> QED
        BY <1>8, <3>2, <4>2 DEF EditsInv, FormFresh
    <3> QED
      BY <3>1, <3>2 DEF FormFresh
  <2> QED
    BY <1>4, <2>1, <2>2, <2>3
<1>9. ASSUME One, Len(instances) = 1 PROVE RowFresh'
  <2>2. n = 1
    BY <1>9, WrittenRow DEF Write, n
  <2> QED
    BY <1>3, <1>7, <1>9, <2>2 DEF RowFresh
<1>10. One' => One
  BY <1>0, <1>3 DEF One
<1>11. Len(instances') # 0 /\ (Len(instances') = 1 => Len(instances) = 1)
  BY <1>3
<1>12. One' => (Len(instances') = 1 => RowFresh') /\ \A v \in Windows : FormFresh(v)'
  BY <1>8, <1>9, <1>10, <1>11
<1>13. EditsInv'
  BY <1>6, <1>11, <1>12 DEF EditsInv
<1> QED
  BY <1>5, <1>13

\* A write that may have gone through: what was wanted may still be there.
LEMMA EditsWriteFails ==
  ASSUME Base, TraceInv, EditsInv, NEW w \in Windows, WriteFails(w)
  PROVE  TraceInv' /\ EditsInv'
<1>0. /\ call[w].at = "write" /\ w \in Actors /\ Fail(w) /\ UNCHANGED <<providers, doubled>>
      /\ call[w].row \in DOMAIN instances /\ Len(instances) \in Nat /\ DOMAIN instances = 1..Len(instances)
      /\ providers \in Nat
  BY WriteRow, BaseTypes DEF WriteFails
<1>1. CASE UNCHANGED <<instances, trace>>
  <2>1. TraceInv'
    BY <1>0, <1>1 DEF TraceInv, trace
  <2>2. \A v \in Windows : form'[v] = form[v] \/ FormFresh(v)'
    BY <1>0, <1>1, FailFresh
  <2> QED
    BY <1>0, <1>1, <2>1, <2>2, EditsKept1
<1>2. CASE /\ instances' = [instances EXCEPT ![call[w].row].config = Put(w)]
           /\ writes' = writes + 1
           /\ overtaken' = overtaken \cup {p \in Parts \ form[w].edited : writtenAt[p] > form[w].base}
           /\ wanted' = [p \in Parts |-> wanted[p] \cup IF p \in form[w].edited THEN {form[w].shown[p]} ELSE {}]
           /\ UNCHANGED writtenAt
  <2> DEFINE f == form[w]
             n == call[w].row
  <2>1. /\ f.shown \in Config /\ f.edited \subseteq Parts /\ f.base \in Nat /\ writes \in Nat
        /\ \A p \in Parts : f.shown[p] \in 0..MaxSaves
    BY BaseTypes, FormFields DEF Config
  <2>2. n \in Nat /\ n >= 1 /\ n <= Len(instances)
    BY <1>0
  <2>3. Len(instances') = Len(instances) /\ instances'[n].config = f.shown
    BY <1>0, <1>2, <2>1, RowWritten DEF Base, Put
  <2>4. \/ UNCHANGED form
        \/ OnlyForm(w) /\ form'[w] = Closed
    BY <1>0, FailForm DEF Base
  <2>5. /\ overtaken' = overtaken \cup {p \in Parts \ f.edited : writtenAt[p] > f.base}
        /\ wanted' = [p \in Parts |-> wanted[p] \cup IF p \in f.edited THEN {f.shown[p]} ELSE {}]
    BY <1>2
  <2> HIDE DEF f, n
  <2>6. TraceInv'
    <3>1. wanted' \in [Parts -> SUBSET (0..MaxSaves)]
      BY <2>1, <2>5 DEF TraceInv
    <3>2. writtenAt' \in [Parts -> 0..writes']
      BY <1>2, <2>1 DEF TraceInv
    <3> QED
      BY <1>0, <2>5, <3>1, <3>2 DEF TraceInv
  <2>7. \A p \in Parts : wanted[p] \subseteq wanted'[p]
    BY <2>5
  <2>8. \A p \in Parts : writtenAt'[p] = 0 => 0 \in wanted'[p]
    BY <1>2, <2>7 DEF EditsInv
  <2>9. ASSUME One, NEW p \in Parts \ overtaken' PROVE f.shown[p] \in wanted'[p]
    <3>1. CASE p \in f.edited
      BY <2>5, <3>1
    <3>2. CASE p \notin f.edited
      <4>1. p \notin overtaken /\ ~(writtenAt[p] > f.base)
        BY <2>5, <2>9, <3>2
      <4>2. writtenAt[p] <= f.base
        BY <2>1, <4>1, TraceTypes
      <4>3. f.shown[p] \in wanted[p]
        BY <2>9, <3>2, <4>1, <4>2 DEF EditsInv, FormFresh, f
      <4> QED
        BY <2>7, <4>3
    <3> QED
      BY <3>1, <3>2
  <2>10. ASSUME One, NEW v \in Windows PROVE FormFresh(v)'
    <3>1. CASE form'[v] = form[v]
      BY <1>2, <2>5, <2>7, <2>10, <3>1 DEF EditsInv, FormFresh
    <3>2. CASE form'[v] = Closed
      <4>1. ASSUME NEW p \in Parts, writtenAt'[p] <= 0 PROVE Empty[p] \in wanted'[p]
        <5>1. writtenAt'[p] = 0
          BY <1>2, <4>1, TraceTypes
        <5> QED
          BY <2>8, <5>1, ClosedType
      <4> QED
        BY <3>2, <4>1, ClosedType DEF FormFresh
    <3> QED
      BY <2>4, <3>1, <3>2 DEF OnlyForm
  <2>11. ASSUME One, Len(instances) = 1 PROVE RowFresh'
    <3>1. n = 1
      BY <2>2, <2>11
    <3> QED
      BY <2>3, <2>9, <2>11, <3>1 DEF RowFresh
  <2>12. One' => One
    BY <1>0, <2>3 DEF One
  <2> QED
    BY <1>0, <2>2, <2>3, <2>6, <2>8, <2>10, <2>11, <2>12 DEF EditsInv
<1> QED
  BY <1>1, <1>2 DEF WriteFails

LEMMA EditsEdit ==
  ASSUME Base, TraceInv, EditsInv, NEW w \in Windows, saves \in 0..MaxSaves, Edit(w)
  PROVE  TraceInv' /\ EditsInv'
<1>0. Len(instances) \in Nat /\ providers \in Nat /\ form \in [Windows -> Forms] /\ w \in Actors
  BY BaseTypes DEF Actors
<1>1. ASSUME UNCHANGED <<providers, instances, trace, doubled>>,
             \A v \in Windows : One' => form'[v] = form[v] \/ FormFresh(v)'
      PROVE  TraceInv' /\ EditsInv'
  <2>1. TraceInv'
    BY <1>1 DEF TraceInv, trace
  <2> QED
    BY <1>0, <1>1, <2>1, EditsKept1
<1>2. ASSUME NEW of \in {"settings"} \cup Mappings, Open(w, of) PROVE TraceInv' /\ EditsInv'
  <2>1. UNCHANGED <<providers, instances, trace, doubled>>
    BY <1>2 DEF Open, tables
  <2>2. /\ OnlyForm(w) /\ form'[w].shown = form[w].shown
        /\ form'[w].edited = form[w].edited /\ form'[w].base = form[w].base
    BY <1>0, <1>2, FormOpen DEF Open
  <2>3. One' => FormFresh(w)'
    <3>1. One' => One
      BY <2>1 DEF One
    <3> QED
      BY <2>1, <2>2, <3>1 DEF EditsInv, FormFresh, trace
  <2> QED
    BY <1>1, <2>1, <2>2, <2>3 DEF OnlyForm
<1>3. ASSUME NEW part \in Parts, Save(w, part) PROVE TraceInv' /\ EditsInv'
  <2>1. UNCHANGED <<providers, instances, trace, doubled>>
    BY <1>3 DEF Save, tables
  <2>2. /\ OnlyForm(w) /\ \A p \in Parts : p # part => form'[w].shown[p] = form[w].shown[p]
        /\ form'[w].edited = form[w].edited \cup {part} /\ form'[w].base = form[w].base
    BY <1>3, SaveForm
  <2>3. One' => FormFresh(w)'
    <3>1. One' => One
      BY <2>1 DEF One
    <3> QED
      BY <2>1, <2>2, <3>1 DEF EditsInv, FormFresh, trace
  <2> QED
    BY <1>1, <2>1, <2>2, <2>3 DEF OnlyForm
<1>4. CASE Close(w)
  <2>1. UNCHANGED <<providers, instances, trace, doubled>> /\ form' = [form EXCEPT ![w] = Closed]
    BY <1>4 DEF Close, tables
  <2>2. OnlyForm(w) /\ form'[w] = Closed
    BY <1>0, <2>1, ClosedType, FormSet
  <2>3. FormFresh(w)'
    BY <2>1, <2>2, ClosedFresh
  <2> QED
    BY <1>1, <2>1, <2>2, <2>3 DEF OnlyForm
<1> QED
  BY <1>2, <1>3, <1>4, EditsWrite, EditsWriteFails DEF Edit

-----------------------------------------------------------------------------
(* The parts together.                                                     *)

OrgInv == Base /\ CountsInv /\ RunsInv /\ TraceInv /\ SingleInv /\ EditsInv

LEMMA OrgInvInit == ASSUME IsFiniteSet(Polls) PROVE OrgInit => OrgInv
<1> SUFFICES ASSUME OrgInit PROVE OrgInv
  OBVIOUS
<1>1. Base
  BY BaseInit
<1>2. Pending = {}
  BY IdleType DEF OrgInit, Pending, Early, Actors
<1>3. Cardinality(Pending) = 0 /\ Len(runs) = 0 /\ Len(instances) = 0
  BY <1>2, FS_EmptySet DEF OrgInit
<1>4. CountsInv
  BY <1>3, OrgAssumption DEF OrgInit, CountsInv, PollsInv
<1>5. RunsInv
  BY DEF OrgInit, RunsInv, RunsClosed
<1>6. TraceInv
  <2>1. wanted \in [Parts -> SUBSET (0..MaxSaves)]
    <3>1. {0} \in SUBSET (0..MaxSaves)
      BY OrgAssumption
    <3> QED
      BY <3>1 DEF OrgInit
  <2>2. writtenAt \in [Parts -> 0..writes]
    BY DEF OrgInit
  <2> QED
    BY <2>1, <2>2 DEF OrgInit, TraceInv
<1>7. SingleInv
  BY <1>3, IdleType DEF OrgInit, SingleInv, One, Looked
<1>8. EditsInv
  <2>1. ASSUME NEW w \in Windows PROVE FormFresh(w)
    BY ClosedType DEF OrgInit, FormFresh
  <2> QED
    BY <1>3, <2>1 DEF OrgInit, EditsInv
<1> QED
  BY <1>1, <1>4, <1>5, <1>6, <1>7, <1>8 DEF OrgInv

LEMMA OrgInvFind ==
  ASSUME IsFiniteSet(Polls), OrgInv, NEW a \in Actors, Find(a) PROVE OrgInv'
<1>1. /\ call[a].at \in {"provider", "addProvider", "instance", "addInstance"}
      /\ UNCHANGED <<unique, runs, saves, polls, trace, orphans>> /\ trips' \in 0..MaxTrips
  BY FindFrame DEF OrgInv, CountsInv
<1>2. Sound(a)
  BY BaseFind DEF OrgInv
<1>3. CountsInv' /\ RunsInv'
  BY <1>1, <1>2, PollsElsewhere DEF OrgInv, CountsInv, Early
<1>4. doubled' \in BOOLEAN
  BY DEF OrgInv, TraceInv, Find, FindProvider, FindInstance, LookupFails, AddProvider, AddInstance, AddFails
<1>5. TraceInv'
  BY <1>1, <1>4 DEF OrgInv, TraceInv, trace
<1>6. SingleInv'
  BY SingleFind DEF OrgInv, TraceInv
<1>7. EditsInv'
  BY EditsFind DEF OrgInv, CountsInv
<1> QED
  BY <1>2, <1>3, <1>5, <1>6, <1>7 DEF OrgInv, Sound

LEMMA OrgInvEdit ==
  ASSUME IsFiniteSet(Polls), OrgInv, NEW w \in Windows, Edit(w) PROVE OrgInv'
<1>1. /\ UNCHANGED <<unique, providers, context, runs, polls, doubled, orphans>>
      /\ trips' \in 0..MaxTrips /\ saves' \in 0..MaxSaves
  BY EditFrame DEF OrgInv, CountsInv
<1>2. w \in Actors /\ w \notin Polls /\ Sound(w)
  BY BaseEdit, OrgAssumption DEF OrgInv, CountsInv, Actors
<1>3. CountsInv' /\ RunsInv'
  BY <1>1, <1>2, PollsElsewhere DEF OrgInv, CountsInv
<1>4. SingleInv' /\ TraceInv' /\ EditsInv'
  BY SingleEdit, EditsEdit DEF OrgInv, CountsInv
<1> QED
  BY <1>2, <1>3, <1>4 DEF OrgInv, Sound

LEMMA OrgInvPoll ==
  ASSUME IsFiniteSet(Polls), OrgInv, NEW p \in Polls, Poll(p) PROVE OrgInv'
<1>1. p \in Actors /\ UNCHANGED <<tables, saves, trace, doubled>> /\ trips' \in 0..MaxTrips
  BY PollFrame DEF OrgInv, CountsInv, Actors
<1>2. Sound(p) /\ PollsInv' /\ RunsInv'
  BY PollStep DEF OrgInv, CountsInv
<1>3. CountsInv' /\ TraceInv'
  BY <1>1, <1>2 DEF OrgInv, CountsInv, TraceInv, trace
<1>4. SingleInv'
  BY SinglePoll DEF OrgInv
<1>5. EditsInv'
  <2>1. \A w \in Windows : form'[w] = form[w] \/ FormFresh(w)'
    <3>1. CASE StartFails(p)
      BY <1>1, <3>1, FailFresh DEF StartFails, OrgInv
    <3>2. CASE ~StartFails(p)
      BY <3>2 DEF Poll, BeginPoll, StartRun, Ingest, FinishRun, FinishFails
    <3> QED
      BY <3>1, <3>2
  <2>2. UNCHANGED <<providers, instances>> /\ providers \in Nat /\ Len(instances) \in Nat
    BY <1>1, BaseTypes DEF OrgInv, tables
  <2> QED
    BY <1>1, <2>1, <2>2, EditsKept1 DEF OrgInv
<1> QED
  BY <1>2, <1>3, <1>4, <1>5 DEF OrgInv, Sound

LEMMA OrgInvRestart ==
  ASSUME IsFiniteSet(Polls), OrgInv, Restart PROVE OrgInv'
<1>1. /\ UNCHANGED <<tables, runs, saves, polls, trace, doubled>> /\ trips' \in 0..MaxTrips
      /\ orphans' = orphans \cup {call[p].run : p \in {q \in Polls : call[q].run # 0}}
  BY OrgAssumption DEF Restart, OrgInv, CountsInv
<1>2. Base' /\ \A a \in Actors : call'[a] = Idle
  BY BaseRestart DEF OrgInv
<1>3. CountsInv'
  <2>1. Pending' = {}
    BY <1>2, IdleType DEF Pending, Early, Actors
  <2>2. PollsInv'
    BY <1>1, <1>2, <2>1, PollsKept DEF OrgInv, CountsInv
  <2> QED
    BY <1>1, <2>2 DEF OrgInv, CountsInv
<1>4. RunsInv'
  <2>1. ASSUME NEW p \in Polls, call[p].run # 0 PROVE call[p].run \in DOMAIN runs
    <3>1. p \in Actors
      BY DEF Actors
    <3>2. call[p].run \in Nat /\ call[p].run <= Len(runs) /\ DOMAIN runs = 1..Len(runs) /\ Len(runs) \in Nat
      BY <3>1, BaseTypes, CallFields, OrgAssumption DEF OrgInv, Base, CallsInv, CallOK
    <3> QED
      BY <2>1, <3>2
  <2>2. orphans' \subseteq DOMAIN runs'
    BY <1>1, <2>1 DEF OrgInv, RunsInv
  <2>3. ASSUME NEW i \in DOMAIN runs, runs[i] = "running" PROVE i \in orphans'
    <3>1. i # 0
      BY BaseTypes DEF OrgInv
    <3>2. i \in orphans \/ \E p \in Polls : call[p].run = i
      BY <2>3 DEF OrgInv, RunsInv, RunsClosed
    <3> QED
      BY <1>1, <3>1, <3>2
  <2> QED
    BY <1>1, <2>2, <2>3 DEF RunsInv, RunsClosed
<1>5. TraceInv'
  BY <1>1 DEF OrgInv, TraceInv, trace
<1>6. SingleInv'
  BY <1>1, <1>2, IdleType DEF OrgInv, SingleInv, One, Looked, tables
<1>7. EditsInv'
  <2>1. ASSUME NEW w \in Windows PROVE form'[w] = form[w] \/ FormFresh(w)'
    BY <1>1, RestartForm, ClosedFresh DEF OrgInv
  <2>2. UNCHANGED <<providers, instances>> /\ providers \in Nat /\ Len(instances) \in Nat
    BY <1>1, BaseTypes DEF OrgInv, tables
  <2> QED
    BY <1>1, <2>1, <2>2, EditsKept1 DEF OrgInv
<1> QED
  BY <1>2, <1>3, <1>4, <1>5, <1>6, <1>7 DEF OrgInv

\* A step elsewhere, which may be a failed call.
Elsewhere == /\ trips' \in 0..MaxTrips
             /\ UNCHANGED <<tables, context, runs, call, form, saves, polls, trace, doubled, orphans>>

LEMMA OrgInvElsewhere ==
  ASSUME OrgInv, Elsewhere PROVE OrgInv'
<1>1. /\ trips' \in 0..MaxTrips
      /\ UNCHANGED <<unique, providers, instances, context, runs, call, form, saves, polls,
                     writes, wanted, writtenAt, overtaken, doubled, orphans>>
  BY DEF Elsewhere, tables, trace
<1>2. Base' /\ TraceInv' /\ SingleInv'
  BY <1>1 DEF OrgInv, Base, TablesInv, CallsInv, CallOK, FormsInv, TraceInv, SingleInv, One, Looked
<1>3. CountsInv' /\ RunsInv'
  BY <1>1 DEF OrgInv, CountsInv, PollsInv, Pending, RunsInv, RunsClosed
<1>4. EditsInv'
  BY <1>1 DEF OrgInv, EditsInv, One, RowFresh, FormFresh
<1> QED
  BY <1>2, <1>3, <1>4 DEF OrgInv

LEMMA OrgInvStep ==
  ASSUME IsFiniteSet(Polls), OrgInv, OrgNext \/ Elsewhere \/ UNCHANGED orgVars PROVE OrgInv'
<1>1. CASE UNCHANGED orgVars
  <2>1. Elsewhere
    BY <1>1 DEF orgVars, counters, Elsewhere, OrgInv, CountsInv
  <2> QED
    BY <2>1, OrgInvElsewhere
<1> QED
  BY <1>1, OrgInvFind, OrgInvEdit, OrgInvPoll, OrgInvRestart, OrgInvElsewhere DEF OrgNext

\* What the invariant says.
LEMMA OrgInvTypes == ASSUME IsFiniteSet(Polls), OrgInv PROVE OrgTypeOK
<1>1. TablesInv /\ CallsInv /\ FormsInv /\ CountsInv /\ TraceInv /\ orphans \subseteq DOMAIN runs
  BY DEF OrgInv, Base, RunsInv
<1>2. context \subseteq DOMAIN instances /\ Cardinality(context) <= 1
  <2>1. CASE context = {}
    BY <2>1, FS_EmptySet
  <2>2. CASE \E i \in DOMAIN instances : context = {i}
    <3>1. PICK i \in DOMAIN instances : context = {i}
      BY <2>2
    <3>2. Cardinality({i}) = 1
      BY FS_Singleton
    <3> QED
      BY <3>1, <3>2
  <2> QED
    BY <1>1, <2>1, <2>2 DEF TablesInv
<1>3. Len(runs) <= MaxRuns /\ polls \in 0..MaxRuns
  <2>1. Len(runs) \in Nat /\ Cardinality(Pending) \in Nat
    BY PendingFinite, BaseTypes DEF OrgInv
  <2> QED
    BY <1>1, <2>1, OrgAssumption DEF CountsInv, PollsInv
<1>4. \A a \in Actors : call[a].provider <= providers /\ call[a].row <= Len(instances)
  BY <1>1 DEF CallsInv, CallOK
<1> QED
  BY <1>1, <1>2, <1>3, <1>4 DEF OrgTypeOK, TablesInv, CallsInv, FormsInv, CountsInv, TraceInv

LEMMA OrgInvSingle == OrgInv => SingleContext
  BY DEF OrgInv, SingleInv, One, SingleContext

LEMMA OrgInvEdits == OrgInv => EditsKept
<1> SUFFICES ASSUME OrgInv, providers = 1, Cardinality(RowsOf(1)) = 1, NEW p \in Parts \ overtaken
             PROVE  Shown[p] \in wanted[p]
  BY DEF EditsKept
<1>1. Base /\ DOMAIN instances = 1..Len(instances) /\ Len(instances) \in Nat
      /\ \A i \in DOMAIN instances : instances[i].provider \in 1..providers
  BY BaseTypes DEF OrgInv, Base, TablesInv
<1>2. RowsOf(1) = 1..Len(instances)
  BY <1>1 DEF RowsOf
<1>3. Cardinality(1..Len(instances)) = Len(instances)
  <2>1. Cardinality(1..Len(instances)) = IF 1 > Len(instances) THEN 0 ELSE Len(instances) - 1 + 1
    BY <1>1, FS_Interval
  <2> QED
    BY <1>1, <2>1
<1>4. Len(instances) = 1 /\ RowsOf(1) = {1}
  BY <1>2, <1>3
<1>5. Shown = instances[1].config
  <2>1. (CHOOSE i \in {1} : TRUE) = 1
    OBVIOUS
  <2> QED
    BY <1>4, <2>1 DEF Shown, ShownBy
<1>6. One
  BY <1>4 DEF One
<1> QED
  BY <1>4, <1>5, <1>6 DEF OrgInv, EditsInv, RowFresh

LEMMA OrgInvRuns == OrgInv => RunsClosed
  BY DEF OrgInv, RunsInv

\* An organization has one row for its configuration and its runs unless two
\* were about to insert it together, a part saved stays saved unless a window
\* that had not seen the save wrote it over, and a run that the ledger shows
\* as running is under way or was cut off: for any number of windows, polls,
\* partners and settings.
THEOREM OrgConfigSound ==
  ASSUME IsFiniteSet(Polls)
  PROVE  OrgSpec => [](SingleContext /\ EditsKept /\ RunsClosed /\ OrgTypeOK)
<1>1. OrgInit => OrgInv
  BY OrgInvInit
<1>2. OrgInv /\ [OrgNext]_orgVars => OrgInv'
  BY OrgInvStep
<1>3. OrgInv => SingleContext /\ EditsKept /\ RunsClosed /\ OrgTypeOK
  BY OrgInvSingle, OrgInvEdits, OrgInvRuns, OrgInvTypes
<1> QED
  BY <1>1, <1>2, <1>3, PTL DEF OrgSpec

-----------------------------------------------------------------------------
(* The limiter.  Why forgetting is harmless: the remembered admissions of  *)
(* the current window are all there were.                                  *)

\* Nothing was admitted in the future, the next admission is a new one.
Past == \A k \in Keys : IsFiniteSet(granted[k]) /\ \A h \in granted[k] : h.at <= now /\ h.id < calls

\* Every admission of the current window is remembered.
Remembered == \A k \in Keys : /\ hits[k] \subseteq granted[k]
                              /\ \A h \in granted[k] : h.at > now - Window => h \in hits[k]

LimiterInv == TypeOK /\ Past /\ Remembered /\ WindowRespected

\* What is remembered of a key's current window is all that was admitted in it.
LEMMA RecentIsWindow ==
  ASSUME TypeOK, Past, Remembered, NEW k \in Keys
  PROVE  /\ Recent(k) = InWindow(k, now) /\ IsFiniteSet(Recent(k))
         /\ Recent(k) \subseteq hits[k] /\ Recent(k) \subseteq granted[k]
         /\ Cardinality(Recent(k)) \in Nat /\ Cardinality(Recent(k)) <= Ceiling[k]
<1>1. Recent(k) = InWindow(k, now) /\ Recent(k) \subseteq hits[k] /\ Recent(k) \subseteq granted[k]
  BY DEF Recent, InWindow, Past, Remembered
<1>2. IsFiniteSet(hits[k]) /\ Cardinality(hits[k]) <= Ceiling[k] /\ Ceiling[k] \in Nat
  BY RateLimiterAssumption DEF TypeOK
<1>3. IsFiniteSet(Recent(k)) /\ Cardinality(Recent(k)) <= Cardinality(hits[k])
  BY <1>1, <1>2, FS_Subset
<1>4. Cardinality(Recent(k)) \in Nat /\ Cardinality(hits[k]) \in Nat
  BY <1>2, <1>3, FS_CardinalityType
<1> QED BY <1>1, <1>2, <1>3, <1>4

LEMMA WindowFinite ==
  ASSUME Past, NEW k \in Keys, NEW t
  PROVE  IsFiniteSet(InWindow(k, t)) /\ Cardinality(InWindow(k, t)) \in Nat
<1>1. InWindow(k, t) \subseteq granted[k] /\ IsFiniteSet(granted[k])
  BY DEF InWindow, Past
<1> QED BY <1>1, FS_Subset, FS_CardinalityType

-----------------------------------------------------------------------------
(* A call.                                                                 *)

\* Both gates ask for known keys with a limit up to the key's ceiling.
LEMMA GatesAsk ==
  ASSUME TypeOK,
         \E c \in Clients : ApiRequest(c) \/ \E a \in Addresses : PortalRequest(c, a)
  PROVE  \E ks \in SUBSET Keys : \E limit :
           Allow(ks, limit) /\ \A k \in ks : limit[k] \in 0..Ceiling[k]
<1>1. ASSUME NEW c \in Clients, ApiRequest(c)
      PROVE \E ks \in SUBSET Keys : \E limit :
              Allow(ks, limit) /\ \A k \in ks : limit[k] \in 0..Ceiling[k]
  <2>1. PICK n \in 0..Ceiling[c] : Allow({c}, [k \in {c} |-> n])
    BY <1>1 DEF ApiRequest
  <2>2. {c} \in SUBSET Keys /\ \A k \in {c} : [j \in {c} |-> n][k] \in 0..Ceiling[k]
    BY DEF Keys
  <2> QED BY <2>1, <2>2
<1>2. ASSUME NEW c \in Clients, NEW a \in Addresses, PortalRequest(c, a)
      PROVE \E ks \in SUBSET Keys : \E limit :
              Allow(ks, limit) /\ \A k \in ks : limit[k] \in 0..Ceiling[k]
  <2>1. PICK n \in 0..Ceiling[c] :
          Allow(IF Admits(c, n) THEN {c, a} ELSE {c},
                [k \in {c, a} |-> IF k = c THEN n ELSE Ceiling[a]])
    BY <1>2 DEF PortalRequest
  <2> DEFINE ks == IF Admits(c, n) THEN {c, a} ELSE {c}
             limit == [k \in {c, a} |-> IF k = c THEN n ELSE Ceiling[a]]
  <2>2. ks \in SUBSET Keys /\ Ceiling[a] \in Nat
    BY RateLimiterAssumption DEF Keys
  <2>3. \A k \in ks : limit[k] \in 0..Ceiling[k]
    BY <2>2
  <2> QED BY <2>1, <2>2, <2>3
<1> QED BY <1>1, <1>2

\* What a call does to one key.
LEMMA AllowKey ==
  ASSUME NEW ks \in SUBSET Keys, NEW limit, Allow(ks, limit), NEW k \in Keys
  PROVE  LET hit == [at |-> now, id |-> calls]
         IN \/ /\ k \in ks /\ Admits(k, limit[k])
               /\ hits'[k] = Recent(k) \cup {hit} /\ granted'[k] = granted[k] \cup {hit}
            \/ /\ k \in ks /\ ~Admits(k, limit[k])
               /\ hits'[k] = Recent(k) /\ granted'[k] = granted[k]
            \/ k \notin ks /\ hits'[k] = hits[k] /\ granted'[k] = granted[k]
  BY DEF Allow

LEMMA AllowStep ==
  ASSUME LimiterInv, NEW ks \in SUBSET Keys, NEW limit, Allow(ks, limit),
         \A k \in ks : limit[k] \in 0..Ceiling[k]
  PROVE  LimiterInv'
<1> DEFINE hit == [at |-> now, id |-> calls]
<1> USE DEF LimiterInv
<1>1. hit \in Hit /\ now \in Nat /\ calls \in Nat /\ calls' = calls + 1 /\ now' = now /\ Window \in Nat
  BY RateLimiterAssumption DEF Hit, TypeOK, Allow
<1>2. hit.at = now /\ hit.id = calls
  OBVIOUS
<1>3. ASSUME NEW k \in Keys
      PROVE  /\ hits'[k] \subseteq Hit /\ granted'[k] \subseteq Hit
             /\ IsFiniteSet(hits'[k]) /\ Cardinality(hits'[k]) <= Ceiling[k]
             /\ IsFiniteSet(granted'[k])
             /\ \A h \in granted'[k] : h.at <= now /\ h.id < calls'
             /\ hits'[k] \subseteq granted'[k]
             /\ \A h \in granted'[k] : h.at > now - Window => h \in hits'[k]
             /\ \A t \in 0..now : Cardinality(InWindow(k, t)') <= Ceiling[k]
  <2>1. /\ hits[k] \subseteq Hit /\ granted[k] \subseteq Hit
        /\ IsFiniteSet(hits[k]) /\ Cardinality(hits[k]) <= Ceiling[k]
        /\ IsFiniteSet(granted[k]) /\ Ceiling[k] \in Nat
        /\ \A h \in granted[k] : h.at <= now /\ h.id < calls
        /\ hits[k] \subseteq granted[k]
        /\ \A h \in granted[k] : h.at > now - Window => h \in hits[k]
        /\ \A t \in 0..now : Cardinality(InWindow(k, t)) <= Ceiling[k]
    BY RateLimiterAssumption DEF TypeOK, Past, Remembered, WindowRespected
  <2>2. /\ Recent(k) = InWindow(k, now) /\ IsFiniteSet(Recent(k))
        /\ Recent(k) \subseteq hits[k] /\ Recent(k) \subseteq granted[k]
        /\ Cardinality(Recent(k)) \in Nat /\ Cardinality(Recent(k)) <= Ceiling[k]
    BY RecentIsWindow
  <2>3. \A h \in granted[k] : h.at \in Nat /\ h.id \in Nat
    BY <2>1 DEF Hit
  <2>4. CASE k \in ks /\ Admits(k, limit[k]) /\ hits'[k] = Recent(k) \cup {hit}
             /\ granted'[k] = granted[k] \cup {hit}
    <3>1. hit \notin granted[k]
      BY <1>1, <1>2, <2>1, <2>3
    <3>2. /\ IsFiniteSet(hits'[k]) /\ Cardinality(hits'[k]) = Cardinality(Recent(k)) + 1
      BY <2>2, <2>4, <3>1, FS_AddElement
    <3>3. Cardinality(Recent(k)) < limit[k] /\ limit[k] \in 0..Ceiling[k]
      BY <2>4 DEF Admits
    <3>4. Cardinality(hits'[k]) <= Ceiling[k]
      BY <2>1, <2>2, <3>2, <3>3
    <3>5. IsFiniteSet(granted'[k])
      <4>0. IsFiniteSet(granted[k])
        BY <2>1
      <4>1. IsFiniteSet(granted[k] \cup {hit})
        BY <4>0, FS_AddElement
      <4> QED BY <2>4, <4>1
    <3>6. ASSUME NEW h \in granted'[k] PROVE h.at <= now /\ h.id < calls'
      BY <1>1, <1>2, <2>1, <2>3, <2>4
    <3>7. ASSUME NEW h \in granted'[k], h.at > now - Window PROVE h \in hits'[k]
      <4>1. CASE h \in granted[k]
        <5>1. h \in Recent(k)
          BY <2>1, <3>7, <4>1 DEF Recent
        <5> QED BY <2>4, <5>1
      <4>2. CASE h = hit
        BY <2>4, <4>2
      <4> QED BY <2>4, <3>7, <4>1, <4>2
    <3>8. ASSUME NEW t \in 0..now PROVE Cardinality(InWindow(k, t)') <= Ceiling[k]
      <4>1. CASE t < now
        <5>1. InWindow(k, t)' = InWindow(k, t)
          BY <1>1, <1>2, <2>4, <4>1 DEF InWindow
        <5> QED BY <2>1, <5>1
      <4>2. CASE t = now
        <5>1. InWindow(k, t)' = {h \in granted[k] \cup {hit} : h.at > now - Window /\ h.at <= now}
          BY <2>4, <4>2 DEF InWindow
        <5>2. hit.at > now - Window /\ hit.at <= now
          BY <1>1, <1>2, RateLimiterAssumption
        <5>3. InWindow(k, t)' = InWindow(k, now) \cup {hit}
          BY <5>1, <5>2 DEF InWindow
        <5> QED BY <2>2, <2>4, <3>4, <5>3
      <4> QED BY <1>1, <4>1, <4>2
    <3> QED BY <1>1, <2>1, <2>2, <2>4, <3>2, <3>4, <3>5, <3>6, <3>7, <3>8
  <2>5. CASE hits'[k] \in {hits[k], Recent(k)} /\ granted'[k] = granted[k]
    <3>1. ASSUME NEW h \in granted'[k] PROVE h.at <= now /\ h.id < calls'
      BY <1>1, <2>1, <2>3, <2>5
    <3>2. ASSUME NEW h \in granted'[k], h.at > now - Window PROVE h \in hits'[k]
      <4>1. h \in hits[k] /\ h \in Recent(k)
        BY <2>1, <2>5, <3>2 DEF Recent
      <4> QED BY <2>5, <4>1
    <3>3. ASSUME NEW t \in 0..now PROVE Cardinality(InWindow(k, t)') <= Ceiling[k]
      <4>1. InWindow(k, t)' = InWindow(k, t)
        BY <2>5 DEF InWindow
      <4> QED BY <2>1, <4>1
    <3> QED BY <2>1, <2>2, <2>5, <3>1, <3>2, <3>3
  <2> QED BY <2>4, <2>5, AllowKey
<1>4. refusal' \subseteq Refusal
  <2>1. CASE UNCHANGED refusal
    BY <2>1 DEF TypeOK
  <2>2. ASSUME NEW k \in ks, refusal' = {[key |-> k, at |-> now, limit |-> limit[k]]}
        PROVE refusal' \subseteq Refusal
    <3>1. limit[k] \in Nat /\ k \in Keys
      BY RateLimiterAssumption
    <3> QED BY <1>1, <2>2, <3>1 DEF Refusal
  <2> QED BY <2>1, <2>2 DEF Allow
<1>5. hits' \in [Keys -> SUBSET Hit] /\ granted' \in [Keys -> SUBSET Hit]
  <2>1. DOMAIN hits' = Keys /\ DOMAIN granted' = Keys /\ hits' = [k \in Keys |-> hits'[k]]
        /\ granted' = [k \in Keys |-> granted'[k]]
    BY DEF Allow
  <2> QED BY <1>3, <2>1
<1>6. TypeOK'
  BY <1>1, <1>3, <1>4, <1>5 DEF TypeOK
<1>7. Past' /\ Remembered'
  BY <1>1, <1>3 DEF Past, Remembered
<1>8. WindowRespected'
  BY <1>1, <1>3 DEF WindowRespected
<1> QED BY <1>6, <1>7, <1>8

LEMMA PruneStep ==
  ASSUME LimiterInv, Prune PROVE LimiterInv'
<1> USE DEF LimiterInv
<1>1. UNCHANGED <<granted, now, calls, refusal>> /\ hits' = [k \in Keys |-> Recent(k)]
  BY DEF Prune
<1>2. ASSUME NEW k \in Keys
      PROVE  /\ hits'[k] = Recent(k) /\ Recent(k) \subseteq Hit /\ IsFiniteSet(Recent(k))
             /\ Cardinality(Recent(k)) <= Ceiling[k] /\ Recent(k) \subseteq granted[k]
             /\ \A h \in granted[k] : h.at > now - Window => h \in Recent(k)
  <2>1. hits[k] \subseteq Hit /\ \A h \in granted[k] : h.at > now - Window => h \in hits[k]
    BY DEF TypeOK, Remembered
  <2> QED BY <1>1, <2>1, RecentIsWindow DEF Recent
<1>3. TypeOK'
  BY <1>1, <1>2 DEF TypeOK
<1>4. Past' /\ Remembered'
  BY <1>1, <1>2 DEF Past, Remembered
<1>5. WindowRespected'
  BY <1>1 DEF WindowRespected, InWindow
<1> QED BY <1>3, <1>4, <1>5

\* A window that ends later than the last admission holds no more than the
\* window that ended with it.
LEMMA TickStep ==
  ASSUME LimiterInv, Tick PROVE LimiterInv'
<1> USE DEF LimiterInv
<1>1. UNCHANGED <<hits, granted, calls, refusal>> /\ now' = now + 1 /\ now \in Nat /\ Window \in Nat
  BY RateLimiterAssumption DEF Tick, TypeOK
<1>2. \A k \in Keys : \A h \in granted[k] : h.at \in Nat /\ h.at <= now
  BY DEF TypeOK, Past, Hit
<1>3. TypeOK' /\ Past' /\ Remembered'
  BY <1>1, <1>2 DEF TypeOK, Past, Remembered
<1>4. ASSUME NEW k \in Keys, NEW t \in 0..now' PROVE Cardinality(InWindow(k, t)') <= Ceiling[k]
  <2>1. CASE t \in 0..now
    BY <1>1, <2>1 DEF WindowRespected, InWindow
  <2>2. CASE t = now + 1
    <3>1. InWindow(k, t)' \subseteq InWindow(k, now)
      BY <1>1, <1>2, <2>2 DEF InWindow
    <3>2. IsFiniteSet(InWindow(k, now)) /\ Cardinality(InWindow(k, now)) \in Nat
      BY WindowFinite
    <3>3. IsFiniteSet(InWindow(k, t)') /\ Cardinality(InWindow(k, t)') <= Cardinality(InWindow(k, now))
      BY <3>1, <3>2, FS_Subset
    <3>4. Cardinality(InWindow(k, t)') \in Nat /\ Ceiling[k] \in Nat
      BY <3>3, FS_CardinalityType, RateLimiterAssumption
    <3>5. Cardinality(InWindow(k, now)) <= Ceiling[k]
      BY <1>1 DEF WindowRespected
    <3> QED BY <3>2, <3>3, <3>4, <3>5
  <2> QED BY <1>1, <2>1, <2>2
<1>5. WindowRespected'
  BY <1>4 DEF WindowRespected
<1> QED BY <1>3, <1>5

LEMMA InitLimiter == Init => LimiterInv
<1> SUFFICES ASSUME Init PROVE LimiterInv
  OBVIOUS
<1>1. IsFiniteSet({}) /\ Cardinality({}) = 0
  BY FS_EmptySet
<1>2. TypeOK
  BY <1>1, RateLimiterAssumption DEF Init, TypeOK
<1>3. Past /\ Remembered
  BY <1>1 DEF Init, Past, Remembered
<1>4. WindowRespected
  <2>1. \A k \in Keys : \A t \in 0..now : InWindow(k, t) = {}
    BY DEF Init, InWindow
  <2> QED BY <1>1, <2>1, RateLimiterAssumption DEF WindowRespected
<1> QED BY <1>2, <1>3, <1>4 DEF LimiterInv

LEMMA LimiterStep == LimiterInv /\ [Next]_vars => LimiterInv'
<1> SUFFICES ASSUME LimiterInv, [Next]_vars PROVE LimiterInv'
  OBVIOUS
<1>1. CASE \E c \in Clients : ApiRequest(c) \/ \E a \in Addresses : PortalRequest(c, a)
  <2>0. PICK ks \in SUBSET Keys : \E limit :
          Allow(ks, limit) /\ \A k \in ks : limit[k] \in 0..Ceiling[k]
    BY <1>1, GatesAsk DEF LimiterInv
  <2>1. PICK limit : Allow(ks, limit) /\ \A k \in ks : limit[k] \in 0..Ceiling[k]
    BY <2>0
  <2> QED BY <2>1, AllowStep
<1>2. CASE Prune
  BY <1>2, PruneStep
<1>3. CASE Tick
  BY <1>3, TickStep
<1>4. CASE UNCHANGED vars
  BY <1>4 DEF vars, LimiterInv, TypeOK, Past, Remembered, WindowRespected, InWindow
<1> QED BY <1>1, <1>2, <1>3, <1>4 DEF Next, Done

\* The lists keep their type and never outgrow the limit.
THEOREM RateLimiterType == Spec => []TypeOK
<1>1. LimiterInv => TypeOK
  BY DEF LimiterInv
<1> QED BY InitLimiter, LimiterStep, <1>1, PTL DEF Spec

\* allow() admits no more than the limit in any window, however calls, prunes
\* and edits of the limit follow each other.
THEOREM RateLimiterWindow == Spec => []WindowRespected
<1>1. LimiterInv => WindowRespected
  BY DEF LimiterInv
<1> QED BY InitLimiter, LimiterStep, <1>1, PTL DEF Spec

-----------------------------------------------------------------------------
(* Refusals.                                                               *)

\* What is admitted stays admitted.
LEMMA GrantedGrows ==
  ASSUME LimiterInv, \/ [Next]_vars
                     \/ \E ks \in SUBSET Keys : \E limit : Allow(ks, limit)
  PROVE  \A k \in Keys : granted[k] \subseteq granted'[k]
<1>1. ASSUME NEW ks \in SUBSET Keys, NEW limit, Allow(ks, limit)
      PROVE  \A k \in Keys : granted[k] \subseteq granted'[k]
  BY <1>1, AllowKey
<1>2. CASE \E c \in Clients : ApiRequest(c) \/ \E a \in Addresses : PortalRequest(c, a)
  <2>0. PICK ks \in SUBSET Keys : \E limit : Allow(ks, limit)
    BY <1>2, GatesAsk DEF LimiterInv
  <2>1. PICK limit : Allow(ks, limit)
    BY <2>0
  <2> QED BY <2>1, <1>1
<1>3. CASE UNCHANGED granted
  BY <1>3
<1> QED BY <1>1, <1>2, <1>3 DEF Next, Prune, Tick, Done, vars

\* So an old refusal stays justified.
LEMMA OldRefusal ==
  ASSUME LimiterInv, LimiterInv', RefusalJustified, \A k \in Keys : granted[k] \subseteq granted'[k],
         NEW r \in refusal
  PROVE  Cardinality(InWindow(r.key, r.at)') >= r.limit
<1>1. r.key \in Keys /\ r.limit \in Nat
  BY DEF LimiterInv, TypeOK, Refusal
<1>2. InWindow(r.key, r.at) \subseteq InWindow(r.key, r.at)'
  BY <1>1 DEF InWindow
<1>3. InWindow(r.key, r.at)' \subseteq granted'[r.key] /\ IsFiniteSet(granted'[r.key])
  BY <1>1 DEF LimiterInv, Past, InWindow
<1>4. IsFiniteSet(InWindow(r.key, r.at)')
  BY <1>3, FS_Subset
<1>5. Cardinality(InWindow(r.key, r.at)) <= Cardinality(InWindow(r.key, r.at)')
  BY <1>2, <1>4, FS_Subset
<1>6. Cardinality(InWindow(r.key, r.at)) \in Nat /\ Cardinality(InWindow(r.key, r.at)') \in Nat
  BY <1>1, <1>4, WindowFinite, FS_CardinalityType DEF LimiterInv
<1>7. Cardinality(InWindow(r.key, r.at)) >= r.limit
  BY DEF RefusalJustified
<1> QED BY <1>1, <1>5, <1>6, <1>7

\* A new one is, since what is remembered is the window that ends now.
LEMMA NewRefusal ==
  ASSUME LimiterInv, NEW ks \in SUBSET Keys, NEW limit, Allow(ks, limit),
         \A k \in ks : limit[k] \in 0..Ceiling[k], refusal' # refusal
  PROVE  RefusalJustified'
<1>1. PICK k \in ks : /\ ~Admits(k, limit[k])
                      /\ refusal' = {[key |-> k, at |-> now, limit |-> limit[k]]}
  BY DEF Allow
<1>2. k \in Keys /\ limit[k] \in Nat
  BY <1>1, RateLimiterAssumption
<1>3. Cardinality(Recent(k)) \in Nat /\ Recent(k) = InWindow(k, now)
  BY <1>2, RecentIsWindow DEF LimiterInv
<1>4. granted'[k] = granted[k]
  BY <1>1, <1>2, AllowKey
<1>5. Cardinality(InWindow(k, now)) >= limit[k]
  BY <1>1, <1>2, <1>3 DEF Admits
<1>6. ASSUME NEW r \in refusal' PROVE Cardinality(InWindow(r.key, r.at)') >= r.limit
  <2>1. r.key = k /\ r.at = now /\ r.limit = limit[k]
    BY <1>1, <1>6
  <2>2. InWindow(r.key, r.at)' = InWindow(k, now)
    BY <1>4, <2>1 DEF InWindow
  <2> QED BY <1>5, <2>1, <2>2
<1> QED BY <1>6 DEF RefusalJustified

BudgetInv == LimiterInv /\ RefusalJustified

LEMMA BudgetAllow ==
  ASSUME BudgetInv, NEW ks \in SUBSET Keys, NEW limit, Allow(ks, limit),
         \A k \in ks : limit[k] \in 0..Ceiling[k]
  PROVE  BudgetInv'
<1>1. LimiterInv'
  BY AllowStep DEF BudgetInv
<1>2. CASE refusal' = refusal
  <2>1. \A r \in refusal : Cardinality(InWindow(r.key, r.at)') >= r.limit
    BY <1>1, GrantedGrows, OldRefusal DEF BudgetInv
  <2> QED BY <1>1, <1>2, <2>1 DEF BudgetInv, RefusalJustified
<1>3. CASE refusal' # refusal
  BY <1>1, <1>3, NewRefusal DEF BudgetInv
<1> QED BY <1>2, <1>3

LEMMA BudgetStep == BudgetInv /\ [Next]_vars => BudgetInv'
<1> SUFFICES ASSUME BudgetInv, [Next]_vars PROVE BudgetInv'
  OBVIOUS
<1>1. CASE \E c \in Clients : ApiRequest(c) \/ \E a \in Addresses : PortalRequest(c, a)
  <2>0. PICK ks \in SUBSET Keys : \E limit :
          Allow(ks, limit) /\ \A k \in ks : limit[k] \in 0..Ceiling[k]
    BY <1>1, GatesAsk DEF BudgetInv, LimiterInv
  <2>1. PICK limit : Allow(ks, limit) /\ \A k \in ks : limit[k] \in 0..Ceiling[k]
    BY <2>0
  <2> QED BY <2>1, BudgetAllow
<1>2. CASE Prune \/ Tick \/ UNCHANGED vars
  <2>1. refusal' = refusal
    BY <1>2 DEF Prune, Tick, vars
  <2>2. LimiterInv'
    BY LimiterStep DEF BudgetInv
  <2>3. \A r \in refusal : Cardinality(InWindow(r.key, r.at)') >= r.limit
    BY <2>2, GrantedGrows, OldRefusal DEF BudgetInv
  <2> QED BY <2>1, <2>2, <2>3 DEF BudgetInv, RefusalJustified
<1> QED BY <1>1, <1>2 DEF Next, Done

LEMMA BudgetInit == Init => BudgetInv
  BY InitLimiter DEF Init, BudgetInv, RefusalJustified

\* A limiter alone: its budget is exact, for every key, limit, edit and prune.
THEOREM RateLimiterExact == Spec => []LimitExact
<1>1. BudgetInv => LimitExact
  BY DEF BudgetInv, LimiterInv, LimitExact
<1> QED BY BudgetInit, BudgetStep, <1>1, PTL DEF Spec

-----------------------------------------------------------------------------
(* The inductive invariant.  A request has met the present moment until it  *)
(* is answered; the row it goes by is that of a moment it has met.         *)

Underway == {"lookup", "admit", "handle", "provider", "instance"}
KnowsRow == {"admit", "handle", "provider", "instance"}

Shape ==
  /\ DOMAIN pc = Handlers /\ DOMAIN asked = Handlers /\ DOMAIN row = Handlers /\ DOMAIN answer = Handlers
  /\ DOMAIN met = Handlers
  /\ providers \in Nat

Served(r) ==
  \E x, y \in met[r] : x.live /\ Allowed(Route(r), x.scopes, y.object)

RequestOf(r) ==
  /\ pc[r] # "idle" => \E q \in Request : asked[r] = {q}
  /\ pc[r] \in Underway => Moment[Key(r)] \in met[r]
  /\ pc[r] \in KnowsRow => \E x \in met[r] : x.live /\ x.scopes = RowRead(r).scopes
  /\ pc[r] = "handle" => Route(r).kind # "object"
  /\ pc[r] \in {"provider", "instance"} => Route(r).kind = "object"
  /\ pc[r] = "instance" => providers >= 1
  /\ pc[r] = "answered" /\ answer[r] = 200 /\ OneConfig(r) => Served(r)

AccessInv == Shape /\ \A r \in Handlers : RequestOf(r)

\* A request has a key and a route.
LEMMA RequestParts ==
  ASSUME NEW r, NEW q \in Request, asked[r] = {q}
  PROVE  Key(r) = q.key /\ Route(r) = q.route /\ Key(r) \in Clients \cup {Unknown}
<1>1. (CHOOSE p \in asked[r] : TRUE) = q
  OBVIOUS
<1> QED
  BY <1>1 DEF Key, Route, Request

\* The row that was read.
LEMMA RowIs ==
  ASSUME NEW r, NEW c, row[r] = {c}
  PROVE  RowRead(r) = c
  BY DEF RowRead

\* What a request under way has met it goes on having met, and the moment
\* after the step besides.
LEMMA Watched ==
  ASSUME Shape, Watch, NEW r \in Handlers, NEW q \in Request, asked'[r] = {q}
  PROVE  /\ pc[r] \in {"answered", "touch"} => met'[r] = met[r]
         /\ pc[r] \notin {"answered", "touch"} => met'[r] = met[r] \cup {Moment'[q.key]}
         /\ DOMAIN met' = Handlers
  BY DEF Watch, Shape

\* A step that is not the request's own.
LEMMA NotItsStep ==
  ASSUME Shape, Watch, NEW r \in Handlers, RequestOf(r),
         pc'[r] = pc[r], asked'[r] = asked[r], row'[r] = row[r], answer'[r] = answer[r],
         providers' \in Nat, providers' >= providers
  PROVE  RequestOf(r)'
<1>1. CASE pc[r] = "idle"
  BY <1>1 DEF RequestOf, Underway, KnowsRow
<1>2. ASSUME NEW q \in Request, asked[r] = {q} PROVE RequestOf(r)'
  <2>1. Key(r)' = Key(r) /\ Route(r)' = Route(r) /\ RowRead(r)' = RowRead(r) /\ Key(r) = q.key
    BY <1>2, RequestParts DEF Key, Route, RowRead
  <2>2. met[r] \subseteq met'[r] /\ (pc[r] \in Underway => Moment'[q.key] \in met'[r])
    BY <1>2, Watched DEF Underway
  <2>3. pc[r] \in Underway => Moment'[Key(r)'] \in met'[r]
    BY <2>1, <2>2
  <2>4. pc[r] \in KnowsRow => \E x \in met'[r] : x.live /\ x.scopes = RowRead(r)'.scopes
    BY <2>1, <2>2 DEF RequestOf
  <2>5. OneConfig(r)' => OneConfig(r)
    BY <2>1 DEF OneConfig, Shape
  <2>6. Served(r) => Served(r)'
    BY <2>1, <2>2, Zenon DEF Served, Allowed
  <2> QED
    BY <1>2, <2>1, <2>3, <2>4, <2>5, <2>6 DEF RequestOf, Shape
<1> QED
  BY <1>1, <1>2 DEF RequestOf

-----------------------------------------------------------------------------
(* The steps of a request.                                                 *)

\* A step of a request under way: it is still the same request, and what it
\* has met it has met.
LEMMA StillIt ==
  ASSUME Shape, Watch, NEW r \in Handlers, RequestOf(r), pc[r] \in Underway, asked'[r] = asked[r]
  PROVE  \E q \in Request :
           /\ asked[r] = {q} /\ Key(r) = q.key /\ Route(r) = q.route
           /\ Key(r)' = q.key /\ Route(r)' = q.route /\ q.key \in Clients \cup {Unknown}
           /\ met[r] \subseteq met'[r] /\ Moment'[Key(r)'] \in met'[r] /\ Moment[q.key] \in met[r]
<1>1. PICK q \in Request : asked[r] = {q}
  BY DEF RequestOf, Underway
<1>2. Key(r) = q.key /\ Route(r) = q.route /\ q.key \in Clients \cup {Unknown}
  BY <1>1, RequestParts
<1>3. Key(r)' = Key(r) /\ Route(r)' = Route(r)
  BY DEF Key, Route
<1>4. met[r] \subseteq met'[r] /\ Moment'[q.key] \in met'[r]
  BY <1>1, Watched DEF Underway
<1>5. Moment'[Key(r)'] \in met'[r]
  BY <1>2, <1>3, <1>4
<1>6. Moment[q.key] \in met[r]
  BY <1>2 DEF RequestOf
<1> QED
  BY <1>1, <1>2, <1>3, <1>4, <1>5, <1>6

\* It is answered.
LEMMA Answered ==
  ASSUME Shape, Watch, NEW r \in Handlers, RequestOf(r), pc[r] \in Underway, asked'[r] = asked[r],
         NEW status, Answer(r, status), status = 200 /\ OneConfig(r)' => Served(r)
  PROVE  RequestOf(r)'
<1>1. pc'[r] = "answered" /\ answer'[r] = status
  BY DEF Answer, Shape
<1>2. PICK q \in Request : asked[r] = {q} /\ Route(r) = q.route /\ Route(r)' = q.route /\ met[r] \subseteq met'[r]
  BY StillIt
<1>3. Served(r) => Served(r)'
  BY <1>2, Zenon DEF Served, Allowed
<1> QED
  BY <1>1, <1>2, <1>3 DEF RequestOf, Underway, KnowsRow

\* It goes on.
LEMMA Advanced ==
  ASSUME Shape, Watch, NEW r \in Handlers, RequestOf(r), pc[r] \in Underway, asked'[r] = asked[r],
         NEW step \in KnowsRow, Goto(r, step),
         \E x \in met[r] : x.live /\ x.scopes = RowRead(r)'.scopes,
         step = "handle" => Route(r).kind # "object",
         step \in {"provider", "instance"} => Route(r).kind = "object",
         step = "instance" => providers' >= 1
  PROVE  RequestOf(r)'
<1>1. pc'[r] = step
  BY DEF Goto, Shape
<1>2. PICK q \in Request : /\ asked[r] = {q} /\ Route(r) = q.route /\ Route(r)' = q.route
                           /\ met[r] \subseteq met'[r] /\ Moment'[Key(r)'] \in met'[r]
  BY StillIt
<1>3. \E x \in met'[r] : x.live /\ x.scopes = RowRead(r)'.scopes
  BY <1>2
<1> QED
  BY <1>1, <1>2, <1>3 DEF RequestOf, Underway, KnowsRow

LEMMA StepArrive ==
  ASSUME Shape, Watch, NEW r \in Handlers, NEW q \in Request, Arrive(r, q)
  PROVE  RequestOf(r)'
<1>1. pc[r] = "idle" /\ pc'[r] = "lookup" /\ asked'[r] = {q}
  BY DEF Arrive, Goto, Shape
<1>2. Moment'[q.key] \in met'[r]
  BY <1>1, Watched
<1>3. Key(r)' = q.key
  <2>1. (CHOOSE p \in asked'[r] : TRUE) = q
    BY <1>1
  <2> QED
    BY <2>1 DEF Key
<1> QED
  BY <1>1, <1>2, <1>3 DEF RequestOf, Underway, KnowsRow

\* The row that is read is the client's of this moment, and its key is good.
LEMMA StepLookup ==
  ASSUME Shape, Watch, NEW r \in Handlers, RequestOf(r), Lookup(r) \/ LookupErrs(r)
  PROVE  RequestOf(r)'
<1>1. pc[r] = "lookup" /\ pc[r] \in Underway /\ asked' = asked
  BY DEF Lookup, LookupErrs, Underway
<1>2. PICK q \in Request : /\ asked[r] = {q} /\ Key(r) = q.key /\ Route(r) = q.route
                           /\ q.key \in Clients \cup {Unknown} /\ Moment[q.key] \in met[r]
  BY <1>1, StillIt
<1>3. CASE Lookup(r) /\ Live(Key(r))
  <2>1. /\ row' = [row EXCEPT ![r] = {clients[q.key]}]
        /\ Goto(r, IF Route(r).kind = "mcp" THEN "handle" ELSE "admit")
    BY <1>2, <1>3 DEF Lookup
  <2>2. RowRead(r)' = clients[q.key]
    <3>1. row'[r] = {clients[q.key]}
      BY <2>1 DEF Shape
    <3> QED
      BY <3>1 DEF RowRead
  <2>3. Moment[q.key].live /\ Moment[q.key].scopes = clients[q.key].scopes
    BY <1>2, <1>3 DEF Moment, Live
  <2>4. \E x \in met[r] : x.live /\ x.scopes = RowRead(r)'.scopes
    BY <1>2, <2>2, <2>3
  <2> QED
    BY <1>1, <2>1, <2>4, Advanced DEF KnowsRow
<1>4. CASE Lookup(r) /\ ~Live(Key(r))
  <2>1. Answer(r, 401)
    BY <1>4 DEF Lookup
  <2> QED
    BY <1>1, <2>1, Answered
<1>5. CASE LookupErrs(r)
  <2>1. Answer(r, IF Route(r).kind = "mcp" THEN 401 ELSE 500)
    BY <1>5 DEF LookupErrs
  <2> QED
    BY <1>1, <2>1, Answered
<1> QED
  BY <1>3, <1>4, <1>5

LEMMA StepAdmit ==
  ASSUME Shape, Watch, NEW r \in Handlers, RequestOf(r), Admit(r)
  PROVE  RequestOf(r)'
<1>1. pc[r] = "admit" /\ pc[r] \in Underway /\ asked' = asked /\ row' = row
  BY DEF Admit, Underway
<1>2. CASE Goto(r, Behind(r))
  <2>1. \E x \in met[r] : x.live /\ x.scopes = RowRead(r)'.scopes
    BY <1>1 DEF RequestOf, KnowsRow, RowRead
  <2> QED
    BY <1>1, <1>2, <2>1, Advanced DEF Behind, KnowsRow
<1>3. CASE Answer(r, 429)
  BY <1>1, <1>3, Answered
<1> QED
  BY <1>2, <1>3 DEF Admit

\* A route with a scope of its own.
LEMMA StepHandle ==
  ASSUME Shape, Watch, NEW r \in Handlers, RequestOf(r), Handle(r)
  PROVE  RequestOf(r)'
<1>1. pc[r] = "handle" /\ pc[r] \in Underway /\ asked' = asked
  BY DEF Handle, Underway
<1>2. CASE Answer(r, 403)
  BY <1>1, <1>2, Answered
<1>3. CASE Route(r).scope \in RowRead(r).scopes
  <2>1. PICK status \in {200, 500} : Answer(r, status)
    BY <1>3 DEF Handle
  <2>2. Served(r)
    BY <1>1, <1>3 DEF RequestOf, KnowsRow, Served, Allowed
  <2> QED
    BY <1>1, <2>1, <2>2, Answered
<1> QED
  BY <1>2, <1>3 DEF Handle

\* An object, as a configuration declares it that the request has met.
LEMMA DecideServes ==
  ASSUME Shape, Watch, NEW r \in Handlers, RequestOf(r), pc[r] \in {"provider", "instance"}, asked'[r] = asked[r],
         NEW config, Decide(r, config),
         \/ Exposed[config[ObjectsPart]] = {}
         \/ OneConfig(r)' => \E y \in met[r] : y.object = Exposed[config[ObjectsPart]]
  PROVE  RequestOf(r)'
<1> DEFINE declared == Exposed[config[ObjectsPart]]
           object == CHOOSE o \in declared : TRUE
           write == Route(r).write
<1>0. pc[r] \in Underway /\ Route(r).kind = "object"
  BY DEF RequestOf, Underway
<1>1. CASE \E status \in {403, 404, 405} : Answer(r, status)
  BY <1>0, <1>1, Answered
<1>2. CASE /\ declared # {} /\ ~(write /\ object.writes = {}) /\ Needed(object, write) \subseteq RowRead(r).scopes
           /\ \E status \in {200, 500} : Answer(r, status)
  <2>1. PICK status \in {200, 500} : Answer(r, status)
    BY <1>2
  <2>2. ASSUME OneConfig(r)' PROVE Served(r)
    <3>1. PICK y \in met[r] : y.object = declared
      BY <1>2, <2>2
    <3>2. PICK x \in met[r] : x.live /\ x.scopes = RowRead(r).scopes
      BY DEF RequestOf, KnowsRow
    <3>3. object \in y.object
      BY <1>2, <3>1
    <3> HIDE DEF declared, object
    <3>4. Allowed(Route(r), x.scopes, y.object)
      <4>1. CASE write
        BY <1>0, <1>2, <3>2, <3>3, <4>1 DEF Allowed, Needed
      <4>2. CASE ~write
        BY <1>0, <1>2, <3>2, <3>3, <4>2 DEF Allowed, Needed
      <4> QED
        BY <4>1, <4>2
    <3> QED
      BY <3>2, <3>4 DEF Served
  <2> QED
    BY <1>0, <2>1, <2>2, Answered
<1> QED
  BY <1>1, <1>2 DEF Decide

LEMMA StepObject ==
  ASSUME Shape, Watch, NEW r \in Handlers, RequestOf(r), providers' = providers,
         ReadProvider(r) \/ ReadInstance(r) \/ ConfigErrs(r)
  PROVE  RequestOf(r)'
<1>1. pc[r] \in {"provider", "instance"} /\ pc[r] \in Underway /\ asked' = asked /\ row' = row
  BY DEF ReadProvider, ReadInstance, ConfigErrs, Underway
<1>2. PICK q \in Request : /\ asked[r] = {q} /\ Route(r) = q.route /\ Route(r)' = q.route
                           /\ q.key \in Clients \cup {Unknown} /\ Moment[q.key] \in met[r]
  BY <1>1, StillIt
<1>3. Moment[q.key].object = Exposed[Shown[ObjectsPart]]
  BY <1>2 DEF Moment
<1>4. Exposed[Empty[ObjectsPart]] = {}
  <2>1. Empty[ObjectsPart] = 0
    BY GatewayAssumption DEF Empty, Parts
  <2> QED
    BY <2>1, GatewayAssumption
<1>5. CASE ConfigErrs(r)
  <2>1. Decide(r, Empty)
    BY <1>5 DEF ConfigErrs
  <2> QED
    BY <1>1, <1>4, <2>1, DecideServes
<1>6. CASE ReadProvider(r) /\ providers = 1
  <2>1. Goto(r, "instance")
    BY <1>6 DEF ReadProvider
  <2>2. \E x \in met[r] : x.live /\ x.scopes = RowRead(r)'.scopes
    BY <1>1 DEF RequestOf, KnowsRow, RowRead
  <2>3. Route(r).kind = "object" /\ providers' >= 1
    BY <1>1, <1>6 DEF RequestOf
  <2> QED
    BY <1>1, <2>1, <2>2, <2>3, Advanced DEF KnowsRow
<1>7. CASE ReadProvider(r) /\ providers # 1
  <2>1. Decide(r, Empty)
    BY <1>7 DEF ReadProvider
  <2> QED
    BY <1>1, <1>4, <2>1, DecideServes
<1>8. CASE ReadInstance(r)
  <2>1. pc[r] = "instance" /\ Decide(r, ShownBy(1))
    BY <1>8 DEF ReadInstance
  <2>2. OneConfig(r)' => Shown = ShownBy(1)
    <3>1. providers >= 1 /\ Route(r)'.kind = "object" /\ providers \in Nat
      BY <1>2, <2>1 DEF RequestOf, Shape
    <3> QED
      BY <3>1 DEF OneConfig, Shown
  <2>3. OneConfig(r)' => \E y \in met[r] : y.object = Exposed[ShownBy(1)[ObjectsPart]]
    BY <1>2, <1>3, <2>2
  <2> QED
    BY <1>1, <2>1, <2>3, DecideServes
<1> QED
  BY <1>5, <1>6, <1>7, <1>8

\* The line is written, and the request is over.
LEMMA StepLog ==
  ASSUME Shape, Watch, NEW r \in Handlers, RequestOf(r), Log(r) \/ LogErrs(r) \/ Touch(r) \/ TouchErrs(r)
  PROVE  RequestOf(r)'
<1>1. CASE Leave(r)
  BY <1>1 DEF Leave, Shape, RequestOf, Underway, KnowsRow
<1>2. CASE pc' = [pc EXCEPT ![r] = "touch"] /\ UNCHANGED <<asked, row, answer, tripped>> /\ pc[r] = "answered"
  BY <1>2 DEF Shape, RequestOf, Underway, KnowsRow
<1> QED
  BY <1>1, <1>2 DEF Log, LogErrs, Touch, TouchErrs

-----------------------------------------------------------------------------
(* What a step leaves alone.                                               *)

\* Serving one request leaves the others where they are.
OthersStay(r) ==
  /\ DOMAIN pc' = Handlers /\ DOMAIN asked' = Handlers /\ DOMAIN row' = Handlers /\ DOMAIN answer' = Handlers
  /\ \A p \in Handlers \ {r} :
       pc'[p] = pc[p] /\ asked'[p] = asked[p] /\ row'[p] = row[p] /\ answer'[p] = answer[p]

LEMMA AnswerStays ==
  ASSUME Shape, NEW r \in Handlers, NEW status, Answer(r, status), UNCHANGED <<asked, row>>
  PROVE  OthersStay(r)
  BY DEF Answer, OthersStay, Shape

LEMMA GotoStays ==
  ASSUME Shape, NEW r \in Handlers, NEW step, Goto(r, step), UNCHANGED <<asked, row>>
  PROVE  OthersStay(r)
  BY DEF Goto, OthersStay, Shape

LEMMA LeaveStays ==
  ASSUME Shape, NEW r \in Handlers, Leave(r)
  PROVE  OthersStay(r)
  BY DEF Leave, OthersStay, Shape

LEMMA DecideStays ==
  ASSUME Shape, NEW r \in Handlers, NEW config, Decide(r, config), UNCHANGED <<asked, row>>
  PROVE  OthersStay(r)
  BY AnswerStays DEF Decide

LEMMA OthersSame ==
  ASSUME Shape, NEW r \in Handlers, Serve(r) \/ Errs(r)
  PROVE  OthersStay(r)
<1>1. ASSUME NEW q \in Request, Arrive(r, q) PROVE OthersStay(r)
  BY <1>1 DEF Arrive, Goto, OthersStay, Shape
<1>2. CASE Lookup(r) \/ LookupErrs(r)
  <2>1. CASE Lookup(r) /\ Live(Key(r))
    BY <2>1 DEF Lookup, Goto, OthersStay, Shape
  <2>2. CASE Lookup(r) /\ ~Live(Key(r))
    BY <2>2, AnswerStays DEF Lookup
  <2>3. CASE LookupErrs(r)
    BY <2>3, AnswerStays DEF LookupErrs
  <2> QED
    BY <1>2, <2>1, <2>2, <2>3
<1>3. CASE Admit(r)
  BY <1>3, AnswerStays, GotoStays DEF Admit
<1>4. CASE Handle(r)
  BY <1>4, AnswerStays DEF Handle
<1>5. CASE ReadProvider(r) \/ ReadInstance(r) \/ ConfigErrs(r)
  BY <1>5, GotoStays, DecideStays DEF ReadProvider, ReadInstance, ConfigErrs
<1>6. CASE Log(r) \/ LogErrs(r) \/ Touch(r) \/ TouchErrs(r)
  <2>1. ASSUME pc' = [pc EXCEPT ![r] = "touch"], UNCHANGED <<asked, row, answer, tripped>> PROVE OthersStay(r)
    BY <2>1 DEF OthersStay, Shape
  <2> QED
    BY <1>6, <2>1, LeaveStays DEF Log, LogErrs, Touch, TouchErrs
<1> QED
  BY <1>1, <1>2, <1>3, <1>4, <1>5, <1>6 DEF Serve, Errs

\* Windows and polls take no provider away.
LEMMA ProvidersStay ==
  ASSUME providers \in Nat,
         \/ \E a \in Actors : Find(a)
         \/ \E w \in Windows : Edit(w)
         \/ \E p \in Polls : Poll(p)
  PROVE  providers' \in Nat /\ providers' >= providers
<1>1. ASSUME NEW a \in Actors, Find(a) PROVE providers' \in Nat /\ providers' >= providers
  BY <1>1 DEF Find, FindProvider, FindInstance, LookupFails, AddProvider, AddInstance, AddFails, tables
<1>2. ASSUME NEW w \in Windows, Edit(w) PROVE providers' \in Nat /\ providers' >= providers
  <2>1. CASE (\E of \in {"settings"} \cup Mappings : Open(w, of)) \/ (\E part \in Parts : Save(w, part)) \/ Close(w)
    <3>1. UNCHANGED tables
      BY <2>1, Zenon DEF Open, Save, Close
    <3> QED
      BY <3>1 DEF tables
  <2>2. CASE Write(w) \/ WriteFails(w)
    <3>1. UNCHANGED providers
      BY <2>2, Zenon DEF Write, WriteFails
    <3> QED
      BY <3>1
  <2> QED
    BY <1>2, <2>1, <2>2 DEF Edit
<1>3. ASSUME NEW p \in Polls, Poll(p) PROVE providers' \in Nat /\ providers' >= providers
  <2>1. UNCHANGED tables
    BY <1>3, Zenon DEF Poll, BeginPoll, StartRun, StartFails, Ingest, FinishRun, FinishFails
  <2> QED
    BY <2>1 DEF tables
<1> QED
  BY <1>1, <1>2, <1>3

-----------------------------------------------------------------------------
(* The log.  The answers that are due and not in it are the ones whose hook *)
(* has not run; a request's line has its client because the row it goes by *)
(* is there from the look-up to the end.                                   *)

RowOK(r) ==
  /\ pc[r] \in {"idle", "lookup"} => row[r] = {}
  /\ pc[r] \in KnowsRow \cup {"touch"} => row[r] # {}
  /\ row[r] = {} \/ \E x \in ClientRow : row[r] = {x} /\ Key(r) \in Clients /\ x.limit <= Ceiling[Key(r)]
  /\ pc[r] = "answered" => answer[r] \in Statuses

RowsOK == \A r \in Handlers : RowOK(r)

Steps == {"idle", "lookup", "admit", "handle", "provider", "instance", "answered", "touch"}

Awaited(l) == {r \in Handlers : pc[r] = "answered" /\ IsLogged(r, answer[r]) /\ LineOf(r) = l}

LEMMA AwaitedFinite ==
  ASSUME IsFiniteSet(Handlers), NEW l
  PROVE  IsFiniteSet(Awaited(l)) /\ Cardinality(Awaited(l)) \in Nat
<1>1. Awaited(l) \subseteq Handlers
  BY DEF Awaited
<1>2. IsFiniteSet(Awaited(l))
  BY <1>1, FS_Subset
<1> QED
  BY <1>2, FS_CardinalityType

\* What is due is logged or awaited.
LEMMA LoggedIs == Logged <=> \A l \in Line : due[l] = logs[l] + Cardinality(Awaited(l))
  BY DEF Logged, Awaited

LEMMA LoggedNext == Logged' <=> \A l \in Line : due'[l] = logs'[l] + Cardinality(Awaited(l)')
  BY DEF Logged, Awaited

\* A request's step does not concern the other requests' lines.
LEMMA OthersAwaited ==
  ASSUME NEW r \in Handlers, OthersStay(r), NEW l
  PROVE  Awaited(l)' \ {r} = Awaited(l) \ {r}
<1>1. ASSUME NEW p \in Handlers, p # r
      PROVE  /\ pc'[p] = pc[p] /\ LineOf(p)' = LineOf(p)
             /\ IsLogged(p, answer[p])' <=> IsLogged(p, answer[p])
  <2>1. pc'[p] = pc[p] /\ asked'[p] = asked[p] /\ row'[p] = row[p] /\ answer'[p] = answer[p]
    BY <1>1 DEF OthersStay
  <2>2. Key(p)' = Key(p) /\ Route(p)' = Route(p)
    BY <2>1 DEF Key, Route
  <2> QED
    BY <2>1, <2>2 DEF LineOf, IsLogged
<1> QED
  BY <1>1 DEF Awaited

LEMMA SameWithout ==
  ASSUME NEW A, NEW B, NEW r, r \notin A, r \notin B, A \ {r} = B \ {r}
  PROVE  A = B
  OBVIOUS

\* It comes, or goes on, or goes away.
LEMMA LedgerStill ==
  ASSUME Logged, NEW r \in Handlers, OthersStay(r), UNCHANGED <<logs, due>>,
         pc[r] # "answered" \/ ~IsLogged(r, answer[r]), pc'[r] # "answered"
  PROVE  Logged'
<1>1. ASSUME NEW l \in Line PROVE Awaited(l)' = Awaited(l)
  <2>1. r \notin Awaited(l) /\ r \notin Awaited(l)'
    BY DEF Awaited
  <2> QED
    BY <2>1, OthersAwaited
<1> QED
  BY <1>1, LoggedIs, LoggedNext

LEMMA LineType ==
  ASSUME NEW c \in Clients \cup {Nobody}, NEW status \in Statuses
  PROVE  [client |-> c, status |-> status] \in Line
  BY DEF Line

\* It is answered.
LEMMA LedgerAnswer ==
  ASSUME IsFiniteSet(Handlers), Shape, Logged, due \in [Line -> Nat], logs \in [Line -> Nat],
         NEW r \in Handlers, RowOK(r), pc[r] \in Underway, NEW status \in Statuses, Answer(r, status),
         UNCHANGED <<asked, row, logs>>
  PROVE  Logged' /\ due' \in [Line -> Nat] /\ RowOK(r)'
<1> DEFINE l0 == [client |-> Caller(r), status |-> status]
<1>1. /\ pc'[r] = "answered" /\ answer'[r] = status /\ pc[r] # "answered"
      /\ OthersStay(r)
  BY AnswerStays DEF Answer, Shape, Underway
<1>2. Key(r)' = Key(r) /\ Route(r)' = Route(r) /\ row'[r] = row[r]
  BY DEF Key, Route
<1>3. Caller(r) = IF row[r] = {} THEN Nobody ELSE Key(r)
  BY DEF Caller, RowOK, Underway, KnowsRow
<1>4. LineOf(r)' = l0 /\ (IsLogged(r, answer[r])' <=> IsLogged(r, status))
  BY <1>1, <1>2, <1>3 DEF LineOf, IsLogged
<1>5. l0 \in Line
  <2>1. Caller(r) \in Clients \cup {Nobody}
    BY <1>3 DEF RowOK
  <2> QED
    BY <2>1, LineType
<1>6. due' = IF IsLogged(r, status) THEN [due EXCEPT ![l0] = @ + 1] ELSE due
  BY DEF Answer
<1>7. RowOK(r)'
  BY <1>1, <1>2 DEF RowOK, KnowsRow
<1> HIDE DEF l0
<1>8. due' \in [Line -> Nat]
  BY <1>5, <1>6
<1>9. ASSUME NEW l \in Line PROVE due'[l] = logs'[l] + Cardinality(Awaited(l)')
  <2>1. due[l] = logs[l] + Cardinality(Awaited(l)) /\ due[l] \in Nat /\ logs[l] \in Nat /\ logs'[l] = logs[l]
    BY LoggedIs
  <2>2. IsFiniteSet(Awaited(l)) /\ Cardinality(Awaited(l)) \in Nat /\ r \notin Awaited(l)
    BY <1>1, AwaitedFinite DEF Awaited
  <2>3. CASE IsLogged(r, status) /\ l = l0
    <3>1. r \in Awaited(l)'
      BY <1>1, <1>4, <2>3 DEF Awaited
    <3>2. Awaited(l)' = Awaited(l) \cup {r}
      BY <1>1, <2>2, <3>1, OthersAwaited
    <3>3. Cardinality(Awaited(l) \cup {r}) = Cardinality(Awaited(l)) + 1
      BY <2>2, FS_AddElement
    <3>4. due'[l] = due[l] + 1
      BY <1>5, <1>6, <2>3
    <3> QED
      BY <2>1, <2>2, <3>2, <3>3, <3>4
  <2>4. CASE ~(IsLogged(r, status) /\ l = l0)
    <3>1. r \notin Awaited(l)'
      BY <1>1, <1>4, <2>4 DEF Awaited
    <3>2. Awaited(l)' = Awaited(l)
      BY <1>1, <2>2, <3>1, OthersAwaited
    <3>3. due'[l] = due[l]
      BY <1>5, <1>6, <2>4
    <3> QED
      BY <2>1, <3>2, <3>3
  <2> QED
    BY <2>3, <2>4
<1> QED
  BY <1>7, <1>8, <1>9, LoggedNext

\* Its line is written, or the insert fails and nothing is due any more.
LEMMA LedgerLine ==
  ASSUME IsFiniteSet(Handlers), Shape, Logged, due \in [Line -> Nat], logs \in [Line -> Nat],
         NEW r \in Handlers, RowOK(r), pc[r] = "answered", IsLogged(r, answer[r]), OthersStay(r), pc'[r] # "answered",
         \/ logs' = [logs EXCEPT ![LineOf(r)] = @ + 1] /\ UNCHANGED due
         \/ due' = [due EXCEPT ![LineOf(r)] = @ - 1] /\ UNCHANGED logs
  PROVE  Logged' /\ due' \in [Line -> Nat] /\ logs' \in [Line -> Nat]
<1>0. LineOf(r) \in Line
  BY LineType DEF RowOK, LineOf
<1>1. PICK l0 \in Line : l0 = LineOf(r)
  BY <1>0
<1>2. r \in Awaited(l0) /\ \A l : l # l0 => r \notin Awaited(l)
  BY <1>1 DEF Awaited
<1>3. ASSUME NEW l PROVE r \notin Awaited(l)'
  BY DEF Awaited
<1>4. \/ logs' = [logs EXCEPT ![l0] = @ + 1] /\ UNCHANGED due
      \/ due' = [due EXCEPT ![l0] = @ - 1] /\ UNCHANGED logs
  BY <1>1
<1>5. /\ Cardinality(Awaited(l0)') = Cardinality(Awaited(l0)) - 1
      /\ Cardinality(Awaited(l0)) \in Nat /\ Cardinality(Awaited(l0)') \in Nat
  <2>1. IsFiniteSet(Awaited(l0)) /\ Cardinality(Awaited(l0)) \in Nat
    BY AwaitedFinite
  <2>2. Awaited(l0)' = Awaited(l0) \ {r}
    BY <1>3, OthersAwaited
  <2>3. Cardinality(Awaited(l0) \ {r}) = Cardinality(Awaited(l0)) - 1
    BY <1>2, <2>1, FS_RemoveElement
  <2>4. Cardinality(Awaited(l0) \ {r}) \in Nat
    BY <2>1, FS_RemoveElement, FS_CardinalityType
  <2> QED
    BY <2>1, <2>2, <2>3, <2>4
<1>6. due[l0] = logs[l0] + Cardinality(Awaited(l0)) /\ due[l0] \in Nat /\ logs[l0] \in Nat
  BY <1>1, LoggedIs
<1>7. due[l0] - 1 \in Nat
  BY <1>5, <1>6
<1>8. due' \in [Line -> Nat] /\ logs' \in [Line -> Nat]
  BY <1>1, <1>4, <1>7
<1>9. ASSUME NEW l \in Line PROVE due'[l] = logs'[l] + Cardinality(Awaited(l)')
  <2>1. CASE l = l0
    <3>1. \/ due'[l0] = due[l0] /\ logs'[l0] = logs[l0] + 1
          \/ due'[l0] = due[l0] - 1 /\ logs'[l0] = logs[l0]
      BY <1>1, <1>4
    <3> QED
      BY <1>5, <1>6, <2>1, <3>1
  <2>2. CASE l # l0
    <3>0. r \notin Awaited(l) /\ r \notin Awaited(l)'
      BY <1>2, <1>3, <2>2
    <3>1. Awaited(l)' = Awaited(l)
      <4>1. Awaited(l)' \ {r} = Awaited(l) \ {r}
        BY OthersAwaited
      <4> QED
        BY <3>0, <4>1, SameWithout
    <3>2. due'[l] = due[l] /\ logs'[l] = logs[l]
      BY <1>1, <1>4, <2>2
    <3> QED
      BY <3>1, <3>2, LoggedIs
  <2> QED
    BY <2>1, <2>2
<1> QED
  BY <1>8, <1>9, LoggedNext

LedgerInv == GateTypeOK /\ RowsOK /\ Logged

LEMMA LedgerTypes ==
  ASSUME LedgerInv
  PROVE  /\ clients \in [Clients -> ClientRow] /\ \A c \in Clients : clients[c].limit <= Ceiling[c]
         /\ pc \in [Handlers -> Steps] /\ answer \in [Handlers -> {0} \cup Statuses]
         /\ \A r \in Handlers : asked[r] \subseteq Request /\ row[r] \subseteq ClientRow /\ RowOK(r)
         /\ logs \in [Line -> Nat] /\ due \in [Line -> Nat] /\ used \subseteq Clients
         /\ arrived \in 0..MaxRequests /\ patches \in 0..MaxPatches /\ tripped \subseteq Handlers
         /\ Logged
  BY DEF LedgerInv, GateTypeOK, RowsOK, Steps

\* What a request's step has to leave behind.
Sane(r) ==
  /\ pc' \in [Handlers -> Steps] /\ answer' \in [Handlers -> {0} \cup Statuses]
  /\ asked'[r] \subseteq Request /\ row'[r] \subseteq ClientRow /\ RowOK(r)'
  /\ logs' \in [Line -> Nat] /\ due' \in [Line -> Nat] /\ Logged'
  /\ used' \subseteq Clients /\ arrived' \in 0..MaxRequests /\ tripped' \subseteq Handlers
  /\ UNCHANGED <<clients, patches>>

LEMMA SaneIsEnough ==
  ASSUME LedgerInv, NEW r \in Handlers, OthersStay(r), Sane(r)
  PROVE  LedgerInv'
<1>1. ASSUME NEW p \in Handlers
      PROVE  asked'[p] \subseteq Request /\ row'[p] \subseteq ClientRow /\ RowOK(p)'
  <2>1. CASE p = r
    BY <2>1 DEF Sane
  <2>2. CASE p # r
    <3>1. pc'[p] = pc[p] /\ asked'[p] = asked[p] /\ row'[p] = row[p] /\ answer'[p] = answer[p]
      BY <2>2 DEF OthersStay
    <3>2. Key(p)' = Key(p)
      BY <3>1 DEF Key
    <3> QED
      BY <3>1, <3>2, LedgerTypes DEF RowOK
  <2> QED
    BY <2>1, <2>2
<1>2. GateTypeOK'
  BY <1>1, LedgerTypes DEF Sane, GateTypeOK, Steps
<1>3. RowsOK'
  BY <1>1 DEF RowsOK
<1> QED
  BY <1>2, <1>3 DEF LedgerInv, Sane

LEMMA SaneAnswer ==
  ASSUME IsFiniteSet(Handlers), Shape, LedgerInv, NEW r \in Handlers, pc[r] \in Underway,
         NEW status \in Statuses, Answer(r, status), UNCHANGED <<asked, row, logs, used, arrived, clients, patches>>,
         tripped' \subseteq Handlers
  PROVE  Sane(r)
<1>1. Logged' /\ due' \in [Line -> Nat] /\ RowOK(r)'
  BY LedgerTypes, LedgerAnswer
<1>2. pc' \in [Handlers -> Steps] /\ answer' \in [Handlers -> {0} \cup Statuses]
  BY LedgerTypes DEF Answer, Steps
<1> QED
  BY <1>1, <1>2, LedgerTypes DEF Sane

LEMMA SaneGoto ==
  ASSUME Shape, LedgerInv, NEW r \in Handlers, pc[r] \in Underway,
         NEW step \in KnowsRow, Goto(r, step), UNCHANGED <<asked, logs, used, arrived, clients, patches, tripped>>,
         OthersStay(r), row'[r] # {},
         \E x \in ClientRow : row'[r] = {x} /\ Key(r) \in Clients /\ x.limit <= Ceiling[Key(r)]
  PROVE  Sane(r)
<1>1. pc' \in [Handlers -> Steps] /\ pc'[r] = step /\ UNCHANGED <<answer, due>>
  BY LedgerTypes DEF Goto, Steps, KnowsRow
<1>2. Key(r)' = Key(r)
  BY DEF Key
<1>3. RowOK(r)'
  BY <1>1, <1>2 DEF RowOK, KnowsRow
<1>4. Logged'
  BY <1>1, LedgerStill, LedgerTypes DEF Underway, KnowsRow
<1>5. row'[r] \subseteq ClientRow
  OBVIOUS
<1> QED
  BY <1>1, <1>3, <1>4, <1>5, LedgerTypes DEF Sane

\* The row stays what it was.
LEMMA SaneOn ==
  ASSUME Shape, LedgerInv, NEW r \in Handlers, pc[r] \in KnowsRow,
         NEW step \in KnowsRow, Goto(r, step), UNCHANGED <<asked, row, logs, used, arrived, clients, patches, tripped>>
  PROVE  Sane(r)
<1>1. OthersStay(r) /\ pc[r] \in Underway
  BY GotoStays DEF KnowsRow, Underway
<1>2. RowOK(r) /\ row' = row
  BY LedgerTypes
<1>3. row'[r] # {} /\ \E x \in ClientRow : row'[r] = {x} /\ Key(r) \in Clients /\ x.limit <= Ceiling[Key(r)]
  BY <1>2 DEF RowOK
<1> QED
  BY <1>1, <1>3, SaneGoto

LEMMA SaneArrive ==
  ASSUME Shape, LedgerInv, NEW r \in Handlers, NEW q \in Request, Arrive(r, q)
  PROVE  Sane(r)
<1>1. /\ pc[r] = "idle" /\ pc' = [pc EXCEPT ![r] = "lookup"] /\ asked' = [asked EXCEPT ![r] = {q}]
      /\ UNCHANGED <<answer, due, row, clients, logs, used, patches, tripped>>
      /\ arrived < MaxRequests /\ arrived' = arrived + 1
  BY DEF Arrive, Goto
<1>2. OthersStay(r) /\ pc'[r] = "lookup" /\ asked'[r] = {q}
  BY <1>1 DEF OthersStay, Shape
<1>3. pc' \in [Handlers -> Steps]
  BY <1>1, LedgerTypes DEF Steps
<1>4. RowOK(r)'
  <2>1. row[r] = {}
    BY <1>1, LedgerTypes DEF RowOK
  <2> QED
    BY <1>1, <1>2, <2>1 DEF RowOK, KnowsRow
<1>5. Logged'
  BY <1>1, <1>2, LedgerStill, LedgerTypes
<1>6. arrived' \in 0..MaxRequests
  BY <1>1, LedgerTypes, GatewayAssumption
<1> QED
  BY <1>1, <1>2, <1>3, <1>4, <1>5, <1>6, LedgerTypes DEF Sane

LEMMA SaneLookup ==
  ASSUME IsFiniteSet(Handlers), Shape, LedgerInv, NEW r \in Handlers, Lookup(r) \/ LookupErrs(r)
  PROVE  Sane(r)
<1>1. /\ pc[r] = "lookup" /\ pc[r] \in Underway
      /\ UNCHANGED <<asked, clients, logs, used, arrived, patches>> /\ tripped' \subseteq Handlers
  BY LedgerTypes DEF Lookup, LookupErrs, Underway
<1>2. CASE Lookup(r) /\ Live(Key(r))
  <2>1. /\ row' = [row EXCEPT ![r] = {clients[Key(r)]}] /\ UNCHANGED tripped
        /\ Goto(r, IF Route(r).kind = "mcp" THEN "handle" ELSE "admit")
    BY <1>2 DEF Lookup
  <2>2. Key(r) \in Clients /\ clients[Key(r)] \in ClientRow /\ clients[Key(r)].limit <= Ceiling[Key(r)]
    BY <1>2, LedgerTypes DEF Live
  <2>3. row'[r] = {clients[Key(r)]} /\ OthersStay(r)
    BY <1>1, <2>1 DEF Shape, Goto, OthersStay
  <2> QED
    BY <1>1, <2>1, <2>2, <2>3, SaneGoto DEF KnowsRow
<1>3. CASE Lookup(r) /\ ~Live(Key(r))
  <2>1. Answer(r, 401) /\ UNCHANGED row /\ 401 \in Statuses
    BY <1>3 DEF Lookup, Statuses
  <2> QED
    BY <1>1, <2>1, SaneAnswer
<1>4. CASE LookupErrs(r)
  <2>1. Answer(r, IF Route(r).kind = "mcp" THEN 401 ELSE 500) /\ UNCHANGED row
        /\ 401 \in Statuses /\ 500 \in Statuses
    BY <1>4 DEF LookupErrs, Statuses
  <2> QED
    BY <1>1, <2>1, SaneAnswer
<1> QED
  BY <1>2, <1>3, <1>4

LEMMA SaneDecide ==
  ASSUME IsFiniteSet(Handlers), Shape, LedgerInv, NEW r \in Handlers, pc[r] \in Underway, NEW config,
         Decide(r, config), UNCHANGED <<asked, row, logs, used, arrived, clients, patches>>,
         tripped' \subseteq Handlers
  PROVE  Sane(r)
<1>1. PICK status \in Statuses : Answer(r, status)
  BY DEF Decide, Statuses
<1> QED
  BY <1>1, SaneAnswer

LEMMA SaneServe ==
  ASSUME IsFiniteSet(Handlers), Shape, LedgerInv, NEW r \in Handlers,
         Admit(r) \/ Handle(r) \/ ReadProvider(r) \/ ReadInstance(r) \/ ConfigErrs(r)
  PROVE  Sane(r)
<1>1. /\ pc[r] \in KnowsRow /\ pc[r] \in Underway
      /\ UNCHANGED <<asked, row, clients, logs, used, arrived, patches>> /\ tripped' \subseteq Handlers
  BY LedgerTypes DEF Admit, Handle, ReadProvider, ReadInstance, ConfigErrs, KnowsRow, Underway
<1>2. ASSUME NEW step \in KnowsRow, Goto(r, step), UNCHANGED tripped PROVE Sane(r)
  BY <1>1, <1>2, SaneOn
<1>3. ASSUME NEW status \in Statuses, Answer(r, status) PROVE Sane(r)
  BY <1>1, <1>3, SaneAnswer
<1>4. CASE Admit(r)
  BY <1>2, <1>3, <1>4 DEF Admit, Behind, KnowsRow, Statuses
<1>5. CASE Handle(r)
  BY <1>3, <1>5 DEF Handle, Statuses
<1>6. CASE ReadProvider(r) /\ Goto(r, "instance")
  BY <1>2, <1>6 DEF ReadProvider, KnowsRow
<1>7. CASE \E config : Decide(r, config)
  BY <1>1, <1>7, SaneDecide
<1> QED
  BY <1>4, <1>5, <1>6, <1>7 DEF ReadProvider, ReadInstance, ConfigErrs

\* A request that is over.
LEMMA SaneLeave ==
  ASSUME Shape, LedgerInv, NEW r \in Handlers, Leave(r),
         Logged', logs' \in [Line -> Nat], due' \in [Line -> Nat], used' \subseteq Clients,
         UNCHANGED <<clients, arrived, patches>>
  PROVE  Sane(r)
<1>1. /\ pc' = [pc EXCEPT ![r] = "idle"] /\ asked' = [asked EXCEPT ![r] = {}]
      /\ row' = [row EXCEPT ![r] = {}] /\ answer' = [answer EXCEPT ![r] = 0] /\ tripped' = tripped \ {r}
  BY DEF Leave
<1>2. pc'[r] = "idle" /\ asked'[r] = {} /\ row'[r] = {}
  BY <1>1 DEF Shape
<1>3. pc' \in [Handlers -> Steps] /\ answer' \in [Handlers -> {0} \cup Statuses] /\ tripped' \subseteq Handlers
  BY <1>1, LedgerTypes DEF Steps
<1>4. RowOK(r)'
  BY <1>2 DEF RowOK, KnowsRow
<1> QED
  BY <1>2, <1>3, <1>4, LedgerTypes DEF Sane

LEMMA SaneLog ==
  ASSUME IsFiniteSet(Handlers), Shape, LedgerInv, NEW r \in Handlers, Log(r) \/ LogErrs(r)
  PROVE  Sane(r)
<1>0. /\ pc[r] = "answered" /\ RowOK(r) /\ Logged /\ due \in [Line -> Nat] /\ logs \in [Line -> Nat]
      /\ UNCHANGED <<used, clients, arrived, patches>> /\ used \subseteq Clients
  BY LedgerTypes DEF Log, LogErrs
<1>1. CASE Leave(r) /\ ~IsLogged(r, answer[r]) /\ UNCHANGED <<logs, due>>
  <2>1. OthersStay(r) /\ pc'[r] # "answered"
    BY <1>1, LeaveStays DEF Leave, Shape
  <2>2. Logged'
    BY <1>0, <1>1, <2>1, LedgerStill
  <2> QED
    BY <1>0, <1>1, <2>2, SaneLeave
<1>2. CASE /\ IsLogged(r, answer[r])
           /\ \/ logs' = [logs EXCEPT ![LineOf(r)] = @ + 1] /\ UNCHANGED due
              \/ due' = [due EXCEPT ![LineOf(r)] = @ - 1] /\ UNCHANGED logs
           /\ \/ Leave(r)
              \/ row[r] # {} /\ pc' = [pc EXCEPT ![r] = "touch"] /\ UNCHANGED <<asked, row, answer, tripped>>
  <2>1. OthersStay(r) /\ pc'[r] # "answered"
    <3>1. CASE Leave(r)
      BY <3>1, LeaveStays DEF Leave, Shape
    <3>2. CASE pc' = [pc EXCEPT ![r] = "touch"] /\ UNCHANGED <<asked, row, answer, tripped>>
      BY <3>2 DEF OthersStay, Shape
    <3> QED
      BY <1>2, <3>1, <3>2
  <2>2. Logged' /\ due' \in [Line -> Nat] /\ logs' \in [Line -> Nat]
    BY <1>0, <1>2, <2>1, LedgerLine
  <2>3. CASE Leave(r)
    BY <1>0, <2>2, <2>3, SaneLeave
  <2>4. CASE row[r] # {} /\ pc' = [pc EXCEPT ![r] = "touch"] /\ UNCHANGED <<asked, row, answer, tripped>>
    <3>1. pc' \in [Handlers -> Steps] /\ pc'[r] = "touch" /\ Key(r)' = Key(r)
      BY <2>4, LedgerTypes DEF Steps, Key
    <3>2. RowOK(r)'
      BY <1>0, <2>4, <3>1 DEF RowOK, KnowsRow
    <3> QED
      BY <1>0, <2>2, <2>4, <3>1, <3>2, LedgerTypes DEF Sane
  <2> QED
    BY <1>2, <2>3, <2>4
<1>3. CASE Log(r)
  BY <1>1, <1>2, <1>3 DEF Log
<1>4. CASE LogErrs(r)
  BY <1>2, <1>4 DEF LogErrs
<1> QED
  BY <1>3, <1>4

LEMMA SaneTouch ==
  ASSUME Shape, LedgerInv, NEW r \in Handlers, Touch(r) \/ TouchErrs(r)
  PROVE  Sane(r)
<1>1. /\ pc[r] = "touch" /\ Leave(r) /\ UNCHANGED <<clients, logs, due, arrived, patches>>
      /\ used' \in {used, used \cup {Key(r)}}
  BY DEF Touch, TouchErrs
<1>2. Key(r) \in Clients
  BY <1>1, LedgerTypes DEF RowOK
<1>3. OthersStay(r) /\ pc'[r] # "answered"
  BY <1>1, LeaveStays DEF Leave, Shape
<1>4. Logged'
  BY <1>1, <1>3, LedgerStill, LedgerTypes
<1> QED
  BY <1>1, <1>2, <1>4, LedgerTypes, SaneLeave

LEMMA LedgerServe ==
  ASSUME IsFiniteSet(Handlers), Shape, LedgerInv, NEW r \in Handlers, Serve(r) \/ Errs(r)
  PROVE  LedgerInv'
<1>1. OthersStay(r)
  BY OthersSame
<1>2. Sane(r)
  BY SaneArrive, SaneLookup, SaneServe, SaneLog, SaneTouch DEF Serve, Errs
<1> QED
  BY <1>1, <1>2, SaneIsEnough

\* Where nobody is served and nothing is written, the rows and the log stay.
LEMMA ServedSame ==
  ASSUME LedgerInv, UNCHANGED <<pc, asked, row, answer, logs, due>>
  PROVE  RowsOK' /\ Logged'
<1>1. ASSUME NEW r \in Handlers
      PROVE  /\ Key(r)' = Key(r) /\ LineOf(r)' = LineOf(r)
             /\ IsLogged(r, answer[r])' <=> IsLogged(r, answer[r])
  <2>1. Key(r)' = Key(r) /\ Route(r)' = Route(r)
    BY DEF Key, Route
  <2>2. LineOf(r)' = LineOf(r)
    BY <2>1 DEF LineOf
  <2>3. IsLogged(r, answer[r])' <=> IsLogged(r, answer[r])
    BY <2>1 DEF IsLogged
  <2> QED
    BY <2>1, <2>2, <2>3
<1>2. ASSUME NEW r \in Handlers PROVE RowOK(r)'
  <2>1. RowOK(r) /\ Key(r)' = Key(r)
    BY <1>1, LedgerTypes
  <2> QED
    BY <2>1 DEF RowOK
<1>3. ASSUME NEW l \in Line PROVE due'[l] = logs'[l] + Cardinality(Awaited(l)')
  <2>1. Awaited(l)' = Awaited(l)
    BY <1>1 DEF Awaited
  <2>2. due[l] = logs[l] + Cardinality(Awaited(l))
    BY LoggedIs DEF LedgerInv
  <2> QED
    BY <2>1, <2>2
<1>4. Logged'
  BY <1>3, LoggedNext
<1> QED
  BY <1>2, <1>4 DEF RowsOK

\* An admin's edit of a client row.
LEMMA LedgerPatch ==
  ASSUME LedgerInv, NEW c \in Clients, PatchClient(c)
  PROVE  LedgerInv'
<1> DEFINE x == clients[c]
<1>1. x \in ClientRow /\ x.limit <= Ceiling[c] /\ Ceiling[c] \in Nat
  BY LedgerTypes, RateLimiterAssumption DEF Keys
<1>2. \E e \in ClientRow : clients' = [clients EXCEPT ![c] = e] /\ e.limit <= Ceiling[c]
  <2>1. ASSUME NEW on \in BOOLEAN, clients' = [clients EXCEPT ![c].active = on]
        PROVE  \E e \in ClientRow : clients' = [clients EXCEPT ![c] = e] /\ e.limit <= Ceiling[c]
    <3> DEFINE e == [x EXCEPT !.active = on]
    <3>1. e \in ClientRow /\ e.limit <= Ceiling[c]
      BY <1>1 DEF ClientRow
    <3>2. clients' = [clients EXCEPT ![c] = e]
      BY <2>1
    <3> QED
      BY <3>1, <3>2
  <2>2. ASSUME NEW scopes \in SUBSET Scopes, clients' = [clients EXCEPT ![c].scopes = scopes]
        PROVE  \E e \in ClientRow : clients' = [clients EXCEPT ![c] = e] /\ e.limit <= Ceiling[c]
    <3> DEFINE e == [x EXCEPT !.scopes = scopes]
    <3>1. e \in ClientRow /\ e.limit <= Ceiling[c]
      BY <1>1, <2>2 DEF ClientRow
    <3>2. clients' = [clients EXCEPT ![c] = e]
      BY <2>2
    <3> QED
      BY <3>1, <3>2
  <2>3. ASSUME NEW n \in 0..Ceiling[c], clients' = [clients EXCEPT ![c].limit = n]
        PROVE  \E e \in ClientRow : clients' = [clients EXCEPT ![c] = e] /\ e.limit <= Ceiling[c]
    <3> DEFINE e == [x EXCEPT !.limit = n]
    <3>1. n \in Limits /\ n <= Ceiling[c]
      BY <1>1 DEF Limits
    <3>2. e \in ClientRow /\ e.limit <= Ceiling[c]
      BY <1>1, <3>1 DEF ClientRow
    <3>3. clients' = [clients EXCEPT ![c] = e]
      BY <2>3
    <3> QED
      BY <3>2, <3>3
  <2>4. ASSUME NEW t \in 1..(MaxTime + 1), clients' = [clients EXCEPT ![c].expires = t]
        PROVE  \E e \in ClientRow : clients' = [clients EXCEPT ![c] = e] /\ e.limit <= Ceiling[c]
    <3> DEFINE e == [x EXCEPT !.expires = t]
    <3>1. e \in ClientRow /\ e.limit <= Ceiling[c]
      BY <1>1 DEF ClientRow
    <3>2. clients' = [clients EXCEPT ![c] = e]
      BY <2>4
    <3> QED
      BY <3>1, <3>2
  <2> QED
    BY <2>1, <2>2, <2>3, <2>4 DEF PatchClient
<1>3. clients' \in [Clients -> ClientRow] /\ \A k \in Clients : clients'[k].limit <= Ceiling[k]
  BY <1>2, LedgerTypes
<1>4. UNCHANGED <<pc, asked, row, answer, logs, used, due, arrived, tripped>> /\ patches' \in 0..MaxPatches
  BY LedgerTypes, GatewayAssumption DEF PatchClient, served, ledger
<1>5. RowsOK' /\ Logged'
  BY <1>4, ServedSame
<1> QED
  BY <1>3, <1>4, <1>5, LedgerTypes DEF LedgerInv, GateTypeOK, Steps

LEMMA LedgerElsewhere ==
  ASSUME LedgerInv, UNCHANGED gateVars
  PROVE  LedgerInv'
<1>1. UNCHANGED <<clients, pc, asked, row, answer, logs, used, due, arrived, patches, tripped>>
  BY DEF gateVars, served, ledger
<1> QED
  BY <1>1, ServedSame DEF LedgerInv, GateTypeOK

\* Nothing is due after a restart but what is logged.
LEMMA NothingAwaited ==
  ASSUME logs \in [Line -> Nat], \A l \in Line : Awaited(l) = {}, due = logs
  PROVE  Logged
<1>1. Cardinality({}) = 0
  BY FS_EmptySet
<1>2. ASSUME NEW l \in Line PROVE due[l] = logs[l] + Cardinality(Awaited(l))
  <2>1. Cardinality(Awaited(l)) = 0 /\ logs[l] \in Nat
    BY <1>1
  <2> QED
    BY <2>1
<1> QED
  BY <1>2, LoggedIs

LEMMA LedgerRestart ==
  ASSUME LedgerInv, RestartGate
  PROVE  LedgerInv'
<1>1. /\ pc' = [r \in Handlers |-> "idle"] /\ asked' = [r \in Handlers |-> {}]
      /\ row' = [r \in Handlers |-> {}] /\ answer' = [r \in Handlers |-> 0]
      /\ due' = logs /\ tripped' = {} /\ UNCHANGED <<clients, logs, used, arrived, patches>>
  BY DEF RestartGate
<1>2. \A l \in Line : Awaited(l)' = {}
  BY <1>1 DEF Awaited
<1>3. Logged'
  <2>1. Cardinality({}) = 0
    BY FS_EmptySet
  <2>2. ASSUME NEW l \in Line PROVE due'[l] = logs'[l] + Cardinality(Awaited(l)')
    <3>1. Cardinality(Awaited(l)') = 0 /\ logs[l] \in Nat
      BY <1>2, <2>1, LedgerTypes
    <3> QED
      BY <1>1, <3>1
  <2> QED
    BY <2>2, LoggedNext
<1>4. RowsOK'
  BY <1>1 DEF RowsOK, RowOK, KnowsRow
<1> QED
  BY <1>1, <1>3, <1>4, LedgerTypes DEF LedgerInv, GateTypeOK

LEMMA LedgerInit == GateInit => LedgerInv
<1> SUFFICES ASSUME GateInit PROVE LedgerInv
  OBVIOUS
<1>1. /\ clients \in [Clients -> ClientRow] /\ \A c \in Clients : clients[c].limit <= Ceiling[c]
      /\ pc = [r \in Handlers |-> "idle"] /\ asked = [r \in Handlers |-> {}]
      /\ row = [r \in Handlers |-> {}] /\ answer = [r \in Handlers |-> 0]
      /\ logs = NoLines /\ due = NoLines /\ used = {} /\ arrived = 0 /\ patches = 0 /\ tripped = {}
  BY DEF GateInit
<1>2. logs \in [Line -> Nat] /\ due = logs
  BY <1>1 DEF NoLines
<1>3. Logged
  <2>1. \A l \in Line : Awaited(l) = {}
    BY <1>1 DEF Awaited
  <2> QED
    BY <1>2, <2>1, NothingAwaited
<1>4. RowsOK
  BY <1>1 DEF RowsOK, RowOK, KnowsRow
<1> QED
  BY <1>1, <1>2, <1>3, <1>4, GatewayAssumption DEF LedgerInv, GateTypeOK
-----------------------------------------------------------------------------
(* The limiter and the configuration inside the gate.                      *)

\* The kinds of steps there are.
LEMMA GateCases ==
  ASSUME [GateNext]_allVars
  PROVE  \/ UNCHANGED allVars
         \/ Watch /\ Next /\ UNCHANGED <<orgVars, gateVars>>
         \/ /\ Watch /\ UNCHANGED <<vars, gateVars>>
            /\ \/ \E a \in Actors : Find(a)
               \/ \E w \in Windows : Edit(w)
               \/ \E p \in Polls : Poll(p)
         \/ Watch /\ RestartGate
         \/ Watch /\ (\E r \in Handlers : Serve(r)) /\ UNCHANGED orgVars
         \/ /\ Watch /\ \E r \in Handlers : Errs(r)
            /\ trips < MaxTrips /\ trips' = trips + 1
            /\ UNCHANGED <<tables, context, runs, call, form, saves, polls, trace, doubled, orphans>>
         \/ Watch /\ (\E c \in Clients : PatchClient(c)) /\ UNCHANGED orgVars
<1>1. CASE GateNext
  BY <1>1 DEF GateNext, Next
<1> QED
  BY <1>1

\* What the gate does to the configuration is what OrgConfig does, or nothing.
LEMMA OrgUnderGate ==
  ASSUME IsFiniteSet(Polls), OrgInv, [GateNext]_allVars
  PROVE  OrgInv'
<1>1. CASE UNCHANGED orgVars
  BY <1>1, OrgInvStep
<1>2. CASE \/ \E a \in Actors : Find(a)
           \/ \E w \in Windows : Edit(w)
           \/ \E p \in Polls : Poll(p)
  BY <1>2, OrgInvStep DEF OrgNext
<1>3. CASE RestartGate
  BY <1>3, OrgInvStep DEF OrgNext, RestartGate
<1>4. CASE /\ trips < MaxTrips /\ trips' = trips + 1
           /\ UNCHANGED <<tables, context, runs, call, form, saves, polls, trace, doubled, orphans>>
  <2>1. trips' \in 0..MaxTrips
    BY <1>4, OrgAssumption DEF OrgInv, CountsInv
  <2>2. Elsewhere
    BY <1>4, <2>1 DEF Elsewhere
  <2> QED
    BY <2>2, OrgInvStep
<1>5. UNCHANGED allVars => UNCHANGED orgVars
  BY DEF allVars
<1> QED
  BY <1>1, <1>2, <1>3, <1>4, <1>5, GateCases

\* A request asks for its client, with the limit of the row that was read.
LEMMA BudgetAdmit ==
  ASSUME BudgetInv, LedgerInv, NEW r \in Handlers, Admit(r)
  PROVE  BudgetInv'
<1> DEFINE k0 == Key(r)
           limit == [k \in {k0} |-> RowRead(r).limit]
<1>1. pc[r] = "admit" /\ Allow({k0}, limit)
  BY DEF Admit
<1>2. RowOK(r)
  BY LedgerTypes
<1>3. PICK x \in ClientRow : row[r] = {x} /\ k0 \in Clients /\ x.limit <= Ceiling[k0]
  BY <1>1, <1>2 DEF RowOK, KnowsRow
<1>4. RowRead(r) = x
  BY <1>3, RowIs
<1>5. x.limit \in 0..Ceiling[k0]
  <2>1. x.limit \in Limits
    BY DEF ClientRow
  <2>2. \A c \in Clients : Ceiling[c] \in Nat
    BY RateLimiterAssumption DEF Keys
  <2>3. x.limit \in Nat
    BY <2>1, <2>2 DEF Limits
  <2> QED
    BY <1>3, <2>2, <2>3
<1>6. {k0} \in SUBSET Keys /\ \A k \in {k0} : limit[k] \in 0..Ceiling[k]
  BY <1>3, <1>4, <1>5 DEF Keys
<1> HIDE DEF k0, limit
<1> QED
  BY <1>1, <1>6, BudgetAllow

\* The limiter's memory goes, and with it the admissions there were.
LEMMA BudgetRestart ==
  ASSUME BudgetInv, RestartGate
  PROVE  BudgetInv'
<1>1. /\ hits' = [k \in Keys |-> {}] /\ granted' = [k \in Keys |-> {}] /\ refusal' = {}
      /\ now' = now /\ calls' = calls /\ now \in Nat /\ calls \in Nat
  BY DEF RestartGate, BudgetInv, LimiterInv, TypeOK
<1>2. \A k \in Keys : Ceiling[k] \in Nat
  BY RateLimiterAssumption
<1>3. IsFiniteSet({}) /\ Cardinality({}) = 0
  BY FS_EmptySet
<1>4. TypeOK'
  BY <1>1, <1>2, <1>3 DEF TypeOK
<1>5. Past' /\ Remembered'
  BY <1>1, <1>3 DEF Past, Remembered
<1>6. WindowRespected'
  <2>1. ASSUME NEW k \in Keys, NEW t PROVE InWindow(k, t)' = {}
    BY <1>1 DEF InWindow
  <2>2. ASSUME NEW k \in Keys, NEW t PROVE Cardinality(InWindow(k, t)') <= Ceiling[k]
    BY <1>2, <1>3, <2>1
  <2> QED
    BY <2>2 DEF WindowRespected
<1> QED
  BY <1>1, <1>4, <1>5, <1>6 DEF BudgetInv, LimiterInv, RefusalJustified

LEMMA BudgetUnderGate ==
  ASSUME BudgetInv, LedgerInv, [GateNext]_allVars
  PROVE  BudgetInv'
<1>1. CASE UNCHANGED vars
  BY <1>1, BudgetStep
<1>2. CASE Next
  BY <1>2, BudgetStep
<1>3. CASE RestartGate
  BY <1>3, BudgetRestart
<1>4. ASSUME NEW r \in Handlers, Serve(r) \/ Errs(r), ~Admit(r) PROVE UNCHANGED vars
  BY <1>4, Zenon DEF Serve, Errs, Arrive, Lookup, Handle, ReadProvider, ReadInstance, Log, Touch,
                     LookupErrs, ConfigErrs, LogErrs, TouchErrs
<1>5. ASSUME NEW r \in Handlers, Serve(r) \/ Errs(r) PROVE BudgetInv'
  BY <1>1, <1>4, <1>5, BudgetAdmit
<1>6. ASSUME NEW c \in Clients, PatchClient(c) PROVE UNCHANGED vars
  BY <1>6, Zenon DEF PatchClient
<1>7. UNCHANGED allVars => UNCHANGED vars
  BY DEF allVars
<1> QED
  BY <1>1, <1>2, <1>3, <1>5, <1>6, <1>7, GateCases

LEMMA LedgerUnderGate ==
  ASSUME IsFiniteSet(Handlers), Shape, LedgerInv, [GateNext]_allVars
  PROVE  LedgerInv'
<1>1. CASE UNCHANGED gateVars
  BY <1>1, LedgerElsewhere
<1>2. UNCHANGED allVars => UNCHANGED gateVars
  BY DEF allVars
<1> QED
  BY <1>1, <1>2, GateCases, LedgerServe, LedgerPatch, LedgerRestart
-----------------------------------------------------------------------------
(* Refusals.  What a request is refused for it has met in the step that     *)
(* refuses it, and goes on having met.                                     *)

Reasons(r, status) ==
  /\ status = 401 => \E x \in met[r] : ~x.live
  /\ status = 403 => \E x, y \in met[r] : ~Allowed(Route(r), x.scopes, y.object)
  /\ status = 404 => \E y \in met[r] : y.object = {}
  /\ status = 405 => \E y \in met[r] : \E o \in y.object : o.writes = {}

DenialOf(r) == r \notin tripped /\ pc[r] = "answered" /\ OneConfig(r) => Reasons(r, answer[r])

DenialInv == \A r \in Handlers : DenialOf(r)

\* A reason stays a reason.
LEMMA ReasonsStay ==
  ASSUME NEW r, NEW status, Reasons(r, status), Route(r)' = Route(r), met[r] \subseteq met'[r],
         answer'[r] = status
  PROVE  Reasons(r, answer[r])'
<1>1. status = 401 => \E x \in met'[r] : ~x.live
  BY DEF Reasons
<1>2. ASSUME status = 403 PROVE \E x, y \in met'[r] : ~Allowed(Route(r)', x.scopes, y.object)
  <2>1. PICK x \in met[r], y \in met[r] : ~Allowed(Route(r), x.scopes, y.object)
    BY <1>2 DEF Reasons
  <2>2. x \in met'[r] /\ y \in met'[r]
    OBVIOUS
  <2>3. ~Allowed(Route(r)', x.scopes, y.object)
    BY <2>1, Zenon DEF Allowed
  <2> QED
    BY <2>2, <2>3
<1>3. status = 404 => \E y \in met'[r] : y.object = {}
  BY DEF Reasons
<1>4. status = 405 => \E y \in met'[r] : \E o \in y.object : o.writes = {}
  BY DEF Reasons
<1> QED
  BY <1>1, <1>2, <1>3, <1>4 DEF Reasons

\* It is answered.
LEMMA DeniedOrNot ==
  ASSUME Shape, Watch, NEW r \in Handlers, RequestOf(r), pc[r] \in Underway, asked'[r] = asked[r],
         NEW status, Answer(r, status), OneConfig(r)' => Reasons(r, status)
  PROVE  DenialOf(r)'
<1>1. answer'[r] = status
  BY DEF Answer, Shape
<1>2. Route(r)' = Route(r) /\ met[r] \subseteq met'[r]
  BY StillIt
<1>3. Reasons(r, status) => Reasons(r, answer[r])'
  BY <1>1, <1>2, ReasonsStay
<1> QED
  BY <1>3 DEF DenialOf

\* A request that is not answered yet, or not its step.
LEMMA DenialElsewhere ==
  ASSUME Shape, Watch, NEW r \in Handlers, RequestOf(r), DenialOf(r),
         pc'[r] # "answered" \/ (pc'[r] = pc[r] /\ asked'[r] = asked[r] /\ answer'[r] = answer[r]),
         r \in tripped => r \in tripped', providers' \in Nat, providers' >= providers
  PROVE  DenialOf(r)'
<1>1. CASE pc'[r] # "answered"
  BY <1>1 DEF DenialOf
<1>2. CASE pc[r] = "answered" /\ pc'[r] = pc[r] /\ asked'[r] = asked[r] /\ answer'[r] = answer[r]
  <2>1. PICK q \in Request : asked[r] = {q}
    BY <1>2 DEF RequestOf
  <2>2. Route(r)' = Route(r) /\ met'[r] = met[r]
    BY <1>2, <2>1, Watched DEF Route
  <2>3. OneConfig(r)' => OneConfig(r)
    BY <2>2 DEF OneConfig, Shape
  <2>4. Reasons(r, answer[r]) => Reasons(r, answer[r])'
    BY <1>2, <2>2, ReasonsStay
  <2> QED
    BY <1>2, <2>3, <2>4 DEF DenialOf
<1> QED
  BY <1>1, <1>2

LEMMA DenialLookup ==
  ASSUME Shape, Watch, NEW r \in Handlers, RequestOf(r), Lookup(r)
  PROVE  DenialOf(r)'
<1>1. pc[r] = "lookup" /\ pc[r] \in Underway /\ asked' = asked
  BY DEF Lookup, Underway
<1>2. CASE Live(Key(r))
  <2>1. Goto(r, IF Route(r).kind = "mcp" THEN "handle" ELSE "admit")
    BY <1>2 DEF Lookup
  <2>2. pc'[r] # "answered"
    BY <2>1 DEF Goto, Shape
  <2> QED
    BY <2>2 DEF DenialOf
<1>3. CASE ~Live(Key(r))
  <2>1. Answer(r, 401)
    BY <1>3 DEF Lookup
  <2>2. PICK q \in Request : Key(r) = q.key /\ q.key \in Clients \cup {Unknown} /\ Moment[q.key] \in met[r]
    BY <1>1, StillIt
  <2>3. ~Moment[q.key].live
    BY <1>3, <2>2 DEF Moment
  <2>4. Reasons(r, 401)
    BY <2>2, <2>3 DEF Reasons
  <2> QED
    BY <1>1, <2>1, <2>4, DeniedOrNot
<1> QED
  BY <1>2, <1>3

\* An answer that needs no reason.
LEMMA NoReason ==
  ASSUME NEW r, NEW status \in {200, 429, 500}
  PROVE  Reasons(r, status)
  BY DEF Reasons

LEMMA DenialAdmit ==
  ASSUME Shape, Watch, NEW r \in Handlers, RequestOf(r), Admit(r)
  PROVE  DenialOf(r)'
<1>1. pc[r] \in Underway /\ asked' = asked
  BY DEF Admit, Underway
<1>2. CASE Answer(r, 429)
  BY <1>1, <1>2, DeniedOrNot, NoReason
<1>3. CASE Goto(r, Behind(r))
  <2>1. pc'[r] # "answered"
    BY <1>3 DEF Goto, Shape, Behind
  <2> QED
    BY <2>1 DEF DenialOf
<1> QED
  BY <1>2, <1>3 DEF Admit

LEMMA DenialHandle ==
  ASSUME Shape, Watch, NEW r \in Handlers, RequestOf(r), Handle(r)
  PROVE  DenialOf(r)'
<1>1. pc[r] = "handle" /\ pc[r] \in Underway /\ asked' = asked
  BY DEF Handle, Underway
<1>2. CASE Route(r).scope \in RowRead(r).scopes
  <2>1. PICK status \in {200, 500} : Answer(r, status)
    BY <1>2 DEF Handle
  <2> QED
    BY <1>1, <2>1, DeniedOrNot, NoReason
<1>3. CASE Route(r).scope \notin RowRead(r).scopes
  <2>1. Answer(r, 403)
    BY <1>3 DEF Handle
  <2>2. PICK x \in met[r] : x.scopes = RowRead(r).scopes
    BY <1>1 DEF RequestOf, KnowsRow
  <2>3. Route(r).kind # "object"
    BY <1>1 DEF RequestOf
  <2>4. ~Allowed(Route(r), x.scopes, x.object)
    BY <1>3, <2>2, <2>3 DEF Allowed
  <2>5. Reasons(r, 403)
    BY <2>4 DEF Reasons
  <2> QED
    BY <1>1, <2>1, <2>5, DeniedOrNot
<1> QED
  BY <1>2, <1>3

\* An object, by the configuration that declares it, or by none.
LEMMA DenialDecide ==
  ASSUME Shape, Watch, NEW r \in Handlers, RequestOf(r), pc[r] \in {"provider", "instance"}, asked'[r] = asked[r],
         NEW config, Decide(r, config), config[ObjectsPart] \in 0..MaxSaves,
         OneConfig(r)' => \E y \in met[r] : y.object = Exposed[config[ObjectsPart]]
  PROVE  DenialOf(r)'
<1> DEFINE declared == Exposed[config[ObjectsPart]]
           object == CHOOSE o \in declared : TRUE
           write == Route(r).write
<1>0. pc[r] \in Underway /\ Route(r).kind = "object"
  BY DEF RequestOf, Underway
<1>1. PICK x \in met[r] : x.scopes = RowRead(r).scopes
  BY DEF RequestOf, KnowsRow
<1>2. declared = {} \/ declared = {object}
  <2>1. declared \in {{o} : o \in Object} \cup {{}}
    BY GatewayAssumption
  <2> QED
    BY <2>1
<1>3. CASE declared = {} /\ Answer(r, 404)
  <2>1. OneConfig(r)' => Reasons(r, 404)
    BY <1>3 DEF Reasons
  <2> QED
    BY <1>0, <1>3, <2>1, DeniedOrNot
<1>4. CASE declared # {} /\ object.writes = {} /\ Answer(r, 405)
  <2>1. OneConfig(r)' => Reasons(r, 405)
    <3> SUFFICES ASSUME OneConfig(r)' PROVE Reasons(r, 405)
      OBVIOUS
    <3>1. PICK y \in met[r] : y.object = declared
      OBVIOUS
    <3>2. object \in y.object
      BY <1>2, <1>4, <3>1
    <3> QED
      BY <1>4, <3>2 DEF Reasons
  <2> QED
    BY <1>0, <1>4, <2>1, DeniedOrNot
<1>5. CASE /\ declared # {} /\ Answer(r, 403)
           /\ ~(Needed(object, write) \subseteq RowRead(r).scopes)
  <2>1. OneConfig(r)' => Reasons(r, 403)
    <3> SUFFICES ASSUME OneConfig(r)' PROVE Reasons(r, 403)
      OBVIOUS
    <3>1. PICK y \in met[r] : y.object = declared
      OBVIOUS
    <3>2. y.object = {object}
      BY <1>2, <1>5, <3>1
    <3> HIDE DEF declared, object
    <3>3. ~Allowed(Route(r), x.scopes, y.object)
      <4>1. CASE write
        BY <1>0, <1>1, <1>5, <3>2, <4>1 DEF Allowed, Needed
      <4>2. CASE ~write
        BY <1>0, <1>1, <1>5, <3>2, <4>2 DEF Allowed, Needed
      <4> QED
        BY <4>1, <4>2
    <3> QED
      BY <3>3 DEF Reasons
  <2> QED
    BY <1>0, <1>5, <2>1, DeniedOrNot
<1>6. CASE \E status \in {200, 500} : Answer(r, status)
  BY <1>0, <1>6, DeniedOrNot, NoReason
<1> QED
  BY <1>3, <1>4, <1>5, <1>6 DEF Decide

\* What the configuration says of a part is a save, or nothing.
LEMMA ShownType ==
  ASSUME OrgInv, NEW part \in Parts, NEW n
  PROVE  ShownBy(n)[part] \in 0..MaxSaves /\ Empty[part] = 0 /\ 0 \in 0..MaxSaves
<1>1. Empty[part] = 0 /\ 0 \in 0..MaxSaves
  BY OrgAssumption DEF Empty
<1>2. CASE Cardinality(RowsOf(n)) = 1
  <2>1. RowsOf(n) # {}
    BY <1>2, FS_EmptySet
  <2>2. PICK i \in DOMAIN instances : i = CHOOSE j \in RowsOf(n) : TRUE
    BY <2>1 DEF RowsOf
  <2>3. ShownBy(n) = instances[i].config
    BY <1>2, <2>2 DEF ShownBy
  <2>4. instances[i] \in Instance
    BY <2>2, BaseTypes DEF OrgInv
  <2>5. instances[i].config \in Config
    BY <2>4 DEF Instance
  <2> QED
    BY <1>1, <2>3, <2>5 DEF Config
<1>3. CASE Cardinality(RowsOf(n)) # 1
  BY <1>1, <1>3 DEF ShownBy
<1> QED
  BY <1>1, <1>2, <1>3

LEMMA DenialObject ==
  ASSUME Shape, Watch, OrgInv, NEW r \in Handlers, RequestOf(r), UNCHANGED providers,
         ReadProvider(r) \/ ReadInstance(r)
  PROVE  DenialOf(r)'
<1>1. pc[r] \in {"provider", "instance"} /\ pc[r] \in Underway /\ asked' = asked
  BY DEF ReadProvider, ReadInstance, Underway
<1>2. PICK q \in Request : /\ Route(r) = q.route /\ Route(r)' = q.route
                           /\ q.key \in Clients \cup {Unknown} /\ Moment[q.key] \in met[r]
  BY <1>1, StillIt
<1>3. Moment[q.key].object = Exposed[Shown[ObjectsPart]]
  BY <1>2 DEF Moment
<1>4. Route(r)'.kind = "object" /\ (pc[r] = "instance" => providers >= 1) /\ providers \in Nat
  BY <1>1, <1>2 DEF RequestOf, Shape
<1>5. OneConfig(r)' => providers <= 1
  BY <1>4 DEF OneConfig
<1>6. \A n : ShownBy(n)[ObjectsPart] \in 0..MaxSaves /\ Empty[ObjectsPart] \in 0..MaxSaves
  <2>1. ObjectsPart \in Parts
    BY GatewayAssumption DEF Parts
  <2> QED
    BY <2>1, ShownType
<1>7. CASE ReadProvider(r) /\ providers = 1
  <2>1. Goto(r, "instance")
    BY <1>7 DEF ReadProvider
  <2>2. pc'[r] # "answered"
    BY <2>1 DEF Goto, Shape
  <2> QED
    BY <2>2 DEF DenialOf
<1>8. CASE ReadProvider(r) /\ providers # 1
  <2>1. Decide(r, Empty)
    BY <1>8 DEF ReadProvider
  <2>2. Shown = Empty
    BY <1>8 DEF Shown
  <2>3. \E y \in met[r] : y.object = Exposed[Empty[ObjectsPart]]
    BY <1>2, <1>3, <2>2
  <2> QED
    BY <1>1, <1>6, <2>1, <2>3, DenialDecide
<1>9. CASE ReadInstance(r)
  <2>1. pc[r] = "instance" /\ Decide(r, ShownBy(1))
    BY <1>9 DEF ReadInstance
  <2>2. OneConfig(r)' => Shown = ShownBy(1)
    BY <1>4, <1>5, <2>1 DEF Shown
  <2>3. OneConfig(r)' => \E y \in met[r] : y.object = Exposed[ShownBy(1)[ObjectsPart]]
    BY <1>2, <1>3, <2>2
  <2> QED
    BY <1>1, <1>6, <2>1, <2>3, DenialDecide
<1> QED
  BY <1>7, <1>8, <1>9

\* Only its own step takes the mark of a failed call off a request.
LEMMA TrippedStays ==
  ASSUME NEW r \in Handlers, Serve(r) \/ Errs(r)
  PROVE  \A p \in Handlers \ {r} : p \in tripped => p \in tripped'
<1>1. CASE Leave(r) \/ tripped' = tripped \cup {r} \/ UNCHANGED tripped
  BY <1>1 DEF Leave
<1> QED
  BY <1>1, Zenon DEF Serve, Errs, Arrive, Lookup, Admit, Handle, ReadProvider, ReadInstance, Log, Touch,
                     LookupErrs, ConfigErrs, LogErrs, TouchErrs

LEMMA DenialServe ==
  ASSUME AccessInv, OrgInv, DenialInv, Watch, NEW r \in Handlers, Serve(r) \/ Errs(r), UNCHANGED providers
  PROVE  DenialInv'
<1>0. Shape /\ providers \in Nat /\ \A p \in Handlers : RequestOf(p) /\ DenialOf(p)
  BY DEF AccessInv, DenialInv, Shape
<1>1. DenialOf(r)'
  <2>1. CASE (\E q \in Request : Arrive(r, q)) \/ Log(r) \/ LogErrs(r) \/ Touch(r) \/ TouchErrs(r)
    <3>1. pc'[r] # "answered"
      BY <1>0, <2>1 DEF Arrive, Goto, Log, LogErrs, Touch, TouchErrs, Leave, Shape
    <3> QED
      BY <3>1 DEF DenialOf
  <2>2. CASE LookupErrs(r) \/ ConfigErrs(r)
    BY <2>2 DEF LookupErrs, ConfigErrs, DenialOf
  <2> QED
    BY <1>0, <2>1, <2>2, DenialLookup, DenialAdmit, DenialHandle, DenialObject DEF Serve, Errs
<1>2. ASSUME NEW p \in Handlers \ {r} PROVE DenialOf(p)'
  <2>1. pc'[p] = pc[p] /\ asked'[p] = asked[p] /\ answer'[p] = answer[p]
    BY <1>0, OthersSame DEF OthersStay
  <2>2. p \in tripped => p \in tripped'
    BY TrippedStays
  <2> QED
    BY <1>0, <2>1, <2>2, DenialElsewhere
<1> QED
  BY <1>1, <1>2 DEF DenialInv

\* A step that serves nobody.
LEMMA DenialStill ==
  ASSUME AccessInv, DenialInv, Watch, UNCHANGED served, UNCHANGED tripped, providers' \in Nat, providers' >= providers
  PROVE  DenialInv'
  BY DenialElsewhere DEF AccessInv, DenialInv, served

LEMMA DenialUnderGate ==
  ASSUME AccessInv, OrgInv, DenialInv, [GateNext]_allVars
  PROVE  DenialInv'
<1>0. providers \in Nat
  BY DEF AccessInv, Shape
<1>1. CASE UNCHANGED allVars
  <2>1. UNCHANGED <<providers, pc, asked, answer, met, tripped>>
    BY <1>1 DEF allVars, orgVars, tables, gateVars, served
  <2>2. ASSUME NEW r \in Handlers PROVE DenialOf(r)'
    <3>1. Route(r)' = Route(r)
      BY <2>1 DEF Route
    <3>2. DenialOf(r)
      BY DEF DenialInv
    <3> QED
      BY <2>1, <3>1, <3>2 DEF DenialOf, Reasons, OneConfig
  <2> QED
    BY <2>2 DEF DenialInv
<1>2. CASE Watch /\ UNCHANGED <<orgVars, gateVars>>
  BY <1>0, <1>2, DenialStill DEF orgVars, tables, gateVars
<1>3. CASE /\ Watch /\ UNCHANGED gateVars
           /\ \/ \E a \in Actors : Find(a)
              \/ \E w \in Windows : Edit(w)
              \/ \E p \in Polls : Poll(p)
  BY <1>0, <1>3, ProvidersStay, DenialStill DEF gateVars
<1>4. CASE RestartGate
  <2>1. pc' = [r \in Handlers |-> "idle"]
    BY <1>4 DEF RestartGate
  <2> QED
    BY <2>1 DEF DenialInv, DenialOf
<1>5. CASE Watch /\ (\E r \in Handlers : Serve(r) \/ Errs(r)) /\ UNCHANGED tables
  BY <1>5, DenialServe DEF tables
<1>6. CASE Watch /\ (\E c \in Clients : PatchClient(c)) /\ UNCHANGED orgVars
  BY <1>0, <1>6, DenialStill DEF PatchClient, orgVars, tables
<1>7. UNCHANGED orgVars => UNCHANGED tables
  BY DEF orgVars
<1> QED
  BY <1>1, <1>2, <1>3, <1>4, <1>5, <1>6, <1>7, GateCases

-----------------------------------------------------------------------------
(* The theorem.                                                            *)

LEMMA AccessInit == GateInit => AccessInv
  BY DEF GateInit, OrgInit, AccessInv, Shape, RequestOf, Underway, KnowsRow

\* A step that serves nobody.
LEMMA AccessElsewhere ==
  ASSUME AccessInv, Watch, UNCHANGED served, providers' \in Nat, providers' >= providers
  PROVE  AccessInv'
<1>1. Shape'
  BY DEF AccessInv, Shape, Watch, served
<1>2. ASSUME NEW r \in Handlers PROVE RequestOf(r)'
  BY NotItsStep DEF AccessInv, served
<1> QED
  BY <1>1, <1>2 DEF AccessInv

LEMMA AccessServe ==
  ASSUME AccessInv, Watch, NEW r \in Handlers, Serve(r) \/ Errs(r), providers' = providers
  PROVE  AccessInv'
<1>0. Shape /\ \A p \in Handlers : RequestOf(p)
  BY DEF AccessInv
<1>1. OthersStay(r)
  BY <1>0, OthersSame
<1>2. RequestOf(r)'
  BY <1>0, StepArrive, StepLookup, StepAdmit, StepHandle, StepObject, StepLog DEF Serve, Errs
<1>3. ASSUME NEW p \in Handlers \ {r} PROVE RequestOf(p)'
  BY <1>0, <1>1, NotItsStep DEF OthersStay, Shape
<1>4. Shape'
  BY <1>0, <1>1 DEF Shape, OthersStay, Watch
<1> QED
  BY <1>2, <1>3, <1>4 DEF AccessInv

LEMMA AccessRestart ==
  ASSUME AccessInv, Watch, RestartGate
  PROVE  AccessInv'
<1>1. providers' = providers /\ providers \in Nat
  BY DEF RestartGate, Restart, tables, AccessInv, Shape
<1>2. pc' = [r \in Handlers |-> "idle"] /\ asked' = [r \in Handlers |-> {}]
      /\ row' = [r \in Handlers |-> {}] /\ answer' = [r \in Handlers |-> 0]
  BY DEF RestartGate
<1> QED
  BY <1>1, <1>2 DEF AccessInv, Shape, RequestOf, Underway, KnowsRow, Watch

LEMMA AccessStep == AccessInv /\ [GateNext]_allVars => AccessInv'
<1> SUFFICES ASSUME AccessInv, [GateNext]_allVars PROVE AccessInv'
  OBVIOUS
<1>0. providers \in Nat
  BY DEF AccessInv, Shape
<1>1. CASE UNCHANGED allVars
  <2>1. UNCHANGED <<now, providers, instances, clients, pc, asked, row, answer, met>>
    BY <1>1 DEF allVars, vars, orgVars, tables, gateVars, served
  <2>2. Moment' = Moment
    BY <2>1 DEF Moment, Live, Shown, ShownBy, RowsOf
  <2>3. ASSUME NEW r \in Handlers
        PROVE  /\ Key(r)' = Key(r) /\ Route(r)' = Route(r) /\ RowRead(r)' = RowRead(r)
               /\ (OneConfig(r)' <=> OneConfig(r)) /\ (Served(r)' <=> Served(r))
    BY <2>1 DEF Key, Route, RowRead, OneConfig, Served
  <2>4. ASSUME NEW r \in Handlers PROVE RequestOf(r)'
    <3>1. Moment'[Key(r)'] = Moment[Key(r)]
      BY <2>2, <2>3
    <3>2. RequestOf(r)
      BY DEF AccessInv
    <3> QED
      BY <2>1, <2>3, <3>1, <3>2 DEF RequestOf
  <2> QED
    BY <2>1, <2>4 DEF AccessInv, Shape
<1>2. ASSUME Watch, UNCHANGED <<orgVars, gateVars>> PROVE AccessInv'
  BY <1>0, <1>2, AccessElsewhere DEF orgVars, tables, gateVars
<1>3. ASSUME Watch, UNCHANGED gateVars,
             \/ \E a \in Actors : Find(a)
             \/ \E w \in Windows : Edit(w)
             \/ \E p \in Polls : Poll(p)
      PROVE  AccessInv'
  BY <1>0, <1>3, ProvidersStay, AccessElsewhere DEF gateVars
<1>4. ASSUME Watch, RestartGate PROVE AccessInv'
  BY <1>4, AccessRestart
<1>5. ASSUME Watch, NEW r \in Handlers, Serve(r), UNCHANGED orgVars PROVE AccessInv'
  BY <1>5, AccessServe DEF orgVars, tables
<1>6. ASSUME Watch, NEW r \in Handlers, Errs(r), UNCHANGED tables PROVE AccessInv'
  BY <1>6, AccessServe DEF tables
<1>7. ASSUME Watch, NEW c \in Clients, PatchClient(c), UNCHANGED orgVars PROVE AccessInv'
  BY <1>0, <1>7, AccessElsewhere DEF PatchClient, orgVars, tables
<1>8. CASE GateNext
  BY <1>2, <1>3, <1>4, <1>5, <1>6, <1>7, <1>8 DEF GateNext
<1> QED
  BY <1>1, <1>8

\* Nobody is served by a key that was revoked or expired, or with a scope or
\* an object that was withdrawn, before the request came, whatever requests,
\* edits, restarts and failures there are besides.
THEOREM GatewayAccess == GateSpec => []AccessJustified
<1>1. AccessInv => AccessJustified
  BY DEF AccessInv, RequestOf, Served, AccessJustified
<1> QED
  BY <1>1, AccessInit, AccessStep, PTL DEF GateSpec

-----------------------------------------------------------------------------
(* All of it together.                                                     *)

GateInv == BudgetInv /\ LedgerInv /\ AccessInv /\ OrgInv /\ DenialInv

LEMMA GateInvInit ==
  ASSUME IsFiniteSet(Polls)
  PROVE  GateInit => GateInv
<1> SUFFICES ASSUME GateInit PROVE GateInv
  OBVIOUS
<1>1. BudgetInv /\ OrgInv
  BY BudgetInit, OrgInvInit DEF GateInit
<1>2. DenialInv
  BY DEF GateInit, DenialInv, DenialOf
<1> QED
  BY <1>1, <1>2, LedgerInit, AccessInit DEF GateInv

LEMMA GateInvStep ==
  ASSUME IsFiniteSet(Polls), IsFiniteSet(Handlers)
  PROVE  GateInv /\ [GateNext]_allVars => GateInv'
<1> SUFFICES ASSUME GateInv, [GateNext]_allVars PROVE GateInv'
  OBVIOUS
<1>1. BudgetInv' /\ DenialInv' /\ OrgInv' /\ AccessInv'
  BY BudgetUnderGate, DenialUnderGate, OrgUnderGate, AccessStep DEF GateInv
<1>2. LedgerInv'
  BY LedgerUnderGate DEF GateInv, AccessInv
<1> QED
  BY <1>1, <1>2 DEF GateInv

\* Whatever the limiter's clients do, and however often their limits are
\* edited while their requests are under way, no window holds more admitted
\* requests of a key than its limit and nobody is refused within it.
THEOREM GatewayBudget ==
  ASSUME IsFiniteSet(Polls), IsFiniteSet(Handlers)
  PROVE  GateSpec => []LimitExact
<1>1. GateInv => LimitExact
  BY DEF GateInv, BudgetInv, LimiterInv, LimitExact
<1> QED
  BY <1>1, GateInvInit, GateInvStep, PTL DEF GateSpec

\* A request whose database calls went through is refused only for what its
\* key, its client's scopes or its object were at some moment between its
\* arrival and its answer.
THEOREM GatewayDenial ==
  ASSUME IsFiniteSet(Polls), IsFiniteSet(Handlers)
  PROVE  GateSpec => []DenialJustified
<1>1. GateInv => DenialJustified
  BY DEF GateInv, DenialInv, DenialOf, Reasons, DenialJustified
<1> QED
  BY <1>1, GateInvInit, GateInvStep, PTL DEF GateSpec

\* Every answer that is to be logged has exactly one line in api_request_logs,
\* with the client it was for and the status it got, but for the answers
\* whose hook has not run, failed inserts and restarts; and a run that
\* integration_runs shows as running is one.
THEOREM GatewayLedgers ==
  ASSUME IsFiniteSet(Polls), IsFiniteSet(Handlers)
  PROVE  GateSpec => []LedgersTrue
<1>1. GateInv => LedgersTrue
  BY OrgInvRuns DEF GateInv, LedgerInv, LedgersTrue
<1> QED
  BY <1>1, GateInvInit, GateInvStep, PTL DEF GateSpec

\* The configuration behind the gate: one row for an organization unless two
\* were about to insert it together, and no saved part is lost to a window
\* that had seen its save.
THEOREM GatewayConfig ==
  ASSUME IsFiniteSet(Polls), IsFiniteSet(Handlers)
  PROVE  GateSpec => []SingleContext /\ []EditsKept
<1>1. GateInv => SingleContext /\ EditsKept
  BY OrgInvSingle, OrgInvEdits DEF GateInv
<1> QED
  BY <1>1, GateInvInit, GateInvStep, PTL DEF GateSpec

\* The variables of the gate, the limiter and the configuration keep their
\* types; a handler's row is within its key's ceiling, a key's list within
\* its limit.
THEOREM GatewayTypes ==
  ASSUME IsFiniteSet(Polls), IsFiniteSet(Handlers)
  PROVE  GateSpec => []AllTypesOK
<1>1. GateInv => AllTypesOK
  BY OrgInvTypes DEF GateInv, BudgetInv, LimiterInv, LedgerInv, AllTypesOK
<1> QED
  BY <1>1, GateInvInit, GateInvStep, PTL DEF GateSpec
=============================================================================
