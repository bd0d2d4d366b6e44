------------------------------- MODULE Outbox -------------------------------
(***************************************************************************)
(* The hub delivery outbox (hub/outbox.ts, hub/connector.ts) and the       *)
(* scheduler that drives it (index.ts).  Rows of hub_deliveries wait until *)
(* a processor - a cron cycle or an operator request - selects a batch of  *)
(* due rows, calls the hub for each of them in turn and writes the outcome *)
(* back.  Every await of the code is a step boundary here: a processor     *)
(* holds a snapshot of the rows while others, the operator and the hub go  *)
(* on.                                                                     *)
(***************************************************************************)
EXTENDS Integers, FiniteSets

CONSTANTS
  Orgs,             (* organizations: each has at most one hub connection  *)
  Resources,        (* hub resources a delivery may name                   *)
  HubResources,     (* HUB_RESOURCES, the middleware's list of known ones  *)
  PortalResources,  (* those that match PORTAL_CREATE_RE                   *)
  Cycles,           (* firings of the cron schedule (runPollCycle calls)   *)
  Admins,           (* operator requests that run processOutbox            *)
  MaxRetries,       (* DEFAULT_RETRY_POLICY.maxRetries                     *)
  Limit,            (* processOutbox's batch limit                         *)
  MaxRows,          (* bound: deliveries ever enqueued                     *)
  MaxFaults,        (* bound: crashes and failed database calls            *)
  MaxRequeues       (* bound: operator requeues                            *)

ASSUME OutboxAssumption ==
  /\ HubResources \subseteq Resources
  /\ PortalResources \subseteq Resources
  /\ Cycles \cap Admins = {}
  /\ MaxRetries \in Nat \ {0}
  /\ Limit \in Nat \ {0}
  /\ MaxRows \in Nat

Rows == 1..MaxRows          \* in created_at order
Workers == Cycles \cup Admins

VARIABLES
  \* the database
  content,   \* what row d carries: its org and resource
  status,    \* hub_deliveries.status, "absent" before the insert
  attempts,  \* hub_deliveries.attempts
  due,       \* next_at <= now
  conn,      \* org -> "active" or "inactive" (no row, or is_active false)
  health,    \* org -> last_error of its connection: "unknown", "ok", "error"
  stamped,   \* deliveries whose portal_requests row carries hub_record_id
  \* the process
  polling,   \* index.ts's flag
  pc, todo, seen, cache, answer,   \* each processor's own state
  \* the hub
  hubKnown,  \* resources the hub accepts today
  accepted,  \* deliveries the hub has applied
  refused,   \* deliveries the hub has refused as an unknown resource
  converted, \* deliveries for which an answer with created_record_id arrived
  \* history and bounds
  calls,     \* hub calls for d since it was last (re)queued
  faults, requeues

tables == <<content, status, attempts, due>>
links == <<conn, health>>
local == <<todo, seen, cache, answer>>
hub == <<hubKnown, accepted, refused>>
bounds == <<faults, requeues>>
vars == <<tables, links, stamped, polling, pc, local, hub, converted, calls, bounds>>

Statuses == {"absent", "pending", "delivered", "failed", "unsupported"}
Requeueable == {"failed", "unsupported", "pending"}
Steps == {"idle", "polling", "select", "next", "call", "touch", "finish", "stamp"}
Answers == {"none", "ok", "record", "rejected", "unknown", "thrown"}
Lookups == {"unread", "active", "inactive"}

TypeOK ==
  /\ content \in [Rows -> [org : Orgs, resource : Resources] \cup {<<>>}]
  /\ status \in [Rows -> Statuses]
  /\ attempts \in [Rows -> 0..MaxRetries]
  /\ due \in [Rows -> BOOLEAN]
  /\ conn \in [Orgs -> {"active", "inactive"}]
  /\ health \in [Orgs -> {"unknown", "ok", "error"}]
  /\ stamped \subseteq Rows
  /\ polling \in BOOLEAN
  /\ pc \in [Workers -> Steps]
  /\ todo \in [Workers -> SUBSET Rows]
  /\ seen \in [Workers -> [Rows -> 0..MaxRetries]]
  /\ cache \in [Workers -> [Orgs -> Lookups]]
  /\ answer \in [Workers -> Answers]
  /\ hubKnown \subseteq Resources
  /\ accepted \subseteq Rows
  /\ refused \subseteq Rows
  /\ converted \subseteq Rows
  /\ calls \in [Rows -> Nat]
  /\ faults \in Nat
  /\ requeues \in Nat

NoLookups == [o \in Orgs |-> "unread"]
NothingSeen == [d \in Rows |-> 0]

Init ==
  /\ content = [d \in Rows |-> <<>>]
  /\ status = [d \in Rows |-> "absent"]
  /\ attempts = [d \in Rows |-> 0]
  /\ due = [d \in Rows |-> FALSE]
  /\ conn \in [Orgs -> {"active", "inactive"}]
  /\ health = [o \in Orgs |-> "unknown"]
  /\ stamped = {}
  /\ polling = FALSE
  /\ pc = [w \in Workers |-> "idle"]
  /\ todo = [w \in Workers |-> {}]
  /\ seen = [w \in Workers |-> NothingSeen]
  /\ cache = [w \in Workers |-> NoLookups]
  /\ answer = [w \in Workers |-> "none"]
  /\ hubKnown \in SUBSET Resources
  /\ accepted = {}
  /\ refused = {}
  /\ converted = {}
  /\ calls = [d \in Rows |-> 0]
  /\ faults = 0
  /\ requeues = 0

-----------------------------------------------------------------------------
(* Producers, the operator's connection settings, the clock and the hub.   *)

\* enqueueDelivery: the insert takes status, attempts and next_at from the
\* column defaults.  Rows are numbered in the order of their created_at.
Enqueue(d, o, r) ==
  /\ status[d] = "absent"
  /\ \A e \in Rows : e < d => status[e] # "absent"
  /\ content' = [content EXCEPT ![d] = [org |-> o, resource |-> r]]
  /\ status' = [status EXCEPT ![d] = "pending"]
  /\ due' = [due EXCEPT ![d] = TRUE]
  /\ UNCHANGED <<attempts, links, stamped, polling, pc, local, hub, converted, calls, bounds>>

\* POST and PATCH /admin/hub-connections: the operator (de)activates a link.
SetConnection(o, v) ==
  /\ conn[o] # v
  /\ conn' = [conn EXCEPT ![o] = v]
  /\ UNCHANGED <<tables, health, stamped, polling, pc, local, hub, converted, calls, bounds>>

\* next_at is reached.
Elapse(d) ==
  /\ status[d] = "pending" /\ ~due[d]
  /\ due' = [due EXCEPT ![d] = TRUE]
  /\ UNCHANGED <<content, status, attempts, links, stamped, polling, pc, local, hub,
                 converted, calls, bounds>>

\* The hub ships support for a resource it used to refuse.
HubGrows(r) ==
  /\ r \notin hubKnown
  /\ hubKnown' = hubKnown \cup {r}
  /\ UNCHANGED <<tables, links, stamped, polling, pc, local, accepted, refused,
                 converted, calls, bounds>>

-----------------------------------------------------------------------------
(* Starting a batch.                                                       *)

CycleMayRun == ~polling

\* runPollCycle: a firing that finds the flag set is skipped.
BeginCycle(c) ==
  /\ pc[c] = "idle"
  /\ CycleMayRun
  /\ polling' = TRUE
  /\ pc' = [pc EXCEPT ![c] = "polling"]
  /\ UNCHANGED <<tables, links, stamped, local, hub, converted, calls, bounds>>

\* pollAllEndpoints has returned; processOutbox comes next.
PollingDone(c) ==
  /\ pc[c] = "polling"
  /\ pc' = [pc EXCEPT ![c] = "select"]
  /\ UNCHANGED <<tables, links, stamped, polling, local, hub, converted, calls, bounds>>

\* POST /admin/hub/outbox/process: no flag is consulted.
AdminProcess(a) ==
  /\ pc[a] = "idle"
  /\ pc' = [pc EXCEPT ![a] = "select"]
  /\ UNCHANGED <<tables, links, stamped, polling, local, hub, converted, calls, bounds>>

\* requeueDelivery, as POST /admin/hub/deliveries/:id/retry calls it: the row
\* is queued afresh unless it is delivered, and the outbox is processed.
RequeueDelivery(a, d) ==
  /\ pc[a] = "idle"
  /\ requeues < MaxRequeues
  /\ status[d] \in Requeueable
  /\ status' = [status EXCEPT ![d] = "pending"]
  /\ attempts' = [attempts EXCEPT ![d] = 0]
  /\ due' = [due EXCEPT ![d] = TRUE]
  /\ calls' = [calls EXCEPT ![d] = 0]
  /\ requeues' = requeues + 1
  /\ pc' = [pc EXCEPT ![a] = "select"]
  /\ UNCHANGED <<content, links, stamped, polling, local, hub, converted, faults>>

\* Mutant: the status filter is forgotten.
ReplayableAnyStatus == {d \in Rows : status[d] # "absent" /\ content[d].resource \in HubResources}

Replayable == {d \in Rows : status[d] = "unsupported" /\ content[d].resource \in HubResources}

\* requeueUnsupported: one statement for every row whose resource is listed.
RequeueUnsupported ==
  /\ requeues < MaxRequeues
  /\ Replayable # {}
  /\ status' = [d \in Rows |-> IF d \in Replayable THEN "pending" ELSE status[d]]
  /\ attempts' = [d \in Rows |-> IF d \in Replayable THEN 0 ELSE attempts[d]]
  /\ due' = [d \in Rows |-> IF d \in Replayable THEN TRUE ELSE due[d]]
  /\ calls' = [d \in Rows |-> IF d \in Replayable THEN 0 ELSE calls[d]]
  /\ requeues' = requeues + 1
  /\ UNCHANGED <<content, links, stamped, polling, pc, local, hub, converted, faults>>

Due == {d \in Rows : status[d] = "pending" /\ due[d]}
DueBatch == {d \in Due : Cardinality({e \in Due : e < d}) < Limit}

\* processOutbox's query: the oldest due rows, with their attempts as of now.
SelectDue(w) ==
  /\ pc[w] = "select"
  /\ pc' = [pc EXCEPT ![w] = "next"]
  /\ todo' = [todo EXCEPT ![w] = DueBatch]
  /\ seen' = [seen EXCEPT ![w] = [d \in Rows |-> IF d \in DueBatch THEN attempts[d] ELSE 0]]
  /\ UNCHANGED <<tables, links, stamped, polling, cache, answer, hub, converted, calls, bounds>>

-----------------------------------------------------------------------------
(* One row of a batch.                                                     *)

Current(w, d) == d \in todo[w] /\ \A e \in todo[w] : d <= e

\* getHubConnection, once per org and batch.
LookUp(w, d) ==
  /\ pc[w] = "next" /\ Current(w, d)
  /\ cache[w][content[d].org] = "unread"
  /\ cache' = [cache EXCEPT ![w][content[d].org] = conn[content[d].org]]
  /\ UNCHANGED <<tables, links, stamped, polling, pc, todo, seen, answer, hub,
                 converted, calls, bounds>>

\* No active connection: the row is left as it is.
Skip(w, d) ==
  /\ pc[w] = "next" /\ Current(w, d)
  /\ cache[w][content[d].org] = "inactive"
  /\ todo' = [todo EXCEPT ![w] = @ \ {d}]
  /\ UNCHANGED <<tables, links, stamped, polling, pc, seen, cache, answer, hub,
                 converted, calls, bounds>>

\* callHub puts the request on the wire.
Call(w, d) ==
  /\ pc[w] = "next" /\ Current(w, d)
  /\ cache[w][content[d].org] = "active"
  /\ pc' = [pc EXCEPT ![w] = "call"]
  /\ calls' = [calls EXCEPT ![d] = @ + 1]
  /\ UNCHANGED <<tables, links, stamped, polling, local, hub, converted, bounds>>

\* The hub applies the payload and its answer arrives; for a portal intake
\* the answer may name the record the hub created.
HubAccepts(w, d, a) ==
  /\ pc[w] = "call" /\ Current(w, d)
  /\ content[d].resource \in hubKnown
  /\ a = "record" => content[d].resource \in PortalResources
  /\ accepted' = accepted \cup {d}
  /\ converted' = IF a = "record" THEN converted \cup {d} ELSE converted
  /\ answer' = [answer EXCEPT ![w] = a]
  /\ pc' = [pc EXCEPT ![w] = "finish"]
  /\ UNCHANGED <<tables, links, stamped, polling, todo, seen, cache, hubKnown, refused,
                 calls, bounds>>

\* The hub's envelope, or a non-2xx transport status, says no.
HubRejects(w, d) ==
  /\ pc[w] = "call" /\ Current(w, d)
  /\ answer' = [answer EXCEPT ![w] = "rejected"]
  /\ pc' = [pc EXCEPT ![w] = "finish"]
  /\ UNCHANGED <<tables, links, stamped, polling, todo, seen, cache, hub,
                 converted, calls, bounds>>

\* The hub does not know the resource.
HubRefuses(w, d) ==
  /\ pc[w] = "call" /\ Current(w, d)
  /\ content[d].resource \notin hubKnown
  /\ refused' = refused \cup {d}
  /\ answer' = [answer EXCEPT ![w] = "unknown"]
  /\ pc' = [pc EXCEPT ![w] = "finish"]
  /\ UNCHANGED <<tables, links, stamped, polling, todo, seen, cache, hubKnown, accepted,
                 converted, calls, bounds>>

\* Network failure, the 30 s timeout or an unreadable body: callHub throws,
\* whether or not the hub has applied the payload.
CallThrows(w, d) ==
  /\ pc[w] = "call" /\ Current(w, d)
  /\ \/ UNCHANGED accepted
     \/ content[d].resource \in hubKnown /\ accepted' = accepted \cup {d}
  /\ answer' = [answer EXCEPT ![w] = "thrown"]
  /\ pc' = [pc EXCEPT ![w] = "touch"]
  /\ UNCHANGED <<tables, links, stamped, polling, todo, seen, cache, hubKnown, refused,
                 converted, calls, bounds>>

Ok(w) == answer[w] \in {"ok", "record"}

\* Mutant: the stamp is dropped.
AfterNeverStamps(w) ==
  IF pc[w] = "finish" /\ Ok(w) THEN "touch"
  ELSE IF pc[w] = "touch" /\ answer[w] = "thrown" THEN "finish" ELSE "next"

\* The step attemptOne takes once the write at pc[w] has returned: the error
\* path touches the connection before it finishes the row, the ok path after.
After(w) ==
  IF pc[w] = "finish" /\ Ok(w) THEN "touch"
  ELSE IF pc[w] = "touch" /\ answer[w] = "thrown" THEN "finish"
  ELSE IF pc[w] = "touch" /\ answer[w] = "record" THEN "stamp" ELSE "next"

Proceed(w, d) ==
  /\ pc' = [pc EXCEPT ![w] = After(w)]
  /\ \/ /\ After(w) = "next"
        /\ todo' = [todo EXCEPT ![w] = @ \ {d}]
        /\ answer' = [answer EXCEPT ![w] = "none"]
     \/ /\ After(w) # "next"
        /\ UNCHANGED <<todo, answer>>
  /\ UNCHANGED <<polling, seen, cache>>

\* touchConnection.
Touch(w, d) ==
  /\ pc[w] = "touch" /\ Current(w, d)
  /\ health' = [health EXCEPT ![content[d].org] = IF Ok(w) THEN "ok" ELSE "error"]
  /\ Proceed(w, d)
  /\ UNCHANGED <<tables, conn, stamped, hub, converted, calls, bounds>>

\* Mutant: the attempt is not counted.
TriedUncounted(w, d) == seen[w][d]

Tried(w, d) == seen[w][d] + 1

\* Mutant: HTTP success is taken for the hub's ok.
OutcomeIgnoresEnvelope(w, d) ==
  IF answer[w] # "thrown" THEN "delivered"
  ELSE IF Tried(w, d) >= MaxRetries THEN "failed" ELSE "pending"

Outcome(w, d) ==
  IF Ok(w) THEN "delivered"
  ELSE IF answer[w] = "unknown" THEN "unsupported"
  ELSE IF Tried(w, d) >= MaxRetries THEN "failed" ELSE "pending"

\* finish: an update by id alone, whatever the row has become meanwhile.
\* next_at moves into the future only on the retry and failure paths.
Finish(w, d) ==
  /\ pc[w] = "finish" /\ Current(w, d)
  /\ status' = [status EXCEPT ![d] = Outcome(w, d)]
  /\ attempts' = [attempts EXCEPT ![d] = Tried(w, d)]
  /\ due' = [due EXCEPT ![d] = IF answer[w] \in {"rejected", "thrown"} THEN FALSE ELSE @]
  /\ Proceed(w, d)
  /\ UNCHANGED <<content, links, stamped, hub, converted, calls, bounds>>

\* recordPortalConversion.
Stamp(w, d) ==
  /\ pc[w] = "stamp" /\ Current(w, d)
  /\ stamped' = stamped \cup {d}
  /\ Proceed(w, d)
  /\ UNCHANGED <<tables, links, hub, converted, calls, bounds>>

-----------------------------------------------------------------------------
(* Ending a batch, and what may go wrong.                                  *)

\* Mutant: no finally block.
FlagAfterNoFinally(w) == polling

\* Only a cycle holds the flag.
FlagAfter(w) == IF w \in Cycles THEN FALSE ELSE polling

\* w's invocation is over; a cycle clears the flag in its finally block.
Return(w) ==
  /\ pc' = [pc EXCEPT ![w] = "idle"]
  /\ todo' = [todo EXCEPT ![w] = {}]
  /\ seen' = [seen EXCEPT ![w] = NothingSeen]
  /\ cache' = [cache EXCEPT ![w] = NoLookups]
  /\ answer' = [answer EXCEPT ![w] = "none"]
  /\ polling' = FlagAfter(w)

EndBatch(w) ==
  /\ pc[w] = "next" /\ todo[w] = {}
  /\ Return(w)
  /\ UNCHANGED <<tables, links, stamped, hub, converted, calls, bounds>>

\* Polling, the batch query or a connection lookup throws: the invocation
\* ends and the rest of its batch is left alone.
Throw(w) ==
  /\ faults < MaxFaults
  /\ \/ pc[w] \in {"polling", "select"}
     \/ pc[w] = "next" /\ \E d \in todo[w] : Current(w, d) /\ cache[w][content[d].org] = "unread"
  /\ Return(w)
  /\ faults' = faults + 1
  /\ UNCHANGED <<tables, links, stamped, hub, converted, calls, requeues>>

\* An update fails: the client returns {error}, which attemptOne ignores.
WriteLost(w, d) ==
  /\ faults < MaxFaults
  /\ pc[w] \in {"touch", "finish", "stamp"} /\ Current(w, d)
  /\ Proceed(w, d)
  /\ faults' = faults + 1
  /\ UNCHANGED <<tables, links, stamped, hub, converted, calls, requeues>>

InFlight == {d \in Rows : /\ \E w \in Workers : pc[w] = "call" /\ Current(w, d)
                          /\ content[d].resource \in hubKnown}

\* The process exits (a signal, a redeploy) and restarts; the hub may still
\* apply what was on the wire.
Crash ==
  /\ faults < MaxFaults
  /\ \E w \in Workers : pc[w] # "idle"
  /\ \E S \in SUBSET InFlight : accepted' = accepted \cup S
  /\ pc' = [w \in Workers |-> "idle"]
  /\ todo' = [w \in Workers |-> {}]
  /\ seen' = [w \in Workers |-> NothingSeen]
  /\ cache' = [w \in Workers |-> NoLookups]
  /\ answer' = [w \in Workers |-> "none"]
  /\ polling' = FALSE
  /\ faults' = faults + 1
  /\ UNCHANGED <<tables, links, stamped, hubKnown, refused, converted, calls, requeues>>

-----------------------------------------------------------------------------

Attempt(w, d) ==
  \/ LookUp(w, d) \/ Skip(w, d) \/ Call(w, d)
  \/ \E a \in {"ok", "record"} : HubAccepts(w, d, a)
  \/ HubRejects(w, d) \/ HubRefuses(w, d) \/ CallThrows(w, d)
  \/ Touch(w, d) \/ Finish(w, d) \/ Stamp(w, d)

Step(w) == SelectDue(w) \/ EndBatch(w) \/ \E d \in Rows : Attempt(w, d)

Next ==
  \/ \E d \in Rows, o \in Orgs, r \in Resources : Enqueue(d, o, r)
  \/ \E o \in Orgs, v \in {"active", "inactive"} : SetConnection(o, v)
  \/ \E d \in Rows : Elapse(d)
  \/ \E r \in Resources : HubGrows(r)
  \/ \E c \in Cycles : BeginCycle(c) \/ PollingDone(c)
  \/ \E a \in Admins : AdminProcess(a)
  \/ \E a \in Admins, d \in Rows : RequeueDelivery(a, d)
  \/ RequeueUnsupported
  \/ \E w \in Workers : Step(w) \/ Throw(w)
  \/ \E w \in Workers, d \in Rows : WriteLost(w, d)
  \/ Crash

Spec == Init /\ [][Next]_vars

\* The cron schedule keeps firing, node runs every callback and callHub's
\* timeout bounds every call, so a running invocation always goes on, and
\* time passes.  Nothing obliges the operator, the producers or the hub.
Fairness ==
  /\ WF_vars(\E c \in Cycles : BeginCycle(c))
  /\ \A c \in Cycles : WF_vars(PollingDone(c)) /\ WF_vars(Step(c))
  /\ \A a \in Admins : WF_vars(Step(a))
  /\ \A d \in Rows : WF_vars(Elapse(d))

FairSpec == Spec /\ Fairness
-----------------------------------------------------------------------------
(* Properties.                                                             *)

\* A status is earned: a row says delivered only if the hub has applied it,
\* unsupported only if the hub has refused its resource, and failed exactly
\* when the retry policy is exhausted (attemptOne, both requeues).  Holds
\* however many processors overlap, with lost writes and crashes.
StatusEarned ==
  \A d \in Rows :
    /\ status[d] = "delivered" => d \in accepted
    /\ status[d] = "unsupported" => d \in refused
    /\ status[d] = "failed" => attempts[d] = MaxRetries
    /\ status[d] = "pending" => attempts[d] < MaxRetries

\* A portal request is stamped only with a record the hub reported for it
\* (recordPortalConversion's early return).
StampedIsConverted == stamped \subseteq converted \cap accepted

Handling(w, d) == Current(w, d) /\ answer[w] = "record"

\* Every conversion the hub reports ends up on the portal request, as the
\* README promises; until then the processor that heard of it still has it.
\* Only a fault (a restart or a lost write) may lose the stamp, which nothing
\* repeats: however the processors overlap, they do not lose it themselves.
ConversionTraced ==
  faults = 0 => \A d \in converted \ stamped : \E w \in Workers : Handling(w, d)

\* The flag of runPollCycle keeps cron cycles apart, through throws and
\* restarts, and is never left set by a cycle that is over.
OneCycle ==
  /\ \A c, e \in Cycles : pc[c] # "idle" /\ pc[e] # "idle" => c = e
  /\ polling <=> \E c \in Cycles : pc[c] # "idle"

\* "With bounded retry": between two requeues the hub is called for a row at
\* most maxRetries times, and once more for each fault that loses the count.
BoundedRetry == \A d \in Rows : calls[d] <= MaxRetries + faults

\* processOutbox "processes due pending deliveries": a pending row of an org
\* whose connection stays active is eventually settled.
EventuallySettled ==
  \A d \in Rows : \A o \in Orgs :
    (status[d] = "pending" /\ content[d].org = o)
      ~> (status[d] # "pending" \/ conn[o] # "active")

\* The same promise with operators who eventually stop changing connections.
DueRowsProcessed == <>[][UNCHANGED conn]_conn => EventuallySettled

Entry(s) ==
  IF s = "pending" THEN "queued" ELSE IF s = "unsupported" THEN "parked" ELSE s

\* While only cron drives it, the outbox implements the ledger: settled once,
\* never delivered unheard, reopened only by an operator.
Ledger == INSTANCE DeliveryLedger
  WITH Deliveries <- Rows, entry <- [d \in Rows |-> Entry(status[d])]

LedgerSpec == Ledger!Spec

\* Portal requests name the record the hub made of them: a stamp is a conversion
\* the hub reported, and such a conversion is stamped, but for a fault between.
StampsTrue == StampedIsConverted /\ ConversionTraced
=============================================================================
