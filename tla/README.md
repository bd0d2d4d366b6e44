# Verification of the tire middleware

TLA+ models of the gateway in `src/src`, the TLC runs that check them on small
instances, and TLAPS proofs of their main properties for every instance. The
modules were written from the TypeScript source; `PROJECT.json` names the lines
each definition stands for, the runs, the mutants, the findings and the hazards.

    tlc -workers 2 -config OutboxCasts.cfg MCOutbox.tla  # a run
    tlapm OutboxProofs.tla                               # a proof module

## 1. The system

A Fastify server and a cron schedule in one Node process, on top of a Postgres
database (through the Supabase client, which *returns* errors instead of
throwing them) and, per organization, an optional connection to a *hub* that is
the system of record. No handler uses a transaction or a lock: each `await` of
a database or hub call is a point where any other handler may run, and each
call can fail on its own. A restart loses everything in memory.

| Component | State | Operations | Interacts with |
|---|---|---|---|
| Outbox `hub/outbox.ts`, connector `hub/connector.ts` | `hub_deliveries` rows (status, attempts, next_at), hub connections, `portal_requests.hub_record_id` | enqueueDelivery, processOutbox / attemptOne, requeueDelivery, requeueUnsupported, touchConnection | every producer enqueues; the hub answers; stamps portal requests |
| Scheduler `index.ts` | the `polling` flag | runPollCycle (poll, then outbox), signals | poller, outbox |
| File poller `files/poller.ts`, retry queue `files/retry.ts` | one jsonb column per endpoint: processed keys, retry state, dead letters, settings | pollEndpoint, recordFailure/Success, requeue, PATCH | transports fetch, `files/runs.ts` dispatches to EDI, inventory, dynamic ingest |
| EDI service `edi/service.ts`, sets `edi/sets.ts` | `edi_messages` in and out, purchase orders and lines | processInboundInterchange, reconcile997, createOrderFrom850, emit855/856/810/997 | called by `/v1/edi`, the poller and the operator's retry; enqueues `edi.receive` |
| Rate limiter `auth/rateLimiter.ts` | admissions per key, in memory | allow, prune | API-key gate (timer), portal gate (no timer) |
| Portal `portal/service.ts`, `routes/portal.ts` | `dealer_portal_settings`, `portal_api_keys`, the content cache in memory; `portal_requests` and events | validatePortalAccess, hubContent, createRequest; admin edits of settings and keys | outbox, hub, rate limiter |
| API gate `auth/apiKey.ts`, `server.ts`, `mcp.ts` | `api_clients` rows, `api_request_logs` lines | authenticate, requireScope, the onResponse hook; the MCP endpoint's own gate; `/v1/objects` | rate limiter, configuration, every resource |
| Configuration and runs `mappings.ts`, `files/runs.ts` | one `org_integrations` row per org with a jsonb config, `integration_runs` | ensureRunContext, startRun, finishRun, PUT of the config, getGatewayOrgConfig | dashboard, poller, intake, gate |
| Domain resources `domain/resources.ts` | products, orders, claims | upsert, create, ack, status, pushInventory, claims | outbox, direct hub calls |
| Inventory `domain/inventory.ts`, dynamic `dynamic.ts`, catalog sync `hub/connector.ts` | product stock, prices, any configured table | applyInventoryRows, applyPriceRows, applyDynamicRows, syncCatalog | files/runs, resources, `/v1/objects` |
| Formats `edi/x12.ts`, `edi/sets.ts`, `files/csv.ts` | none: text to rows and back | parse and build interchanges and transaction sets; tokenize, map and sniff CSV | EDI service, poller, previews |
| Dashboard `public/ui/app.js` | a token, an address, the page shown, calls under way | login, router, ten views, saves, dialogs | admin API |
| Admin API and routes | configuration rows | CRUD, poll, requeue, retry, replay | all of the above |
| Storefront, transports, SDK, config | none of their own | passthrough, I/O | — |

What is hard here, and what makes each component correct:

* **Outbox.** Several processors (a cron cycle, operator requests) work on
  overlapping snapshots and write back by id; calls time out after the hub has
  applied them; rows of unsupported resources wait for a newer hub. Correct: a
  delivery is delivered only if the hub applied it, parked only if the hub
  refused it, failed only after its attempts; due rows are eventually settled;
  a portal request is stamped with the record the hub created.
* **File poller.** Everybody replaces the whole column with what they read
  earlier. Correct: the memories agree, nothing is skipped that did not take
  effect, nothing takes effect twice, dead letters were earned, an operator's
  save survives.
* **EDI intake.** A chain of writes per message, partly undone on failure, and a
  control number that is read before it is used. Correct: `processed` means
  applied and answered; control numbers are unique; the ledger shows the
  partner's verdict; a 997 is not answered; processed messages reach the hub.
* **Rate limiter.** Forgetting must neither free budget early nor hold it late.
* **Resources, portal intake.** A local write and the enqueue that forwards it
  fail separately, and the client repeats what failed. Correct: what is
  acknowledged reaches the hub, what is refused does not, once, and only if it
  is stored in full.
* **Gate.** A row read at the beginning decides until the end, while rows and
  configuration are edited. Correct: who is served was entitled to it while the
  request was under way, who is refused was not, and every answer has its line.
* **Configuration.** Found or inserted in separate calls, read whole, written
  whole. Correct: an organization has one row, and an acknowledged edit stays.
* **Ingest.** Rows are looked up and written one by one without a transaction and
  retried as a whole. Correct: a job that is alone is atomic in effect; no second
  price, no second product; the last row of a sku wins; documents lose no key.
* **Portal reads.** Settings and key are read in two calls; content comes from a
  cache that several requests fill. Correct: access follows the settings, content
  is the dealer's own and fresh, the fallback is justified.
* **Formats.** Documents travel, are cut off, and are read by the same code at the
  other end. Correct: read as meant or refused.
* **Dashboard.** Answers arrive after the operator has gone elsewhere. Correct: the
  page shows what the address and the choice say, and a save goes to the
  organization it was shown for.

Every hazard is listed with its line in `PROJECT.json`.

## 2. Modules

| Module | What it models |
|---|---|
| `Outbox`, `MCOutbox`, `OutboxProofs` | the outbox, connector and scheduler |
| `DeliveryLedger` | what the outbox promises: settled once, delivered only if applied, reopened only by replay |
| `FilePoller`, `MCFilePoller`, `FilePollerProofs` | one endpoint's column, its pollers and editors |
| `EdiIntake`, `MCEdiIntake`, `EdiIntakeProofs` | one org's intake, the outbound ledger and 997s |
| `RateLimiter` | one limiter object and its two gates |
| `OrgConfig` | one org's configuration row, its windows and polls, the run ledger |
| `Gateway`, `MCGateway`, `GatewayProofs` | requests to the API; extends `RateLimiter` and `OrgConfig`, whose state it reads; the proofs are about all three |
| `Staging`, `MCStaging`, `StagingProofs` | one org's requests on their way to the hub, on top of `DeliveryLedger` |
| `Ingest`, `IngestProofs` | the writers of products and prices |
| `Portal` | the portal's gate and its cached content |
| `Dashboard` | one browser window |
| `MCPortal`, `PortalProofs` | `Portal` and `Dashboard` for model checking; proofs about both |
| `Texts`, `X12`, `EdiSets`, `CsvFiles`, `CsvFilesProofs` | the formats, over sequences of tokens; proofs about CSV (cut off, and read back) |
| `MCEdi`, `MCFiles` | for model checking: the intake with the documents that travel; an endpoint with the jobs and the sheets |

Conventions: one action per database or hub round trip; a handler's local
variables (its snapshot, cache, position) are functions of the handler; a
definition named in a "Mutant:" comment is a plausible bug and is used by no
behaviour of the specification. Bounds are the constants `Max…` (and the size
of the sets), named in each module's CONSTANTS.

### Outbox

`content`, `status`, `attempts`, `due` are the columns of `hub_deliveries`
(`due`: next_at has passed; `Elapse` lets it pass, at any time). Workers are
firings of the cron schedule (`Cycles`: guarded by `polling`, first the file
poll, then the outbox) and operator requests (`Admins`: not guarded). A worker
selects the oldest `Limit` due rows with their attempts (`SelectDue`), looks each
org's connection up once (`LookUp`), skips or calls (`Skip`, `Call`); the hub
accepts, rejects, refuses the resource, or the call throws whether or not the
hub applied it. Then come the writes in the order of attemptOne: on success
finish, touch, stamp; on an exception touch, finish. Writes may be lost
(`WriteLost`: the client returns an error nobody reads), lookups may throw
(`Throw`), the process may die (`Crash`). `RequeueUnsupported` and
`RequeueDelivery` are the operator's replays. `LedgerSpec` is `DeliveryLedger`
under the mapping of statuses to entries: with cron cycles only, every step is a
step or a stutter of the ledger.

### FilePoller

`config` is the column, `snap[p]` what request p read and has changed so far,
`batch` and `done` the poll's local lists. `Skipped` are processed, dead and
still-backing-off keys; which retry entries are still backing off is a choice
(`waiting`), so backoff lengths are abstracted to "at some poll it is over".
`Remembered` cuts to `PROCESSED_KEEP`. An ingest's own effect is one count per
file. Requeue and PATCH read, then write, the whole column. `step` says where a
request is; the module's variables and actions have names of their own, so that it
can be checked in one run with `Ingest`.

### EdiIntake

`inbound` and `outbound` are the two directions of `edi_messages`; `orders` and
`bare` count, per 850 of a document, purchase orders with and without lines. A
handler's `pc` is the await it is at. An interchange is its list of
transactions; a 997 carries a set, a control number, a code and whether AK3/AK4
detail stands between AK2 and AK5 (that is all parse997's result depends on); a
997 with several AK2 loops acts like several 997s in a row. `Emit` stands for
emit855ForOrder, emit856ForShipment and emit810ForInvoice: exported functions
that pick a number and store a message; no route calls them yet. Everything that
can throw before a transaction has written anything is `TransactionThrows`.

### RateLimiter

`hits` is the Map, `granted` the history it is judged by; an admission has a
number besides its timestamp since several may share a millisecond. allow() has
no await, so one call is one step; a portal call asks for the key and only if
that is admitted for the address. The limit is chosen per call up to the key's
`Ceiling`: it is read from the database earlier and may be edited. The clock does
not run backwards, and budgets are per process (a restart forgets them).

### Staging

A request takes one of five routes (`Kinds`): `order` is createOrder, `record`
the writes that are always forwarded (upsertProduct, updateOrderStatus,
createClaim, updateClaim with something the hub takes), `local` updateClaim with
an adjudication, `portal` createRequest, `push` pushInventory. `pc` is the await
it is at, `FirstStep`, `Staged`, `Forward`, `Unlinked` and `EnqueueFailure` say
where the routes part. `rows` and `bare` count the local rows written for an
intent, complete and without lines; an update counts like an insert, so `rows`
is an upper bound there. `repeats` are requests a client makes again after an
error; the code keeps no key to recognize them by. A write that returns an error
was done or was not (`StageThrows`, `EnqueueUnheard`, beside the actions that do
nothing), and the direct call may have been applied although it throws. The outbox
is not modelled again: the module composes with `DeliveryLedger`, whose `Stage` is
enqueueDelivery and whose `Apply` and `Settle` run beside the requests. `cut` are
the intents whose client cannot know what became of them: a restart has swallowed
the answer, or an error was returned for an insert that was done. Such a client
repeats what may have been forwarded.

### OrgConfig

`instances` are the organization's rows, `call[a]` the round trip a window's
request or a poll is at: look for the provider, insert it, look for the row,
insert it, then load, write or run. The poller throws on a failed look-up; the
dashboard ignores the error and inserts (`LookupFails`). `form[w]` is what a
window shows and sends: a partner's mapping window asks for the configuration
again before it writes, Org Settings too, but takes every part from its fields.
`Shown` is what a reader gets: nothing, if there are two rows. `unique` is whether
the hub's database has unique indices there; the migrations of this repository do
not create these tables, so both are possible. `wanted`, `writtenAt` and
`overtaken` record what was acknowledged and which window wrote over a save it
had not seen.

### Gateway

`pc` is the await a request is at: the look-up of its key, the limiter (no await,
but an answer of its own), the two reads of the configuration for
`/v1/objects`, the answer, the log line, `last_used_at`. `met[r]` is every client
row and object declaration that held while the request was under way; the
properties judge the answer by it. `Needed`, `Allowed` and `Decide` are the scope
rules, with the MCP tools as one more kind of route: they check scopes inside,
are not rate limited once authenticated and not logged (`IsLogged`). Behind the gate a
request succeeds or ends in 500.

### Ingest

A job is a file, a push, an upsert or a sync: `pc`, `at` (row), what it read when
it began (`ids`, `docs`), what its last look-up found (`hit`). Stock, price and
dynamic jobs take a snapshot of the ids, upserts and syncs look each sku up, with
ILIKE (`Like`, `Wild`: a sku with `_` or `%` is a pattern). A write can fail
before or after it took effect: stock, price and upsert then throw, a dynamic job
collects the error, goes on and fails at its end, and the catalog sync only does
not count the row (`GiveUp`). `log` holds the finished jobs, `book` the tables as they
are when each of these is applied whole: `Whole` says at once what a job does to a
sku (the last row that names it counts, but for rows whose write failed without
stopping the job), and is what `AtomicIngest` compares the tables with. A job
that comes `again`, after a failure, and then ignores an error is `torn`.

### Portal

`settings`, `keys`, `hub` and `cache` are the tables, the hub's content with its
version, and the Map; `seen` the settings a handler read before it reads the
key. `Call`, `HubReads` and `Returns` are the request's way to the hub and back,
each at a time of its own, within `Timeout`; failures are stored like answers.
Origins of local development (`Local`) and requests without an origin header
(`NoOrigin`) are among what the gate meets: the former always pass, and else a
key's origins replace the dealer's where it has some. `gone`, `failedAt`, `triedAt`, `crowded` and `herd` record what the properties
are about.

### Dashboard

`page` is the frame and its body, `pending` the calls under way with what each
will do when its answer comes: which view it renders, whether its page is still
there (`live`), whose values it carries (`of`) and to which organization (`to`,
`choice`). A call takes effect when its answer comes, and the three GETs of
viewPortal count as one. `View` says of each of the ten views what can be chosen
and what follows a save.

### Texts, X12, EdiSets, CsvFiles

A text is a sequence of tokens: separators, quotes, blanks and line feeds, and
words for runs of other characters. Writing and reading are operators on such
sequences, in the order of the code: separators off the ISA, segments, groups,
transactions, fields; records, headers, columns, rows. `EdiSets` and `CsvFiles`
have a small transition system around them (write, arrive whole or cut, answer or
ingest) so that every prefix of every document is checked. Amounts are in
cents; control numbers keep their width (nine digits in the envelope, the last
four in ST and SE). Blanks that pad ISA fields are left out. `Sniffed` has the
sniffing's own lists of header names, `HeaderIndex` the parsers'.

## 3. Runs

| Run | Instance | Shows |
|---|---|---|
| `outbox_casts` | two cycles, or a cycle and an operator; two deliveries, 1 fault, 1 replay | statuses are earned, stamps are those of conversions, due rows settle; driven by cron alone: at most MaxRetries calls per (re)queue, and it refines `DeliveryLedger` |
| `outbox_head_of_line` ✗ | two orgs, a batch of 1 | a disconnected org's old rows fill every batch; another org's due row is never processed |
| `files` | an endpoint: one poller with three files and a fault, two pollers, a poller and an editor | the memories agree and are true; alone: once and once more per fault, dead letters are earned, every available file settles |
| | jobs: six by themselves with 2 faults, fourteen pairs with 1 and a triple with none, of twelve; two products and a sku that is a pattern, 1 repeat | tables are sound, a job alone is atomic, the last row wins, upserts are forwarded, keys are kept |
| | a sheet: ten sheets, five profiles, four file types, every prefix | rows are read as meant, a cut CSV costs its last row only |
| `poller_requeue_lost` ✗ | a poll and an editor | a requeue that was answered ok is undone by the poll's write |
| `edi` | handlers: one with four requests; two with two, 1 fault; five kinds of interchange | messages are answered rightly and verdicts recorded; alone and without a fault: control numbers unique, no line-less order, statuses settle and processed messages are forwarded |
| | a document: a full one of each kind and each with one value missing or odd; two separators, three control numbers, every prefix | it is read as meant or refused, answers match |
| `edi_explained` ✗ | one 997 with detail | a rejection is recorded as an acceptance |
| `edi_groups` ✗ | interchanges of one and two groups | the 997 names the transactions of the first group only |
| `gateway` | five casts: calls and prunes of a limiter; two requests while the client's row is edited; objects while their declaration is edited; two windows; a window and two polls while calls fail and the process restarts | the budget is exact, answers follow rows and configuration, the ledgers are true, one configuration row, edits stay |
| `staging_mixed` | an order, a push and a quote, two deliveries, 2 repeats, 1 fault, a connection that comes and goes | answers are true of the hub, forwarded once and only in full, one extra row per fault at most |
| `portal_reads` | three casts of the portal (gate and edits; one dealer's content; two dealers'), two of the dashboard (pages with choices and saves; sessions with dialogs) | the gate is exact, content justified, pages and saves are those of the organization shown, new keys are seen |
| `portal_stampede` ✗ | two requests for one dealer | both ask the hub within one TTL |
| `portal_key_origins` ✗ | a dealer and a key with origins of their own | a key widens what its dealer allows |

✗ marks a run that must find its property violated: the property is what a
comment or the repository's README says, the run what the code does. Each is a
finding in `PROJECT.json` with the sentence quoted.

**Casts.** A cast, drawn in the initial state and kept, fixes which actors play
and the bounds that go with them (`Plays` in the MC module), so that one run covers
several deployments without their product. In `edi` and `files` the cast also says
which of the parts moves: the handlers of `{r1, r2}`, the requests of `{cron, op}`,
the jobs of a set of jobs, or, for the empty cast, one document or sheet; the other
parts rest in their initial state, for no state of theirs is shared but by what one
hands to the next. A property named `Alone…` or `Cron…`
says something of the cast with one actor only; for the others it does not hold,
as the table below says.

**Properties that are conjunctions.** `StampsTrue`, `MemorySound`,
`AnsweredRightly`, `LimitExact`, `LedgersTrue`, `AnswersTrue`, `ForwardedInFull`,
`TablesSound`, `ReadBack`, `SheetRead`, `ContentJustified` and
`PageShown` are conjunctions of named parts, the last in their modules and each part
stated on its own before them. The types of the outbox, the poller, the intake,
staging and the portal are proved (section 4) and not checked again by a run;
so is `OneCycle`.

**Where a passing property stops holding.** Several properties are checked in an
instance smaller than the code allows, or except a case, because there TLC shows
that the code does not keep them. Changing the constants of the cfg, or dropping
the exception, reproduces each.

| Property | Fails with | Code |
|---|---|---|
| `CronBoundsRetry`, `CronKeepsLedger` | an operator's processing overlapping a cycle: both hold one attempt count and write it back as one | `hub/outbox.ts:66-68` |
| `ConversionTraced` without its `faults = 0` | one restart between the row's update and the stamp; nothing repeats the stamp | `hub/outbox.ts:76` |
| `AloneIngestsOnce` | two pollers (cron and `POST /admin/poll` read before either writes), or `Keep` below the number of files (`PROCESSED_KEEP` against an SFTP listing that is never cut) | `files/poller.ts:101,143` |
| (settings saved by a PATCH are kept) | the same lost update as `poller_requeue_lost`: `...config` restores what the poll read | `files/poller.ts:147-148` |
| `AloneControlUnique` | two handlers: both read the greatest number before either stores its message. `README.md:129-130` of the repository promises "control numbers sequenced per org" | `edi/service.ts:37` |
| `AloneNoLinelessOrder` | one fault: the delete that undoes an order fails and its result is not looked at | `edi/service.ts:408` |
| `AloneFinishes` | one fault: the enqueue throws into an empty catch, so there is no row for "the outbox sweep" to retry | `edi/service.ts:292` |
| (one order per 850) | an 850 followed by an unsupported set ends in error with its order created; reprocessing the message creates it again | `edi/service.ts:260` |
| `NothingAcknowledgedIsLost` without its exception for portal requests | one failed enqueue: createRequest answers with the stored request and nothing sweeps for it | `portal/service.ts:341` |
| `ErrorSendsNothing`, `ForwardedOnce` without `cut`, `StagedOnce` without `faults` | one restart or failed enqueue after the local write: the repeated request is a new row; after a restart, or an enqueue that was done in spite of its error, it is a new delivery too. A direct push that timed out and is then queued, or answered with an error, may have been applied all the same | `domain/resources.ts:260` |
| (the hub's stock is the last pushed) | a direct push that failed is queued; a newer one goes through; then the queue delivers the older quantities. The hub's stock is not modelled | `domain/resources.ts:330-332` |
| `OutdatedDropped` | `Pruned = FALSE`: the portal's limiter is never pruned | `portal/service.ts:78` |
| `Logged` for MCP | authenticated MCP calls are neither logged nor rate limited; `app.js` heads the logs "Every authenticated API request" | `mcp.ts:222-233` |
| `DenialJustified` with failed calls | a key look-up that fails answers 401 over MCP (500 over REST); a failed read of the configuration is an empty one: an exposed object is a 404, thresholds are the defaults | `mappings.ts:21-23` |
| `AccessJustified`, `DenialJustified` without `OneConfig` | a second provider row between an object request's two reads: it is answered by a row that later requests do not find | `mappings.ts:17-30` |
| `SingleContext` without `unique \/ ~doubled` | two that look before either inserts, or a failed look-up of the dashboard, which passes for none. Then the configuration reads as empty, polls go unrecorded and the dashboard inserts once more | `files/runs.ts:23`, `routes/adminApi.ts:210` |
| `EditsKept` without `overtaken` | Org Settings was opened before a mapping was saved and writes the old one back | `public/ui/app.js:848` |
| `RunsClosed` without `orphans` | a restart, or a failed closing update: the run stays "running" | `files/poller.ts:164` |
| `OneListPrice` | two price jobs at once | `domain/inventory.ts:98` |
| `OneProduct` | two creating jobs at once, or a catalog sync whose look-up failed (the error is not read) | `domain/resources.ts:109`, `hub/connector.ts:145` |
| `KeysKept` | two dynamic jobs at once, or one job with a sku twice: the merge starts from the document read at the beginning | `dynamic.ts` |
| `LastRowWins` for a job that names a sku twice | a catalog sync whose last write fails, which the sync only does not count; an inserting job makes two products of one sku, and a stock file that starts over after a failure finds the other one | `hub/connector.ts:145`, `dynamic.ts` |
| `AtomicIngest` | another job between a failure and its retry | `domain/inventory.ts:69` |
| `AtomicIngest` without its exception for `torn` jobs | two faults: a catalog sync fails (a restart) after writing a row, comes again, and ignores the error of that row: the row holds what the first attempt wrote, though the sync did not count it | `hub/connector.ts:151-157` |
| `CutHarmsLast` without `HeadedAssumption` | an interchange behind lines of blanks, at an endpoint with a target: cut off inside these lines it is CSV rows, whole it is EDI | `files/csv.ts:172` |
| `OneAttempt` without `herd` | `portal_stampede` | `portal/service.ts:178` |
| (content does not go back) | two overlapping calls to the hub: the older answer returns last and is cached | `portal/service.ts:178` |
| (a key's origins narrow the dealer's) | `portal_key_origins` | `portal/service.ts:134` |
| `ReadWhole` for odd values | nothing is escaped: an 856 line whose sku holds `~` is dropped without a word | `edi/x12.ts:191` |
| (only lines that were written are read) | a value that goes on `~PO1*...` is one more line; the others are read as they were meant (`StrayContained`) | `edi/x12.ts:191` |
| `AckMatches` for interchanges of several groups | `edi_groups` | `edi/sets.ts:169` |
| `CutHarmsLast` for the last row | a CSV read during its upload: the last row is taken as it stands and, the key being remembered, the rest is never fetched | `files/transports.ts:48` |
| `SniffedReadable` for every profile | the sniffing reads with commas and without the profile's columns; a leading line of blanks is sniffed over but not read over. A file with both price and quantity is prices only | `files/csv.ts:181` |
| `OwnSettings` without `~hasty` | Org Settings saved while another organization's fields are loading, or after a reload failed silently: one org's configuration goes to another | `public/ui/app.js:848-853` |
| `ViewShown` without `together`, `failures` | two route() calls wait for the organizations: the later answer wins whatever the address; a failed call leaves the login with a token | `public/ui/app.js` |
| (a session ends only by its own refusal) | a late 401 of an earlier session's call ends the present one | `public/ui/app.js:21-25` |

**Bounds.** Two actors of a kind show every race the code has, because a handler
reads once and writes once per piece of state: a third one adds no new order of
one read and one write. MaxRetries = 2 has a first and a last attempt. A batch limit
of 1 or 2 is both smaller than and equal to the number of rows. Keep = number of
files does not evict; smaller ones are in the table above. A file's effects are
counted up to `EnoughTimes`, two more than the faults. One fault at every
point is enough for each property to meet each fault alone; the theorems cover
any number. The limiter's time goes past two windows, the portal's past one TTL
and a call. The configuration's parts have up to three values; twelve jobs of two
or three rows have a row before and after every failure, and one sku twice. A
document varies in one value at a time, since no reader relates two of them. The
dashboard visits the views that differ in what they do (`clients`, `settings`,
`portal`), with two calls under way beside a late one. The deliveries of
`staging_mixed`, a safety run, are declared symmetric. Several runs say
CHECK_DEADLOCK FALSE: requests, clicks, jobs or documents come to an end there,
and the system may stop.

**Fairness.** Node runs a ready continuation and every await has a timeout or
returns an error, so an enabled step of a started handler is weakly fair
(`FairSpec`, or `MCFairness` for the cast). In the outbox the schedule fires again
and again. In the poller the backoff is at most `max_backoff_minutes`, so polls recur at
which no entry is backing off: strong fairness of `Fetch(p, {})`. Nothing forces a
request to arrive, a fault to happen, an operator to act or the hub to accept.
The limiter's prune timer is fair where there is one, and so is time.

## 4. Proofs

All theorems hold for every value of the constants that satisfies the named
assumption of the module: any number of rows, workers, files, handlers, keys,
clicks, faults, restarts and operator actions. Every safety property of the
passing runs is one of them but `ReadBack`, `AckMatches` and `SheetRead`, which say
what the formats make of their input.

| Theorem | States |
|---|---|
| `OutboxType` | types; attempts never exceed MaxRetries |
| `OutboxStatusEarned` | delivered ⇒ applied, unsupported ⇒ refused, failed ⇒ attempts used |
| `OutboxStamped`, `OutboxTraced`, `OutboxStampsTrue` | a stamp belongs to a conversion the hub reported, and without a fault every conversion is stamped |
| `OutboxOneCycle` | at most one cron cycle, and the flag is set exactly while it runs |
| `OutboxBoundsRetry` | with cron alone, at most MaxRetries calls per (re)queue, one more per lost count |
| `OutboxKeepsLedger`, `OutboxRefinesLedger` | with cron alone, the outbox refines `DeliveryLedger` |
| `FilePollerType`, `FilePollerMemory` | types; the memories agree and remembered files took effect |
| `FilePollerEarned`, `FilePollerEarnsDeadLetters` | without an operator, only files that failed max_retries times are dead letters |
| `FilePollerIngestsOnce` | one poller lets a file take effect once, and once more per fault, *if* the directory fits the memory |
| `EdiIntakeType`, `EdiIntakeAnswered` | types; processed ⇒ applied and answered, no 997 for a 997 |
| `EdiIntakeVerdict` | verdicts are recorded, *if* no 997 has AK3/AK4 detail (`PlainAcks`) |
| `EdiIntakeControl`, `EdiIntakeAloneControl` | control numbers are unique as long as no two handlers are between the look-up and the insert (`OneHolder`); so for one handler |
| `EdiIntakeNoLineless`, `EdiIntakeAloneNoLineless` | without a fault no order without lines is left, however many handlers overlap |
| `RateLimiterType`, `RateLimiterExact`, `GatewayBudget` | lists within the limit; every window within the limit, refusals justified; the same inside the gate, while limits are edited |
| `GatewayAccess`, `GatewayDenial` | who is served had a good key, the scope and a declared object while the request was under way; who is refused had not |
| `GatewayLedgers`, `GatewayTypes` | every answer has its line, every running run is one; types of the three modules together |
| `OrgConfigSound`, `GatewayConfig` | one configuration row, edits stay, runs are closed: the configuration by itself, and behind the gate |
| `StagingType`, `StagingAnswers`, `StagingInFull`, `StagingStagedOnce` | all properties of `staging_mixed`, for any number of intents of any kind |
| `IngestSound` | one list price, one product per sku |
| `IngestLastRow` | quantities are a job's last word, *if* jobs name a sku once (`Uniform`) |
| `IngestAtomic` | a job that is alone has the effect of all its rows, once, when it is done, however often it failed, was cut off or came again |
| `IngestRowByRow` | when such a job is done, the tables are what its rows make of them one after the other, whatever its earlier attempts had written |
| `IngestKeysKept`, `IngestForwarded` | documents lose no key; finished upserts are forwarded |
| `CsvCut` | wherever a CSV file is cut off, by a preview or under an upload, what is left is of the kind the whole is of and gives the whole file's rows but for its own last one |
| `CsvRoundTrip` | what is written by RFC 4180 is read as it was, whatever the cells hold: separators, quotes and line feeds included |
| `PortalType`, `PortalGate`, `PortalContent` | types; requests nothing was edited under are answered by settings and key, from local origins or those of the key where it has some, else of the dealer; all that the cache promises, for every TTL and time-out |
| `DashboardPageShown` | types; the window shows its address, the body its choice |
| `DashboardOwnPortal`, `DashboardOwnSettings` | portal settings never reach another dealer, nor Org Settings another organization if the operator waits |
| `DashboardKeysNoted` | issued keys are seen |

**Hypotheses.** `HeadedAssumption` (`CsvCut`): the first row of a sheet has something
in it, or it is not EDI and the blank row is no header of the profile's; TLC finds it
true of the sheets of `files`. `PlainAcks`: `edi_explained` violates the property without it.
`OneHolder`, a directory within `Keep`, operators that do not act, and the rows of
`Uniform` (an inserting job has a sku once, and so has a catalog sync; an upsert
has one row anyway): section 3 says how the property fails without each. The jobs
of `files` satisfy `Uniform`, the cfgs the others. `IsFiniteSet` of polls,
handlers or requests is asked for where they are counted. The proof modules of the
outbox, the poller, the intake and the portal extend the MC modules, because the
properties of a cast (`Alone…`, `Cron…`) are stated there; the theorems leave the
constants of the cfg open.

The inductive invariants:

* *Outbox.* `TypeInv` adds that a snapshot's attempts are below MaxRetries while
  its row can still be finished. `EarnedInv` adds that a worker's pending answer
  is true of the hub (`AnswerIsTrue`), since the status is written from it later.
  For cron alone, `SoloInv`: a row whose snapshot is still to be processed is as it
  was when it was read, so that the count written back is the count of calls; it
  rests on `OneBusy`, which rests on `OneCycle`. The refinement maps the write of
  the status to the ledger's step and the hub's applying it to the ledger's
  `accepted`; everything else stutters.
* *FilePoller.* Every snapshot, not just the column, must be clean, and every
  batch must be disjoint from what its snapshot remembers (`MemoryInv`): since
  each write replaces the column with somebody's snapshot, the overlap of
  writers is harmless for these properties, however stale the snapshots are.
  `FailuresTrue` says of every snapshot that its attempts are no more than the
  failures there were. `KnownOnce` counts effects of a file by where it is: known
  to the lone poller's column or not, and how many faults have been.
* *EdiIntake.* `Progress(p)` says how far p has come: at transaction k all 850s
  before k have orders; past the loop all have, unless it failed; at the close
  the answer is stored. It survives other handlers because no step takes back a
  document, an order with lines or an answer (`Keeps`). The control numbers need
  that a greatest one exists (`HasMax`), as `NextControlNumber` is a CHOOSE.
  `CountInv`: while there was no fault, a purchase has as many orders without lines
  as there are handlers between the order and its lines or its undoing.
* *RateLimiter.* `Remembered`: every admission of the current window is still in
  the map. So the count allow() compares is the true one, and a window that ends
  later than the last admission holds no more than the one that ended with it.
* *OrgConfig.* `OrgInv`. One row: a context that looked and found none is on the
  way to insert, and two of those at once set `doubled`. Edits: each part of the row
  has a value that is wanted, or was overtaken (`RowFresh`), and so has a window's
  form, for the parts nobody wrote since it was read (`FormFresh`). Runs: a run that is
  shown as running has its poll, or counts among the `orphans`; hence the finite set.
* *Gateway.* `GateInv` is a conjunction, of the limiter's invariant (`BudgetInv`),
  the types and the log (`LedgerInv`), `AccessInv`, `OrgInv` and `DenialInv`. `AccessInv`: until it is answered a request
  has met the present moment, and the client row and configuration row it goes by
  are of a moment it met; so, then, is the reason of a refusal (`DenialInv`). Every
  step of anybody else adds the new moment to `met`; the limiter's and the
  configuration's steps are covered together, by what they leave alone.
* *Staging.* An intent's place on its route says what it has written (`Route`,
  `Explained`), that it has nothing in the outbox before its last step
  (`Unsent`), and that its answer is covered as soon as it is settled
  (`Secured`). `CarriedStep` says that Enqueue alone adds to what the outbox
  holds of an intent and that the outbox never drops it, which is all the
  proof takes from the ledger.
* *Ingest.* `PriceInv` and `ProductInv`: a job that found no row is still right
  about it, as long as its kind did not overlap. `DocInv`: the lone dynamic job's
  copy of a document is the document, for rows still to come. `LastInv`: a quantity
  is the last word of a job, or that of a running job that will come past it
  again, or of a failed one that is to start over. `AtomInv`, for jobs that never
  met: at most one job is not at rest; of each sku the tables hold what the book
  says or what some row of that job makes of it (`Left`); and the attempt under way
  has left the last row it is past (`InOrder`), unless an earlier attempt may have
  left something else that it has not come to yet. Attempts of all kinds of jobs
  end with the same table because a row put twice is put once (`Put` of `Put`).
* *CSV.* `CsvInv` says that what is shown and taken is the outcome of a part of the
  file; the rest is about operators. A part is read, token by token, into the rows
  of the whole, and only its last row can differ (`RowsOfPart`, over `RowsGrow`). If
  it has a second row, and something in its first, its header line is over, so that
  it is sniffed alike (`SameLine`); the same columns are picked; and of the rows
  taken none but the last differs (`ParseRowsOfPart`, `ParseGenericOfPart`).
  `CsvRoundTrip` follows the reader from one state to another along a piece of text
  (`RunsTo`), from a token to a cell (`CellIsRead`), a line (`LineRead`) and the file
  (`RowsRead`). Its hypotheses are where it would be false: a delimiter that is a
  quote or a line feed, and a row of one empty cell, which is written as an empty
  line and read as none.
* *Portal.* `GateInv`: while nothing was edited under a request, the settings it
  read are still the dealer's. `ContentInv`: whatever is in the cache, or on its
  way back, was the hub's when its call began, is the dealer's, and a failure in
  it is on record; an answer inherits that from the entry or the call it comes
  from. `AttemptInv` counts who is on the way to the hub: at most one, but for
  the herd.
* *Dashboard.* `UiTypeInv` adds that a call that still finds its page is of that
  page's view. `ViewInv`: a page that is loading has its call, an empty window a
  sign-in or the organizations' call, and both are for the address. `ChoiceInv`: one
  call draws the page, for the choice its control shows; for an operator who waits
  every load and save under way is for that choice. `KeysInv`: the dialog waits for
  the one call that issues a key. `OwnInv`: every save of the portal page under way
  carries the values of the dealer it goes to, whatever happened to the page since.

Only model-checked:

* liveness under fairness (`EventuallySettled`, `AloneFilesSettle`,
  `AloneFinishes`, `OutdatedDropped`): the prover has no ENABLED;
* what the formats make of their input: `ReadBack`, `AckMatches`, `SheetRead`. That
  the CSV reader inverts the writer is proved (`CsvRoundTrip`); what `SheetRead` adds
  to it, the columns that headers name, the numerals, the cross-reference and the rows
  skipped, and all that X12 does, goes by way of `SelectSeq` and of numerals as text.

Inductions over data are done where the data is counted by a natural number: a set
of numbers with 0 and, with each, the next one is all of them (`SetInduction`, from
the library's least element of a well-founded relation), and a step that can be taken
can be taken n times (`Recursion`), which unfolds a recursive function. The library's
own induction theorems take an operator and could not be used, nor could its folds
and `SelectSeq` be unfolded; the CSV reader is written with recursive functions for that
reason.

## 5. Not modelled

The SFTP and HTTP protocols (a fetch gives a file, part of it, or fails), the
storefront's passthrough, the configuration and database clients, list and get
routes, ackOrder (one direct call), the single-row inserts and updates of
partners, connections and endpoints (an endpoint's PATCH with its masked secrets
included, but for the column it shares with the poller), validation of
`POST /clients`, providers shared by several organizations, the portal SDK and
widget (stateless callers), what the text of a preview or an embed looks like,
seed scripts. Of the generated types and the migrations only the columns, defaults and
foreign keys of the tables above are used. Of the dashboard's dialogs only the API
key's is modelled; the portal key's has its shape; the hub page's "Sync catalog"
is `Ingest`'s `catalog` job. Times are abstracted to orderings (due or not,
backing off or not) except in the limiter, the portal and the gate.

## 6. Plan

1. Done: outbox with its ledger, file poller, EDI intake, rate limiter, staging,
   the gate and its configuration, ingest, portal reads, formats, dashboard;
   theorems about all of them, of the formats about CSV.
2. `Stock`: the inventory push with what it does to the hub's stock: a queued push
   that is delivered after a newer direct one; ackOrder as a direct call.
3. Proofs: the same properties for more casts where they hold with a weaker
   hypothesis (a catalog sync without a failed write, polls that do not overlap);
   that `ParseInterchange` reads what `BuildInterchange` writes, as is proved of CSV.
