----------------------------- MODULE FilePoller -----------------------------
(***************************************************************************)
(* One file endpoint: what files/poller.ts, files/retry.ts and the admin   *)
(* routes do to its config column.  The column holds the poller's memory   *)
(* (processed keys, retry state, dead letters) next to the operator's      *)
(* settings, and everybody replaces it as a whole: a poll reads it once,   *)
(* ingests for minutes and writes it back; requeue and PATCH read it and   *)
(* write it back in two round trips.                                       *)
(***************************************************************************)
EXTENDS Integers, Sequences, FiniteSets

CONSTANTS
  Files,         (* keys of remote files: SFTP names or HTTPS content hashes *)
  Https,         (* TRUE: the endpoint serves one document at a time         *)
  Pollers,       (* the cron cycle and POST /admin/poll requests             *)
  Editors,       (* POST /admin/requeue and PATCH /endpoints requests        *)
  MaxRetries,    (* the policy's maxRetries                                  *)
  Keep,          (* PROCESSED_KEEP                                           *)
  MaxEdits,      (* bound: operator writes                                   *)
  MaxPollFaults  (* bound: restarts, failed fetches and failed writes        *)

ASSUME FilePollerAssumption ==
  /\ Https \in BOOLEAN
  /\ Pollers \cap Editors = {}
  /\ MaxRetries \in Nat \ {0}
  /\ Keep \in Nat \ {0}
  /\ MaxPollFaults \in Nat

VARIABLES
  config,    \* file_endpoints.config
  remote,    \* keys the remote side serves
  step, snap, \* each request's step and the config it read
  batch,     \* files it fetched and has not ingested yet
  done,      \* processedNow
  ingested,  \* how often a file took effect, up to EnoughTimes
  fails,     \* failures of a file since its last requeue, up to MaxRetries
  edits, pollFaults

pollVars == <<config, remote, step, snap, batch, done, ingested, fails, edits, pollFaults>>

\* Bound: more often than the faults explain.
EnoughTimes == MaxPollFaults + 2

Requests == Pollers \cup Editors
Config == [processed : Seq(Files), retry : [Files -> 0..(MaxRetries - 1)], dead : SUBSET Files,
           settings : Nat]
NoConfig == [processed |-> <<>>, retry |-> [f \in Files |-> 0], dead |-> {}, settings |-> 0]

PollTypeOK ==
  /\ config \in Config
  /\ remote \subseteq Files
  /\ step \in [Requests -> {"idle", "read", "ingest"}]
  /\ snap \in [Requests -> Config]
  /\ batch \in [Pollers -> SUBSET Files]
  /\ done \in [Pollers -> Seq(Files)]
  /\ ingested \in [Files -> 0..EnoughTimes]
  /\ fails \in [Files -> 0..MaxRetries]
  /\ edits \in Nat /\ pollFaults \in Nat

PollInit ==
  /\ config = NoConfig
  /\ remote = {}
  /\ step = [p \in Requests |-> "idle"]
  /\ snap = [p \in Requests |-> NoConfig]
  /\ batch = [p \in Pollers |-> {}]
  /\ done = [p \in Pollers |-> <<>>]
  /\ ingested = [f \in Files |-> 0]
  /\ fails = [f \in Files |-> 0]
  /\ edits = 0 /\ pollFaults = 0

Elements(s) == {s[i] : i \in 1..Len(s)}

-----------------------------------------------------------------------------
(* The remote side: a directory gains files; a URL serves another document.*)

Publish(f) ==
  /\ f \notin remote
  /\ remote' = IF Https THEN {f} ELSE remote \cup {f}
  /\ UNCHANGED <<config, step, snap, batch, done, ingested, fails, edits, pollFaults>>

-----------------------------------------------------------------------------
(* Reading the endpoint row: pollAllEndpoints reads all rows before it     *)
(* polls the first, an admin request reads its own.                        *)

Read(p) ==
  /\ step[p] = "idle"
  /\ step' = [step EXCEPT ![p] = "read"]
  /\ snap' = [snap EXCEPT ![p] = config]
  /\ UNCHANGED <<config, remote, batch, done, ingested, fails, edits, pollFaults>>

-----------------------------------------------------------------------------
(* pollEndpoint.                                                           *)

Retrying(c) == {f \in Files : c.retry[f] > 0}

\* Mutant: dead letters are fetched again.
SkippedForgetsDead(c, waiting) == Elements(c.processed) \cup waiting

\* The keys a poll leaves alone; waiting is the part of the retry state whose
\* next_at is still ahead.
Skipped(c, waiting) == Elements(c.processed) \cup c.dead \cup waiting

Fetch(p, waiting) ==
  /\ step[p] = "read"
  /\ step' = [step EXCEPT ![p] = "ingest"]
  /\ batch' = [batch EXCEPT ![p] = remote \ Skipped(snap[p], waiting)]
  /\ UNCHANGED <<config, remote, snap, done, ingested, fails, edits, pollFaults>>

\* The fetch throws: nothing is ingested, the row is still written back.
FetchThrows(p) ==
  /\ step[p] = "read"
  /\ pollFaults < MaxPollFaults
  /\ pollFaults' = pollFaults + 1
  /\ step' = [step EXCEPT ![p] = "ingest"]
  /\ UNCHANGED <<config, remote, snap, batch, done, ingested, fails, edits>>

Upto(n, m) == IF n < m THEN n + 1 ELSE m

\* recordSuccess.
Cleared(c, f) ==
  [c EXCEPT !.retry = [@ EXCEPT ![f] = 0], !.dead = @ \ {f}]

IngestOk(p, f) ==
  /\ step[p] = "ingest" /\ f \in batch[p]
  /\ ingested' = [ingested EXCEPT ![f] = Upto(@, EnoughTimes)]
  /\ batch' = [batch EXCEPT ![p] = @ \ {f}]
  /\ done' = [done EXCEPT ![p] = Append(@, f)]
  /\ snap' = [snap EXCEPT ![p] = Cleared(@, f)]
  /\ UNCHANGED <<config, remote, step, fails, edits, pollFaults>>

\* Mutant: the limit is off by one.
FailedTooEarly(c, f) ==
  IF c.retry[f] + 2 >= MaxRetries
    THEN [c EXCEPT !.retry[f] = 0, !.dead = @ \cup {f}]
    ELSE [c EXCEPT !.retry[f] = @ + 1]

\* Mutant: no dead letters, the last backoff is repeated.
FailedNeverDead(c, f) == [c EXCEPT !.retry[f] = IF @ + 1 < MaxRetries THEN @ + 1 ELSE @]

\* recordFailure.
Failed(c, f) ==
  IF c.retry[f] + 1 >= MaxRetries
    THEN [c EXCEPT !.retry[f] = 0, !.dead = @ \cup {f}]
    ELSE [c EXCEPT !.retry[f] = @ + 1]

IngestFails(p, f) ==
  /\ step[p] = "ingest" /\ f \in batch[p]
  /\ fails' = [fails EXCEPT ![f] = Upto(@, MaxRetries)]
  /\ batch' = [batch EXCEPT ![p] = @ \ {f}]
  /\ snap' = [snap EXCEPT ![p] = Failed(@, f)]
  /\ UNCHANGED <<config, remote, step, done, ingested, edits, pollFaults>>

\* slice(-PROCESSED_KEEP).
Latest(s) == IF Len(s) <= Keep THEN s ELSE SubSeq(s, Len(s) - Keep + 1, Len(s))

\* Mutant: the files of this poll are not remembered.
RememberedNothing(p) == snap[p]

Remembered(p) == [snap[p] EXCEPT !.processed = Latest(@ \o done[p])]

Release(p) ==
  /\ step' = [step EXCEPT ![p] = "idle"]
  /\ snap' = [snap EXCEPT ![p] = NoConfig]

\* The whole config is replaced by what this poll read, with its own changes.
Persist(p) ==
  /\ step[p] = "ingest" /\ batch[p] = {}
  /\ config' = Remembered(p)
  /\ Release(p)
  /\ done' = [done EXCEPT ![p] = <<>>]
  /\ UNCHANGED <<remote, batch, ingested, fails, edits, pollFaults>>

\* The update fails; the outcome mentions it and nothing is remembered.
PersistFails(p) ==
  /\ step[p] = "ingest" /\ batch[p] = {}
  /\ pollFaults < MaxPollFaults
  /\ pollFaults' = pollFaults + 1
  /\ Release(p)
  /\ done' = [done EXCEPT ![p] = <<>>]
  /\ UNCHANGED <<config, remote, batch, ingested, fails, edits>>

-----------------------------------------------------------------------------
(* Operator requests; they hold the config they read in snap.              *)

\* POST /admin/requeue: refused unless the key has failure state.
Requeue(e, f) ==
  /\ step[e] = "read"
  /\ edits < MaxEdits
  /\ snap[e].retry[f] > 0 \/ f \in snap[e].dead
  /\ config' = Cleared(snap[e], f)
  /\ fails' = [fails EXCEPT ![f] = 0]
  /\ edits' = edits + 1
  /\ Release(e)
  /\ UNCHANGED <<remote, batch, done, ingested, pollFaults>>

\* PATCH /admin/api/endpoints/:id merges the body's settings into the config.
Patch(e) ==
  /\ step[e] = "read"
  /\ edits < MaxEdits
  /\ edits' = edits + 1
  /\ config' = [snap[e] EXCEPT !.settings = edits + 1]
  /\ Release(e)
  /\ UNCHANGED <<remote, batch, done, ingested, fails, pollFaults>>

\* 404, or the request fails.
EditEnds(e) ==
  /\ step[e] = "read"
  /\ Release(e)
  /\ UNCHANGED <<config, remote, batch, done, ingested, fails, edits, pollFaults>>

Restart ==
  /\ pollFaults < MaxPollFaults
  /\ pollFaults' = pollFaults + 1
  /\ step' = [p \in Requests |-> "idle"]
  /\ snap' = [p \in Requests |-> NoConfig]
  /\ batch' = [p \in Pollers |-> {}]
  /\ done' = [p \in Pollers |-> <<>>]
  /\ UNCHANGED <<config, remote, ingested, fails, edits>>

-----------------------------------------------------------------------------

IngestNext(p) == \E f \in Files : IngestOk(p, f) \/ IngestFails(p, f)

PollNext ==
  \/ \E f \in Files : Publish(f)
  \/ \E p \in Requests : Read(p)
  \/ \E p \in Pollers : \/ \E waiting \in SUBSET Retrying(snap[p]) : Fetch(p, waiting)
                        \/ FetchThrows(p) \/ IngestNext(p) \/ Persist(p) \/ PersistFails(p)
  \/ \E e \in Editors : Patch(e) \/ EditEnds(e) \/ \E f \in Files : Requeue(e, f)
  \/ Restart

PollSpec == PollInit /\ [][PollNext]_pollVars

\* Cron keeps polling, every await returns, and since a backoff is at most
\* maxBackoffMinutes, polls recur at which no entry is backing off.
Fairness ==
  \A p \in Pollers : /\ WF_pollVars(Read(p)) /\ WF_pollVars(IngestNext(p)) /\ WF_pollVars(Persist(p))
                     /\ WF_pollVars(\E waiting \in SUBSET Retrying(snap[p]) : Fetch(p, waiting))
                     /\ SF_pollVars(Fetch(p, {}))

FairSpec == PollSpec /\ Fairness

-----------------------------------------------------------------------------
(* Properties.                                                             *)

\* The three memories never disagree about a file: a key that is retried is
\* neither dead-lettered nor processed, and a dead letter is not processed.
\* Every writer replaces the whole column, so this holds under any overlap.
Sane(c) ==
  /\ Retrying(c) \cap c.dead = {}
  /\ Elements(c.processed) \cap (Retrying(c) \cup c.dead) = {}
  /\ Len(c.processed) <= Keep

ConfigSane == Sane(config)

\* A key is remembered as processed only if the file took effect: nothing is
\* skipped unread, whoever overwrote the column.
ProcessedTookEffect == \A f \in Elements(config.processed) : ingested[f] > 0

\* "Dead-lettered after max_retries": a dead letter has failed that often
\* since the operator last requeued it.
DeadLetterEarned == \A f \in config.dead : fails[f] = MaxRetries

\* "An unchanged document is not ingested twice", "download new files": a
\* file takes effect once, and once more for each restart or failed write that
\* loses the memory of it.  Holds for one poller with a memory that is large
\* enough for the directory.
IngestedOnce == \A f \in Files : ingested[f] <= 1 + pollFaults

\* Every file that stays available is eventually ingested or dead-lettered,
\* and stays accounted for.
FilesSettle == \A f \in Files :
  f \in remote ~> (f \notin remote \/ f \in Elements(config.processed) \cup config.dead)

\* The memory of an endpoint can be relied on: its three parts agree, and what
\* it says of files is true.
MemorySound == ConfigSane /\ ProcessedTookEffect
=============================================================================
