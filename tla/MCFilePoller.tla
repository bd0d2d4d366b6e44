---------------------------- MODULE MCFilePoller ----------------------------
(***************************************************************************)
(* FilePoller for model checking.  One run covers several deployments of   *)
(* the endpoint: a cast, drawn in the initial state, says which of the     *)
(* requests occur in the behaviour, so that what overlapping requests keep *)
(* and what only a poller that is alone achieves are told apart.           *)
(***************************************************************************)
EXTENDS FilePoller

CONSTANTS Casts, Alone, Shared  \* sets of requests; the lone poller; files that overlapping requests see
VARIABLE cast

mcvars == <<pollVars, cast>>

MCInit == PollInit /\ cast \in Casts

\* Only the cast makes requests.  Bounds: the lone poller meets faults and as
\* many files as there are; overlapping requests the shared files and no fault.
Plays == /\ \A r \in Requests \ cast : step'[r] = "idle"
         /\ cast # Alone => pollFaults' = 0 /\ remote' \subseteq Shared
         /\ UNCHANGED cast

MCNext == PollNext /\ Plays

MCFairness ==
  \A p \in Pollers :
    /\ WF_mcvars(Read(p) /\ Plays) /\ WF_mcvars(IngestNext(p) /\ Plays)
    /\ WF_mcvars(Persist(p) /\ Plays)
    /\ WF_mcvars((\E waiting \in SUBSET Retrying(snap[p]) : Fetch(p, waiting)) /\ Plays)
    /\ SF_mcvars(Fetch(p, {}) /\ Plays)

MCSpec == MCInit /\ [][MCNext]_mcvars /\ MCFairness

\* IngestedOnce, DeadLetterEarned and FilesSettle where one poller has the
\* endpoint to itself, as under cron: runPollCycle polls in sequence.
AloneIngestsOnce == cast = Alone => IngestedOnce
AloneEarnsDeadLetters == cast = Alone => DeadLetterEarned
AloneFilesSettle == cast = Alone => FilesSettle
=============================================================================
