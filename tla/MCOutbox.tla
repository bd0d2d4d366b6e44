------------------------------ MODULE MCOutbox ------------------------------
(***************************************************************************)
(* Outbox for model checking.  A cast, drawn in the initial state, says    *)
(* which processors there are: cron cycles only, or a cycle and an admin   *)
(* request that process the same rows at once.                             *)
(***************************************************************************)
EXTENDS Outbox

CONSTANTS Casts   \* the sets of processors considered
VARIABLE cast

mcvars == <<vars, cast>>

MCInit == Init /\ cast \in Casts

CronOnly == cast \subseteq Cycles

\* Only the cast processes rows.  Bound: with an admin there is one row and no fault.
Plays ==
  /\ \A w \in Workers \ cast : pc'[w] = "idle"
  /\ CronOnly \/ (faults' = 0 /\ \A d \in Rows \ {1} : status'[d] = "absent")
  /\ UNCHANGED cast

MCNext == Next /\ Plays

MCFairness ==
  /\ WF_mcvars((\E c \in Cycles : BeginCycle(c)) /\ Plays)
  /\ \A c \in Cycles : WF_mcvars(PollingDone(c) /\ Plays)
  /\ \A w \in Workers : WF_mcvars(Step(w) /\ Plays)
  /\ \A d \in Rows : WF_mcvars(Elapse(d) /\ Plays)

MCSpec == MCInit /\ [][MCNext]_mcvars /\ MCFairness

\* "With bounded retry" holds where only cron processes the outbox: two
\* processors each read the count before either writes it (BoundedRetry).
CronBoundsRetry == CronOnly => BoundedRetry

\* Driven by cron only, the outbox implements the ledger (LedgerSpec): a row
\* is settled once and reopened only by an operator.
CronKeepsLedger == Ledger!Init /\ [][CronOnly => Ledger!Next]_<<status, accepted>>
=============================================================================
