------------------------------ MODULE Staging ------------------------------
(***************************************************************************)
(* How one org's requests reach the hub: domain/resources.ts and           *)
(* createRequest of portal/service.ts.  A request writes its row, looks    *)
(* the connection up and enqueues a delivery, in separate round trips; an  *)
(* inventory push calls the hub first and is queued only if the call       *)
(* throws.  A client repeats a request that was answered with an error.    *)
(* The outbox is what DeliveryLedger promises of it.                       *)
(***************************************************************************)
EXTENDS Integers

CONSTANTS
  Intents,     (* what clients want done, each once                        *)
  Kind,        (* Kind[i]: the operation i is asked for with               *)
  Deliveries,  (* bound: rows of hub_deliveries                            *)
  MaxRepeats,  (* bound: requests repeated after an error                  *)
  MaxFaults    (* bound: failed database calls and restarts                *)

\* order: createOrder.  record: one write that is forwarded (upsertProduct,
\* updateOrderStatus, createClaim, updateClaim with a status or resolution the
\* hub takes).  local: updateClaim with an adjudication only.  portal:
\* createRequest.  push: pushInventory.
Kinds == {"order", "record", "local", "portal", "push"}

ASSUME StagingAssumption == Kind \in [Intents -> Kinds]

VARIABLES
  conn,      \* whether the org has an active hub connection
  rows,      \* local rows of an intent that are complete
  bare,      \* orders without lines
  entry, accepted,  \* the outbox: see DeliveryLedger
  carries,   \* the intent a delivery is for
  direct,    \* intents the hub applied in a direct call
  pc,        \* where the request for an intent is; "ok" and "error" are answers
  linked,    \* whether its connection lookup found one
  cut,       \* intents whose client cannot know what became of them: a restart
             \* left it without an answer, or an error hid that a write was done
  repeats, faults

requests == <<pc, linked, cut>>
outbox == <<entry, accepted, carries>>
bounds == <<repeats, faults>>
vars == <<conn, rows, bare, outbox, direct, requests, bounds>>

Ledger == INSTANCE DeliveryLedger

Steps == {"ready", "stage", "lines", "undo", "lookup", "call", "enqueue", "reply", "ok", "error"}
Answered == {"ok", "error"}

TypeOK ==
  /\ conn \in BOOLEAN
  /\ rows \in [Intents -> Nat] /\ bare \in [Intents -> Nat]
  /\ entry \in [Deliveries -> {"absent", "queued", "delivered", "failed", "parked"}]
  /\ accepted \subseteq Deliveries
  /\ carries \in [Deliveries -> Intents \cup {"nothing"}]
  /\ \A d \in Deliveries : entry[d] # "absent" => carries[d] \in Intents
  /\ direct \subseteq {i \in Intents : Kind[i] = "push"}
  /\ pc \in [Intents -> Steps]
  /\ linked \in [Intents -> BOOLEAN]
  /\ cut \subseteq Intents
  /\ repeats \in Nat /\ faults \in Nat

Init ==
  /\ conn \in BOOLEAN
  /\ rows = [i \in Intents |-> 0] /\ bare = [i \in Intents |-> 0]
  /\ Ledger!Init
  /\ carries = [d \in Deliveries |-> "nothing"]
  /\ direct = {}
  /\ pc = [i \in Intents |-> "ready"]
  /\ linked = [i \in Intents |-> FALSE]
  /\ cut = {}
  /\ repeats = 0 /\ faults = 0

-----------------------------------------------------------------------------
(* The route of a request.                                                 *)

Goto(i, step) == pc' = [pc EXCEPT ![i] = step] /\ UNCHANGED <<linked, cut>>
Fault == faults < MaxFaults /\ faults' = faults + 1 /\ UNCHANGED repeats

\* pushInventory asks for the connection first, everybody else writes first.
FirstStep(i) == IF Kind[i] = "push" THEN "lookup" ELSE "stage"

\* Mutant: the order is forwarded before its lines are in.
StagedEager(i) == IF Kind[i] \in {"order", "record", "portal"} THEN "lookup" ELSE "reply"

\* What follows the local write.
Staged(i) == IF Kind[i] = "order" THEN "lines"
             ELSE IF Kind[i] \in {"record", "portal"} THEN "lookup" ELSE "reply"

\* What follows the lookup for a connected org.
Forward(i) == IF Kind[i] = "push" THEN "call" ELSE "enqueue"

\* What follows it for an org without a connection: a push is applied to the
\* local products, everything else is done.
Unlinked(i) == IF Kind[i] = "push" THEN "stage" ELSE "reply"

\* Mutant: createRequest's catch everywhere.
EnqueueFailureSwallowed(i) == "reply"

\* createRequest catches a failed enqueue, the resources let it through.
EnqueueFailure(i) == IF Kind[i] = "portal" THEN "reply" ELSE "error"

-----------------------------------------------------------------------------

\* The client asks, or asks again after an error.
Request(i) ==
  /\ \/ pc[i] = "ready" /\ UNCHANGED repeats
     \/ pc[i] = "error" /\ repeats < MaxRepeats /\ repeats' = repeats + 1
  /\ pc' = [pc EXCEPT ![i] = FirstStep(i)]
  /\ linked' = [linked EXCEPT ![i] = FALSE]
  /\ UNCHANGED <<conn, rows, bare, outbox, direct, cut, faults>>

\* The input is refused, a lookup fails or the write does, without effect.
Refuse(i) ==
  /\ pc[i] = "stage"
  /\ Goto(i, "error")
  /\ UNCHANGED <<conn, rows, bare, outbox, direct, bounds>>

Stage(i) ==
  /\ pc[i] = "stage"
  /\ IF Kind[i] = "order" THEN bare' = [bare EXCEPT ![i] = @ + 1] /\ UNCHANGED rows
                          ELSE rows' = [rows EXCEPT ![i] = @ + 1] /\ UNCHANGED bare
  /\ Goto(i, Staged(i))
  /\ UNCHANGED <<conn, outbox, direct, bounds>>

\* The write takes effect and an error is returned all the same.
StageThrows(i) ==
  /\ pc[i] = "stage" /\ Fault
  /\ IF Kind[i] = "order" THEN bare' = [bare EXCEPT ![i] = @ + 1] /\ UNCHANGED rows
                          ELSE rows' = [rows EXCEPT ![i] = @ + 1] /\ UNCHANGED bare
  /\ Goto(i, "error")
  /\ UNCHANGED <<conn, outbox, direct>>

InsertLines(i) ==
  /\ pc[i] = "lines"
  /\ bare' = [bare EXCEPT ![i] = @ - 1]
  /\ rows' = [rows EXCEPT ![i] = @ + 1]
  /\ Goto(i, "lookup")
  /\ UNCHANGED <<conn, outbox, direct, bounds>>

\* The insert fails; lines that are in all the same go with the order, or stay
\* with it, as what follows says.
LinesFail(i) ==
  /\ pc[i] = "lines"
  /\ Goto(i, "undo")
  /\ UNCHANGED <<conn, rows, bare, outbox, direct, bounds>>

\* Mutant: the order is left behind.
UndoForgotten(i) ==
  /\ pc[i] = "undo"
  /\ Goto(i, "error")
  /\ UNCHANGED <<conn, rows, bare, outbox, direct, bounds>>

\* createOrder deletes the order its lines are missing from.
Undo(i) ==
  /\ pc[i] = "undo"
  /\ bare' = [bare EXCEPT ![i] = @ - 1]
  /\ Goto(i, "error")
  /\ UNCHANGED <<conn, rows, outbox, direct, bounds>>

\* The delete's result is not looked at.  (One that took effect is Undo.)
UndoFails(i) ==
  /\ pc[i] = "undo" /\ Fault
  /\ Goto(i, "error")
  /\ UNCHANGED <<conn, rows, bare, outbox, direct>>

LookUp(i) ==
  /\ pc[i] = "lookup"
  /\ linked' = [linked EXCEPT ![i] = conn]
  /\ pc' = [pc EXCEPT ![i] = IF conn THEN Forward(i) ELSE Unlinked(i)]
  /\ UNCHANGED <<conn, rows, bare, outbox, direct, cut, bounds>>

\* getHubConnection throws; createRequest does not catch that either.
LookUpThrows(i) ==
  /\ pc[i] = "lookup" /\ Fault
  /\ Goto(i, "error")
  /\ UNCHANGED <<conn, rows, bare, outbox, direct>>

\* The direct call: the hub applies the rows, or says no, and that is the
\* answer (a ResourceError is thrown on, past the queue).
CallAccepted(i) ==
  /\ pc[i] = "call"
  /\ direct' = direct \cup {i}
  /\ Goto(i, "reply")
  /\ UNCHANGED <<conn, rows, bare, outbox, bounds>>

CallRefused(i) ==
  /\ pc[i] = "call"
  /\ Goto(i, "error")
  /\ UNCHANGED <<conn, rows, bare, outbox, direct, bounds>>

\* Mutant: the push is answered as queued and is not.
CallThrowsUnqueued(i) ==
  /\ pc[i] = "call"
  /\ direct' \in {direct, direct \cup {i}}
  /\ Goto(i, "reply")
  /\ UNCHANGED <<conn, rows, bare, outbox, bounds>>

\* The call throws, a timeout possibly after the hub has applied it.
CallThrows(i) ==
  /\ pc[i] = "call"
  /\ direct' \in {direct, direct \cup {i}}
  /\ Goto(i, "enqueue")
  /\ UNCHANGED <<conn, rows, bare, outbox, bounds>>

Forwarded(i) == \E d \in Deliveries : Ledger!Stage(d) /\ carries' = [carries EXCEPT ![d] = i]

Enqueue(i) ==
  /\ pc[i] = "enqueue"
  /\ Forwarded(i)
  /\ Goto(i, "reply")
  /\ UNCHANGED <<conn, rows, bare, direct, bounds>>

\* enqueueDelivery's own look-up of the connection throws, or its insert does.
EnqueueThrows(i) ==
  /\ pc[i] = "enqueue" /\ Fault
  /\ Goto(i, EnqueueFailure(i))
  /\ UNCHANGED <<conn, rows, bare, outbox, direct>>

\* The insert returns an error though the delivery is in.
EnqueueUnheard(i) ==
  /\ pc[i] = "enqueue" /\ Fault
  /\ Forwarded(i)
  /\ pc' = [pc EXCEPT ![i] = EnqueueFailure(i)]
  /\ cut' = IF EnqueueFailure(i) = "error" THEN cut \cup {i} ELSE cut
  /\ UNCHANGED <<conn, rows, bare, direct, linked>>

Reply(i) ==
  /\ pc[i] = "reply"
  /\ Goto(i, "ok")
  /\ UNCHANGED <<conn, rows, bare, outbox, direct, bounds>>

Step(i) ==
  \/ Request(i) \/ Refuse(i) \/ Stage(i) \/ StageThrows(i)
  \/ InsertLines(i) \/ LinesFail(i) \/ Undo(i) \/ UndoFails(i)
  \/ LookUp(i) \/ LookUpThrows(i) \/ CallAccepted(i) \/ CallRefused(i) \/ CallThrows(i)
  \/ Enqueue(i) \/ EnqueueThrows(i) \/ EnqueueUnheard(i) \/ Reply(i)

-----------------------------------------------------------------------------
(* Around the requests.                                                    *)

\* An operator connects or disconnects the org.
SetConnection ==
  /\ conn' = ~conn
  /\ UNCHANGED <<rows, bare, outbox, direct, requests, bounds>>

\* The outbox works on what is queued.  An operator's replay only queues again
\* what is no longer absent, which no property below tells apart.
Outbox ==
  /\ \E d \in Deliveries : \/ Ledger!Apply(d)
                           \/ \E v \in {"delivered", "failed", "parked"} : Ledger!Settle(d, v)
  /\ UNCHANGED <<conn, rows, bare, carries, direct, requests, bounds>>

InFlight == {i \in Intents : pc[i] \notin Answered \cup {"ready"}}

\* The process exits: open requests break off without an answer, which the
\* client takes for an error; the hub may still apply what it was sent.
Crash ==
  /\ Fault /\ InFlight # {}
  /\ cut' = cut \cup InFlight
  /\ pc' = [i \in Intents |-> IF i \in InFlight THEN "error" ELSE pc[i]]
  /\ \E S \in SUBSET {i \in Intents : pc[i] = "call"} : direct' = direct \cup S
  /\ UNCHANGED <<conn, rows, bare, outbox, linked>>

Next == (\E i \in Intents : Step(i)) \/ SetConnection \/ Outbox \/ Crash

Spec == Init /\ [][Next]_vars

-----------------------------------------------------------------------------
(* Properties.                                                             *)

CarriedBy(i) == {d \in Deliveries : entry[d] # "absent" /\ carries[d] = i}

\* What was answered ok reaches the hub or is in the outbox, where a sweep or
\* an operator finds it, if the org was connected when it was asked.  The
\* portal's requests are the exception: their failed enqueue is swallowed.
NothingAcknowledgedIsLost == \A i \in Intents :
  pc[i] = "ok" /\ linked[i] /\ (Kind[i] = "portal" => faults = 0)
    => i \in direct \/ CarriedBy(i) # {}

\* An error is an error: no delivery of a request that was answered with one is
\* queued, to change the hub behind the client's back, unless the client could
\* not know (cut).  It is not said that the hub has heard nothing: a direct push
\* that timed out may have been applied before its enqueue failed.
ErrorSendsNothing == \A i \in Intents \ cut : pc[i] = "error" => CarriedBy(i) = {}

\* However often the client repeats itself, the outbox holds one delivery of
\* what it wants, unless the client could not know that one is there (cut).
ForwardedOnce == \A i \in Intents \ cut : \A d, e \in CarriedBy(i) : d = e

\* The hub, the system of record, never hears of a row the gateway does not
\* have in full: createOrder forwards after the lines are in, and its undo
\* never takes back what was forwarded.
ForwardedIsStaged == \A i \in Intents :
  Kind[i] # "push" /\ CarriedBy(i) # {} => rows[i] > 0

\* A repeated request leaves a second local row only where a fault explains it.
StagedOnce == \A i \in Intents : rows[i] + bare[i] <= 1 + faults

\* What a client was answered is true of the outbox: ok, the hub has the row or
\* the outbox will bring it; an error, no delivery of it is queued.
AnswersTrue == NothingAcknowledgedIsLost /\ ErrorSendsNothing

\* A client that repeats itself has one delivery in the outbox, and only of what
\* is stored in full.
ForwardedInFull == ForwardedOnce /\ ForwardedIsStaged
=============================================================================
