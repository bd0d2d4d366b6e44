--------------------------- MODULE StagingProofs ---------------------------
(***************************************************************************)
(* The invariants of Staging, for any number of intents of any kind, any   *)
(* number of deliveries and every bound.                                   *)
(***************************************************************************)
EXTENDS Staging, TLAPS

Verdicts == {"delivered", "failed", "parked"}

\* What is known of an intent from where its request is.
Route(i) ==
  /\ pc[i] \in {"lines", "undo"} => Kind[i] = "order" /\ bare[i] > 0
  /\ pc[i] = "call" => Kind[i] = "push"
  /\ pc[i] \in {"lookup", "enqueue"} /\ Kind[i] # "push" => rows[i] > 0
  /\ pc[i] \in {"ready", "stage", "lines", "undo", "lookup"} => ~linked[i]

\* Only the last step before the answer enqueues, or an error that hides it.
Unsent(i) == i \notin cut /\ pc[i] \notin {"reply", "ok"} => CarriedBy(i) = {}

\* Where the request for an intent has written nothing that is still there.
Unwritten(i) == \/ pc[i] \in {"ready", "stage", "error"}
                \/ Kind[i] = "push" /\ pc[i] \in {"lookup", "call", "enqueue"}

\* Every row but the present request's is explained by a fault.
Explained(i) == rows[i] + bare[i] <= IF Unwritten(i) THEN faults ELSE 1 + faults

\* NothingAcknowledgedIsLost from the moment the answer is settled.
Secured(i) ==
  pc[i] \in {"reply", "ok"} /\ linked[i] /\ (Kind[i] = "portal" => faults = 0)
    => i \in direct \/ CarriedBy(i) # {}

IInv ==
  /\ TypeOK
  /\ \A i \in Intents : Route(i)
  /\ \A i \in Intents : Unsent(i)
  /\ \A i \in Intents : Explained(i)
  /\ \A i \in Intents : Secured(i)
  /\ ForwardedOnce
  /\ ForwardedIsStaged

-----------------------------------------------------------------------------
(* What a step does to the outbox.                                         *)

\* Every action of a request that forwards nothing leaves the outbox alone.
LEMMA QuietStep ==
  ASSUME NEW i \in Intents, Step(i), ~Forwarded(i)
  PROVE  UNCHANGED outbox
BY DEF Step, Request, Refuse, Stage, StageThrows, InsertLines, LinesFail, Undo, UndoFails, LookUp, LookUpThrows, CallAccepted, CallRefused, CallThrows, Enqueue, EnqueueThrows, EnqueueUnheard, Reply, outbox

\* Only a request at its enqueue forwards, and is past it then: it is answered
\* ok, or its client cannot know.
LEMMA ForwardingStep ==
  ASSUME TypeOK, NEW i \in Intents, Step(i), Forwarded(i)
  PROVE  pc[i] = "enqueue" /\ pc'[i] # "enqueue" /\ (pc'[i] = "reply" \/ i \in cut')
<1>1. ~UNCHANGED entry
  BY DEF TypeOK, Forwarded, Ledger!Stage
<1>2. Enqueue(i) \/ EnqueueUnheard(i)
  BY <1>1 DEF Step, Request, Refuse, Stage, StageThrows, InsertLines, LinesFail, Undo, UndoFails, LookUp, LookUpThrows, CallAccepted, CallRefused, CallThrows, EnqueueThrows, Reply, outbox
<1> QED BY <1>2 DEF Enqueue, EnqueueUnheard, EnqueueFailure, Goto, TypeOK

\* The outbox never forgets a delivery nor moves it to another intent.
LEMMA OutboxStep ==
  ASSUME TypeOK, Outbox
  PROVE  /\ entry' \in [Deliveries -> {"absent", "queued", "delivered", "failed", "parked"}]
         /\ accepted' \subseteq Deliveries
         /\ \A d \in Deliveries : entry[d] = "absent" <=> entry'[d] = "absent"
<1>1. ASSUME NEW d \in Deliveries, Ledger!Apply(d)
      PROVE  /\ entry' = entry
             /\ accepted' \subseteq Deliveries
  BY <1>1 DEF TypeOK, Ledger!Apply
<1>2. ASSUME NEW d \in Deliveries, NEW v \in Verdicts, Ledger!Settle(d, v)
      PROVE  /\ entry' \in [Deliveries -> {"absent", "queued", "delivered", "failed", "parked"}]
             /\ accepted' = accepted
             /\ \A e \in Deliveries : entry[e] = "absent" <=> entry'[e] = "absent"
  BY <1>2 DEF TypeOK, Verdicts, Ledger!Settle
<1>3. PICK d \in Deliveries : Ledger!Apply(d) \/ \E v \in Verdicts : Ledger!Settle(d, v)
  BY DEF Outbox, Verdicts
<1>4. CASE Ledger!Apply(d)
  BY <1>1, <1>4 DEF TypeOK
<1>5. CASE \E v \in Verdicts : Ledger!Settle(d, v)
  BY <1>2, <1>5 DEF TypeOK
<1> QED BY <1>3, <1>4, <1>5

\* Forwarding adds one delivery to its intent and none to another.
LEMMA ForwardedStep ==
  ASSUME TypeOK, NEW i \in Intents, Forwarded(i)
  PROVE  \E d \in Deliveries :
           /\ entry[d] = "absent"
           /\ entry' = [entry EXCEPT ![d] = "queued"]
           /\ carries' = [carries EXCEPT ![d] = i]
           /\ accepted' = accepted
BY DEF TypeOK, Forwarded, Ledger!Stage

\* A step that leaves the outbox alone forwards nothing.
LEMMA IdleStep ==
  ASSUME TypeOK, NEW i \in Intents, UNCHANGED <<entry, carries>>
  PROVE  CarriedBy(i)' = CarriedBy(i) /\ ~Forwarded(i)
<1>1. ASSUME Forwarded(i) PROVE FALSE
  <2>1. PICK d \in Deliveries : entry[d] = "absent" /\ entry' = [entry EXCEPT ![d] = "queued"]
    BY <1>1, ForwardedStep
  <2> QED BY <2>1 DEF TypeOK
<1> QED BY <1>1 DEF CarriedBy

\* One request at a time forwards.
LEMMA OneForwarded ==
  ASSUME TypeOK, NEW i \in Intents, NEW j \in Intents, Forwarded(i), Forwarded(j)
  PROVE  i = j
<1>1. PICK d \in Deliveries : /\ entry[d] = "absent" /\ entry' = [entry EXCEPT ![d] = "queued"]
                              /\ carries' = [carries EXCEPT ![d] = i]
  BY ForwardedStep
<1>2. PICK e \in Deliveries : /\ entry[e] = "absent" /\ entry' = [entry EXCEPT ![e] = "queued"]
                              /\ carries' = [carries EXCEPT ![e] = j]
  BY ForwardedStep
<1>3. d = e
  BY <1>1, <1>2 DEF TypeOK
<1> QED BY <1>1, <1>2, <1>3 DEF TypeOK

\* What an intent has in the outbox stays there, and only a request of it that is
\* at its enqueue adds to it.
LEMMA CarriedStep ==
  ASSUME TypeOK, [Next]_vars, NEW i \in Intents
  PROVE  /\ ~Forwarded(i) => CarriedBy(i)' = CarriedBy(i)
         /\ Forwarded(i) => /\ \E d \in Deliveries : CarriedBy(i)' = CarriedBy(i) \cup {d}
                            /\ Step(i) /\ pc[i] = "enqueue" /\ pc'[i] # "enqueue"
<1>1. ASSUME NEW j \in Intents, Step(j), Forwarded(j)
      PROVE  \E d \in Deliveries : CarriedBy(i)' = IF i = j THEN CarriedBy(i) \cup {d} ELSE CarriedBy(i)
  <2>1. PICK d \in Deliveries :
           /\ entry[d] = "absent"
           /\ entry' = [entry EXCEPT ![d] = "queued"]
           /\ carries' = [carries EXCEPT ![d] = j]
    BY <1>1, ForwardedStep
  <2>2. CASE i = j
    BY <2>1, <2>2 DEF CarriedBy, TypeOK
  <2>3. CASE i # j
    BY <2>1, <2>3 DEF CarriedBy, TypeOK
  <2> QED BY <2>2, <2>3
<1>2. ASSUME NEW j \in Intents, Step(j), Forwarded(j)
      PROVE  /\ i # j => ~Forwarded(i)
             /\ i = j => Step(i) /\ pc[i] = "enqueue" /\ pc'[i] # "enqueue"
  BY <1>2, OneForwarded, ForwardingStep
<1>3. CASE \E j \in Intents : Step(j) /\ ~Forwarded(j)
  <2>1. UNCHANGED <<entry, carries>>
    BY <1>3, QuietStep DEF outbox
  <2> QED BY <2>1, IdleStep
<1>4. CASE SetConnection \/ Crash \/ UNCHANGED vars
  <2>1. UNCHANGED <<entry, carries>>
    BY <1>4 DEF SetConnection, Crash, vars, outbox
  <2> QED BY <2>1, IdleStep
<1>5. CASE Outbox
  <2>1. carries' = carries
    BY <1>5 DEF Outbox
  <2>2. CarriedBy(i)' = CarriedBy(i)
    BY <1>5, <2>1, OutboxStep DEF CarriedBy
  <2>3. ~Forwarded(i)
    <3>1. ASSUME Forwarded(i) PROVE FALSE
      <4>1. PICK d \in Deliveries : entry[d] = "absent" /\ entry' = [entry EXCEPT ![d] = "queued"]
        BY <3>1, ForwardedStep
      <4> QED BY <1>5, <4>1, OutboxStep DEF TypeOK
    <3> QED BY <3>1
  <2> QED BY <2>2, <2>3
<1> QED BY <1>1, <1>2, <1>3, <1>4, <1>5 DEF Next

-----------------------------------------------------------------------------
(* The invariant holds initially and every step keeps it.                  *)

LEMMA InitIInv == Init => IInv
<1> SUFFICES ASSUME Init PROVE IInv
  OBVIOUS
<1>1. TypeOK
  BY DEF Init, TypeOK, Ledger!Init, Steps
<1>2. \A i \in Intents : CarriedBy(i) = {}
  BY DEF Init, CarriedBy, Ledger!Init
<1>3. \A i \in Intents : Route(i) /\ Secured(i)
  BY DEF Init, Route, Secured
<1>4. \A i \in Intents : Explained(i)
  <2> TAKE i \in Intents
  <2>1. rows[i] = 0 /\ bare[i] = 0 /\ faults = 0 /\ Unwritten(i)
    BY DEF Init, Unwritten
  <2> QED BY <2>1 DEF Explained
<1> QED BY <1>1, <1>2, <1>3, <1>4 DEF IInv, Unsent, ForwardedOnce, ForwardedIsStaged

\* Where each action of a request may take it.
LEMMA StepTypes ==
  ASSUME TypeOK, NEW i \in Intents, Route(i), Step(i)
  PROVE  TypeOK'
<1> USE StagingAssumption DEF TypeOK, Kinds, Steps, Goto, Fault, outbox, bounds
<1>1. CASE Request(i)
  BY <1>1 DEF Request, FirstStep
<1>2. CASE Refuse(i) \/ LinesFail(i) \/ UndoFails(i) \/ CallRefused(i) \/ Reply(i) \/ LookUpThrows(i)
  BY <1>2 DEF Refuse, LinesFail, UndoFails, CallRefused, Reply, LookUpThrows
<1>3. CASE Stage(i) \/ StageThrows(i)
  BY <1>3 DEF Stage, StageThrows, Staged
<1>4. CASE InsertLines(i) \/ Undo(i)
  <2>1. bare[i] - 1 \in Nat
    BY <1>4 DEF InsertLines, Undo, Route
  <2> QED BY <1>4, <2>1 DEF InsertLines, Undo
<1>5. CASE LookUp(i)
  BY <1>5 DEF LookUp, Forward, Unlinked
<1>6. CASE CallAccepted(i) \/ CallThrows(i)
  BY <1>6 DEF CallAccepted, CallThrows, Route
<1>7. CASE Enqueue(i)
  BY <1>7 DEF Enqueue, Forwarded, Ledger!Stage
<1>8. CASE EnqueueThrows(i)
  BY <1>8 DEF EnqueueThrows, EnqueueFailure
<1>9. CASE EnqueueUnheard(i)
  <2>1. UNCHANGED <<conn, rows, bare, direct, linked, repeats>> /\ faults' = faults + 1
        /\ pc' \in [Intents -> Steps] /\ cut' \subseteq Intents
    BY <1>9 DEF EnqueueUnheard, EnqueueFailure
  <2>2. PICK d \in Deliveries : Ledger!Stage(d) /\ carries' = [carries EXCEPT ![d] = i]
    BY <1>9 DEF EnqueueUnheard, Forwarded
  <2> QED BY <2>1, <2>2 DEF Ledger!Stage
<1> QED BY <1>1, <1>2, <1>3, <1>4, <1>5, <1>6, <1>7, <1>8, <1>9 DEF Step

\* A restart is one more fault and an error for whoever waited.
LEMMA CrashStep ==
  ASSUME TypeOK, \A i \in Intents : Route(i), Crash
  PROVE  /\ TypeOK'
         /\ rows' = rows /\ bare' = bare /\ linked' = linked
         /\ faults' = faults + 1
         /\ direct \subseteq direct'
         /\ cut \subseteq cut'
         /\ \A i \in Intents : \/ pc'[i] = pc[i] /\ pc[i] \in {"ready", "ok", "error"}
                               \/ pc'[i] = "error" /\ i \in cut'
<1>1. direct' \subseteq {i \in Intents : Kind[i] = "push"} /\ direct \subseteq direct'
  BY DEF Crash, Route, TypeOK
<1>2. \A i \in Intents : \/ pc'[i] = pc[i] /\ pc[i] \in {"ready", "ok", "error"}
                         \/ pc'[i] = "error" /\ i \in cut'
  BY DEF Crash, InFlight, Answered, TypeOK
<1>3. pc' \in [Intents -> Steps] /\ cut' \subseteq Intents /\ cut \subseteq cut'
  BY DEF Crash, InFlight, TypeOK, Steps
<1>4. /\ faults' = faults + 1 /\ faults' \in Nat
      /\ rows' = rows /\ bare' = bare /\ linked' = linked
      /\ UNCHANGED <<conn, entry, accepted, carries, repeats>>
  BY DEF Crash, Fault, outbox, TypeOK
<1>5. TypeOK'
  BY <1>1, <1>3, <1>4 DEF TypeOK
<1> QED BY <1>1, <1>2, <1>3, <1>4, <1>5

LEMMA NextTypes ==
  ASSUME TypeOK, \A i \in Intents : Route(i), [Next]_vars
  PROVE  TypeOK'
<1>1. CASE \E i \in Intents : Step(i)
  BY <1>1, StepTypes
<1>2. CASE SetConnection
  BY <1>2 DEF SetConnection, TypeOK, outbox, requests, bounds
<1>3. CASE Outbox
  <2>1. UNCHANGED <<conn, rows, bare, carries, direct, pc, linked, cut, repeats, faults>>
    BY <1>3 DEF Outbox, requests, bounds
  <2> QED BY <1>3, <2>1, OutboxStep DEF TypeOK
<1>4. CASE Crash
  BY <1>4, CrashStep
<1>5. CASE UNCHANGED vars
  BY <1>5 DEF vars, TypeOK, outbox, requests, bounds
<1> QED BY <1>1, <1>2, <1>3, <1>4, <1>5 DEF Next

\* An action of a request moves that request only.
LEMMA StepFrame ==
  ASSUME TypeOK, NEW i \in Intents, Step(i)
  PROVE  /\ \A j \in Intents \ {i} : /\ pc'[j] = pc[j] /\ linked'[j] = linked[j]
                                     /\ rows'[j] = rows[j] /\ bare'[j] = bare[j]
         /\ faults' \in {faults, faults + 1}
         /\ cut \subseteq cut' /\ cut' \subseteq cut \cup {i}
         /\ direct \subseteq direct'
         /\ rows'[i] >= rows[i]
<1> USE DEF TypeOK, Goto, Fault, bounds
<1>1. CASE Request(i)
  BY <1>1 DEF Request
<1>2. CASE Stage(i) \/ StageThrows(i) \/ InsertLines(i)
  BY <1>2 DEF Stage, StageThrows, InsertLines
<1>3. CASE Undo(i)
  BY <1>3 DEF Undo
<1>4. CASE LookUp(i)
  BY <1>4 DEF LookUp
<1>5. CASE \/ Refuse(i) \/ LinesFail(i) \/ UndoFails(i) \/ CallRefused(i) \/ Reply(i)
           \/ LookUpThrows(i) \/ Enqueue(i) \/ EnqueueThrows(i) \/ EnqueueUnheard(i)
  BY <1>5 DEF Refuse, LinesFail, UndoFails, CallRefused, Reply, LookUpThrows, Enqueue, EnqueueThrows, EnqueueUnheard
<1>6. CASE CallAccepted(i) \/ CallThrows(i)
  BY <1>6 DEF CallAccepted, CallThrows
<1> QED BY <1>1, <1>2, <1>3, <1>4, <1>5, <1>6 DEF Step

LEMMA StepRoute ==
  ASSUME TypeOK, NEW i \in Intents, Route(i), Step(i)
  PROVE  Route(i)'
<1> USE StagingAssumption DEF TypeOK, Kinds, Goto, Fault, bounds, Route
<1>1. CASE Request(i)
  BY <1>1 DEF Request, FirstStep
<1>2. CASE Refuse(i) \/ LinesFail(i) \/ UndoFails(i) \/ CallRefused(i) \/ Reply(i) \/ LookUpThrows(i)
  BY <1>2 DEF Refuse, LinesFail, UndoFails, CallRefused, Reply, LookUpThrows
<1>3. CASE Stage(i) \/ StageThrows(i)
  BY <1>3 DEF Stage, StageThrows, Staged
<1>4. CASE InsertLines(i) \/ Undo(i)
  BY <1>4 DEF InsertLines, Undo
<1>5. CASE LookUp(i)
  BY <1>5 DEF LookUp, Forward, Unlinked
<1>6. CASE CallAccepted(i) \/ CallThrows(i)
  BY <1>6 DEF CallAccepted, CallThrows
<1>7. CASE Enqueue(i)
  BY <1>7 DEF Enqueue
<1>8. CASE EnqueueThrows(i) \/ EnqueueUnheard(i)
  BY <1>8 DEF EnqueueThrows, EnqueueUnheard, EnqueueFailure
<1> QED BY <1>1, <1>2, <1>3, <1>4, <1>5, <1>6, <1>7, <1>8 DEF Step

LEMMA StepExplained ==
  ASSUME TypeOK, NEW i \in Intents, Route(i), Explained(i), Step(i)
  PROVE  Explained(i)'
<1> USE StagingAssumption DEF TypeOK, Kinds, Goto, Fault, bounds, Route, Explained, Unwritten
<1>1. CASE Request(i)
  BY <1>1 DEF Request, FirstStep
<1>2. CASE Refuse(i) \/ LinesFail(i) \/ UndoFails(i) \/ CallRefused(i) \/ Reply(i) \/ LookUpThrows(i)
  BY <1>2 DEF Refuse, LinesFail, UndoFails, CallRefused, Reply, LookUpThrows
<1>3. CASE Stage(i) \/ StageThrows(i)
  BY <1>3 DEF Stage, StageThrows, Staged
<1>4. CASE InsertLines(i) \/ Undo(i)
  BY <1>4 DEF InsertLines, Undo
<1>5. CASE LookUp(i)
  BY <1>5 DEF LookUp, Forward, Unlinked
<1>6. CASE CallAccepted(i) \/ CallThrows(i)
  BY <1>6 DEF CallAccepted, CallThrows
<1>7. CASE Enqueue(i)
  BY <1>7 DEF Enqueue
<1>8. CASE EnqueueThrows(i) \/ EnqueueUnheard(i)
  BY <1>8 DEF EnqueueThrows, EnqueueUnheard, EnqueueFailure
<1> QED BY <1>1, <1>2, <1>3, <1>4, <1>5, <1>6, <1>7, <1>8 DEF Step

\* What a step that is no request's does to the requests.
LEMMA EnvironmentStep ==
  ASSUME TypeOK, \A i \in Intents : Route(i), SetConnection \/ Outbox \/ Crash \/ UNCHANGED vars
  PROVE  /\ rows' = rows /\ bare' = bare /\ linked' = linked
         /\ faults' \in {faults, faults + 1}
         /\ direct \subseteq direct'
         /\ cut \subseteq cut'
         /\ \A i \in Intents : \/ pc'[i] = pc[i]
                               \/ pc'[i] = "error" /\ i \in cut' /\ faults' = faults + 1
<1>1. CASE SetConnection \/ Outbox \/ UNCHANGED vars
  BY <1>1 DEF SetConnection, Outbox, vars, requests, bounds
<1>2. CASE Crash
  BY <1>2, CrashStep
<1> QED BY <1>1, <1>2

LEMMA NextRoute ==
  ASSUME TypeOK, \A i \in Intents : Route(i), [Next]_vars
  PROVE  \A i \in Intents : Route(i)'
<1>1. CASE \E i \in Intents : Step(i)
  <2>1. PICK i \in Intents : Step(i)
    BY <1>1
  <2>2. ASSUME NEW j \in Intents, j # i PROVE Route(j)'
    BY <2>1, <2>2, StepFrame DEF Route
  <2> QED BY <2>1, <2>2, StepRoute
<1>2. CASE SetConnection \/ Outbox \/ Crash \/ UNCHANGED vars
  BY <1>2, EnvironmentStep DEF Route
<1> QED BY <1>1, <1>2 DEF Next

LEMMA NextExplained ==
  ASSUME TypeOK, \A i \in Intents : Route(i) /\ Explained(i), [Next]_vars
  PROVE  \A i \in Intents : Explained(i)'
<1>1. CASE \E i \in Intents : Step(i)
  <2>1. PICK i \in Intents : Step(i)
    BY <1>1
  <2>2. ASSUME NEW j \in Intents, j # i PROVE Explained(j)'
    <3>1. rows'[j] = rows[j] /\ bare'[j] = bare[j] /\ pc'[j] = pc[j] /\ faults' >= faults /\ faults' \in Nat
      BY <2>1, <2>2, StepFrame DEF TypeOK
    <3> QED BY <3>1 DEF Explained, Unwritten, TypeOK
  <2> QED BY <2>1, <2>2, StepExplained
<1>2. CASE SetConnection \/ Outbox \/ Crash \/ UNCHANGED vars
  <2> TAKE i \in Intents
  <2>1. rows'[i] = rows[i] /\ bare'[i] = bare[i] /\ faults' >= faults /\ faults' \in Nat
    BY <1>2, EnvironmentStep DEF TypeOK
  <2>2. pc'[i] = pc[i] \/ (pc'[i] = "error" /\ faults' = faults + 1)
    BY <1>2, EnvironmentStep
  <2> QED BY <2>1, <2>2 DEF Explained, Unwritten, TypeOK
<1> QED BY <1>1, <1>2 DEF Next

\* How a request comes to be answered.
LEMMA StepAnswer ==
  ASSUME TypeOK, NEW i \in Intents, Route(i), Step(i)
  PROVE  /\ pc[i] \in {"reply", "ok"} => pc'[i] = "ok" /\ linked'[i] = linked[i]
         /\ pc'[i] \in {"reply", "ok"} /\ linked'[i] /\ ~Forwarded(i) =>
              \/ pc[i] = "reply"
              \/ i \in direct'
              \/ (Kind[i] = "portal" /\ faults' > 0)
<1> USE StagingAssumption DEF TypeOK, Kinds, Goto, Fault, bounds, Route
<1>1. CASE Request(i)
  BY <1>1 DEF Request, FirstStep
<1>2. CASE Refuse(i) \/ LinesFail(i) \/ UndoFails(i) \/ CallRefused(i) \/ Reply(i) \/ LookUpThrows(i)
  BY <1>2 DEF Refuse, LinesFail, UndoFails, CallRefused, Reply, LookUpThrows
<1>3. CASE Stage(i) \/ StageThrows(i)
  BY <1>3 DEF Stage, StageThrows, Staged
<1>4. CASE InsertLines(i) \/ Undo(i)
  BY <1>4 DEF InsertLines, Undo
<1>5. CASE LookUp(i)
  BY <1>5 DEF LookUp, Forward, Unlinked
<1>6. CASE CallAccepted(i) \/ CallThrows(i)
  BY <1>6 DEF CallAccepted, CallThrows
<1>7. CASE Enqueue(i)
  BY <1>7 DEF Enqueue
<1>8. CASE EnqueueThrows(i) \/ EnqueueUnheard(i)
  BY <1>8 DEF EnqueueThrows, EnqueueUnheard, EnqueueFailure
<1> QED BY <1>1, <1>2, <1>3, <1>4, <1>5, <1>6, <1>7, <1>8 DEF Step

LEMMA NextUnsent ==
  ASSUME IInv, [Next]_vars
  PROVE  \A i \in Intents : Unsent(i)'
<1> USE DEF IInv
<1>1. CASE \E i \in Intents : Step(i)
  <2>1. PICK i \in Intents : Step(i)
    BY <1>1
  <2>2. ASSUME NEW j \in Intents, j # i PROVE Unsent(j)'
    <3>1. pc'[j] = pc[j] /\ cut \subseteq cut'
      BY <2>1, <2>2, StepFrame
    <3> QED BY <3>1, CarriedStep DEF Unsent
  <2>3. Unsent(i)'
    <3>1. cut \subseteq cut'
      BY <2>1, StepFrame
    <3>2. CASE Forwarded(i)
      BY <2>1, <3>2, ForwardingStep DEF Unsent
    <3>3. CASE ~Forwarded(i)
      BY <2>1, <3>1, <3>3, StepAnswer, CarriedStep DEF Unsent
    <3> QED BY <3>2, <3>3
  <2> QED BY <2>2, <2>3
<1>2. CASE SetConnection \/ Outbox \/ Crash \/ UNCHANGED vars
  <2> TAKE i \in Intents
  <2>1. cut \subseteq cut' /\ (pc'[i] = pc[i] \/ (pc'[i] = "error" /\ i \in cut'))
    BY <1>2, EnvironmentStep
  <2>2. CASE i \in cut'
    BY <2>2 DEF Unsent
  <2>3. CASE i \notin cut'
    BY <2>1, <2>3, CarriedStep DEF Unsent
  <2> QED BY <2>2, <2>3
<1> QED BY <1>1, <1>2 DEF Next

LEMMA NextSecured ==
  ASSUME IInv, [Next]_vars
  PROVE  \A i \in Intents : Secured(i)'
<1> USE DEF IInv
<1>1. \A i \in Intents : (CarriedBy(i) # {} \/ Forwarded(i)) => CarriedBy(i)' # {}
  BY CarriedStep
<1>2. faults \in Nat /\ faults' \in Nat
  BY NextTypes DEF TypeOK
<1>3. CASE \E i \in Intents : Step(i)
  <2>1. PICK i \in Intents : Step(i)
    BY <1>3
  <2>2. direct \subseteq direct' /\ (faults' = 0 => faults = 0)
    BY <1>2, <2>1, StepFrame
  <2>3. ASSUME NEW j \in Intents, j # i PROVE Secured(j)'
    <3>1. pc'[j] = pc[j] /\ linked'[j] = linked[j]
      BY <2>1, <2>3, StepFrame
    <3> QED BY <1>1, <2>2, <3>1 DEF Secured
  <2>4. Secured(i)'
    <3>1. CASE pc[i] = "reply"
      BY <1>1, <2>1, <2>2, <3>1, StepAnswer DEF Secured
    <3>2. CASE pc[i] # "reply" /\ ~Forwarded(i)
      BY <1>2, <2>1, <3>2, StepAnswer DEF Secured
    <3>3. CASE Forwarded(i)
      BY <1>1, <3>3 DEF Secured
    <3> QED BY <3>1, <3>2, <3>3
  <2> QED BY <2>3, <2>4
<1>4. CASE SetConnection \/ Outbox \/ Crash \/ UNCHANGED vars
  <2> TAKE i \in Intents
  <2>1. linked'[i] = linked[i] /\ direct \subseteq direct' /\ (faults' = 0 => faults = 0)
    BY <1>2, <1>4, EnvironmentStep
  <2>2. pc'[i] = pc[i] \/ pc'[i] = "error"
    BY <1>4, EnvironmentStep
  <2> QED BY <1>1, <2>1, <2>2 DEF Secured
<1> QED BY <1>3, <1>4 DEF Next

LEMMA NextOnce ==
  ASSUME IInv, [Next]_vars
  PROVE  ForwardedOnce'
<1> USE DEF IInv
<1> SUFFICES ASSUME NEW i \in Intents, i \notin cut'
             PROVE  \A d, e \in CarriedBy(i)' : d = e
  BY DEF ForwardedOnce
<1>1. i \notin cut
  <2>1. cut \subseteq cut'
    BY StepFrame, EnvironmentStep DEF Next
  <2> QED BY <2>1
<1>2. CASE Forwarded(i)
  <2>1. CarriedBy(i) = {}
    BY <1>1, <1>2, CarriedStep DEF Unsent
  <2> QED BY <1>2, <2>1, CarriedStep
<1>3. CASE ~Forwarded(i)
  BY <1>1, <1>3, CarriedStep DEF ForwardedOnce
<1> QED BY <1>2, <1>3

LEMMA NextStaged ==
  ASSUME IInv, [Next]_vars
  PROVE  ForwardedIsStaged'
<1> USE DEF IInv
<1> SUFFICES ASSUME NEW i \in Intents, Kind[i] # "push", CarriedBy(i)' # {}
             PROVE  rows'[i] > 0
  BY DEF ForwardedIsStaged
<1>1. rows[i] > 0
  <2>1. CASE Forwarded(i)
    BY <2>1, CarriedStep DEF Route
  <2>2. CASE ~Forwarded(i)
    BY <2>2, CarriedStep DEF ForwardedIsStaged
  <2> QED BY <2>1, <2>2
<1>2. rows'[i] >= rows[i] /\ rows[i] \in Nat /\ rows'[i] \in Nat
  <2>1. rows[i] \in Nat /\ rows'[i] \in Nat
    BY NextTypes DEF TypeOK
  <2>2. rows'[i] >= rows[i]
    BY <2>1, StepFrame, EnvironmentStep DEF Next
  <2> QED BY <2>1, <2>2
<1> QED BY <1>1, <1>2

LEMMA NextIInv == IInv /\ [Next]_vars => IInv'
BY NextTypes, NextRoute, NextUnsent, NextExplained, NextSecured, NextOnce, NextStaged DEF IInv

LEMMA SpecIInv == Spec => []IInv
<1>1. Init => IInv
  BY InitIInv
<1>2. IInv /\ [Next]_vars => IInv'
  BY NextIInv
<1> QED BY <1>1, <1>2, PTL DEF Spec

-----------------------------------------------------------------------------

\* Requests, rows and deliveries keep their types: a write never takes back a
\* row that is not there, and only a push reaches the hub directly.
THEOREM StagingType == Spec => []TypeOK
<1>1. IInv => TypeOK
  BY DEF IInv
<1> QED BY <1>1, SpecIInv, PTL

\* A request of a connected org that was answered ok reached the hub or the
\* outbox, whatever failed on the way; createRequest only while nothing fails.
THEOREM StagingAcknowledged == Spec => []NothingAcknowledgedIsLost
<1>1. IInv => NothingAcknowledgedIsLost
  BY DEF IInv, NothingAcknowledgedIsLost, Secured
<1> QED BY <1>1, SpecIInv, PTL

\* An error means the outbox holds nothing of the request, as every route
\* enqueues last: unless a restart or a write that was done in spite of its
\* error has left the client in the dark.
THEOREM StagingError == Spec => []ErrorSendsNothing
<1>1. IInv => ErrorSendsNothing
  BY DEF IInv, ErrorSendsNothing, Unsent
<1> QED BY <1>1, SpecIInv, PTL

\* However often a client repeats itself after an error, one delivery is
\* enqueued, unless it was left in the dark.
THEOREM StagingForwardedOnce == Spec => []ForwardedOnce
<1>1. IInv => ForwardedOnce
  BY DEF IInv
<1> QED BY <1>1, SpecIInv, PTL

\* A delivery is enqueued after the local row is complete, lines included.
THEOREM StagingForwarded == Spec => []ForwardedIsStaged
<1>1. IInv => ForwardedIsStaged
  BY DEF IInv
<1> QED BY <1>1, SpecIInv, PTL

\* Every local row beyond the first is explained by a fault of its own.
THEOREM StagingStagedOnce == Spec => []StagedOnce
<1>1. IInv => StagedOnce
  <2> SUFFICES ASSUME IInv, NEW i \in Intents PROVE rows[i] + bare[i] <= 1 + faults
    BY DEF StagedOnce
  <2>1. rows[i] \in Nat /\ bare[i] \in Nat /\ faults \in Nat /\ Explained(i)
    BY DEF IInv, TypeOK
  <2> QED BY <2>1 DEF Explained
<1> QED BY <1>1, SpecIInv, PTL

\* What a client was answered is true of the outbox: ok is on its way or there,
\* an error is not queued.
THEOREM StagingAnswers == Spec => []AnswersTrue
  BY StagingAcknowledged, StagingError, PTL DEF AnswersTrue

\* What is queued is queued once, and of rows that are stored in full.
THEOREM StagingInFull == Spec => []ForwardedInFull
  BY StagingForwardedOnce, StagingForwarded, PTL DEF ForwardedInFull
=============================================================================
