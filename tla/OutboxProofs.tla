---------------------------- MODULE OutboxProofs ----------------------------
(***************************************************************************)
(* Theorems about the outbox for every number of rows, orgs, cron cycles   *)
(* and operator requests, every batch limit and every retry limit.         *)
(***************************************************************************)
EXTENDS MCOutbox, TLAPS

\* The variables' types are preserved by every step of outbox.ts, index.ts
\* and their surroundings; in particular attempts never pass maxRetries only
\* because a selected row's attempts are below it, hence SeenBelow.
SeenBelow ==
  /\ \A d \in Rows : status[d] = "pending" => attempts[d] < MaxRetries
  /\ \A d \in Rows : status[d] = "absent" => attempts[d] = 0
  /\ \A w \in Workers, d \in Rows : seen[w][d] < MaxRetries

TypeInv == TypeOK /\ SeenBelow

LEMMA FreshTypes ==
  /\ NoLookups \in [Orgs -> Lookups]
  /\ NothingSeen \in [Rows -> 0..MaxRetries]
  /\ \A d \in Rows : NothingSeen[d] < MaxRetries
  BY OutboxAssumption DEF NoLookups, NothingSeen, Lookups

LEMMA AfterType == ASSUME NEW w PROVE After(w) \in {"finish", "touch", "stamp", "next"}
  BY DEF After

\* What Proceed leaves behind, whichever way attemptOne goes on.
LEMMA ProceedType ==
  ASSUME TypeOK, NEW w \in Workers, NEW d \in Rows, Proceed(w, d)
  PROVE  /\ pc' \in [Workers -> Steps]
         /\ todo' \in [Workers -> SUBSET Rows]
         /\ answer' \in [Workers -> Answers]
         /\ UNCHANGED <<polling, seen, cache>>
<1>1. /\ pc \in [Workers -> Steps] /\ todo \in [Workers -> SUBSET Rows]
      /\ answer \in [Workers -> Answers]
  BY DEF TypeOK
<1>2. After(w) \in Steps /\ "next" \in Steps /\ "none" \in Answers
  BY AfterType DEF Steps, Answers
<1>3. pc' \in [Workers -> Steps] /\ UNCHANGED <<polling, seen, cache>>
  BY <1>1, <1>2 DEF Proceed
<1>4. todo' \in [Workers -> SUBSET Rows]
  <2>1. todo[w] \ {d} \in SUBSET Rows
    BY <1>1
  <2> QED BY <1>1, <2>1 DEF Proceed
<1>5. answer' \in [Workers -> Answers]
  BY <1>1, <1>2 DEF Proceed
<1> QED BY <1>3, <1>4, <1>5

LEMMA InitTypeInv == Init => TypeInv
<1> SUFFICES ASSUME Init PROVE TypeInv
  OBVIOUS
<1> USE OutboxAssumption, FreshTypes DEF Init
<1>1. TypeOK
  <2>1. /\ content \in [Rows -> [org : Orgs, resource : Resources] \cup {<<>>}]
        /\ status \in [Rows -> Statuses]
        /\ attempts \in [Rows -> 0..MaxRetries]
        /\ due \in [Rows -> BOOLEAN]
        /\ calls \in [Rows -> Nat]
    BY DEF Statuses
  <2>2. /\ pc \in [Workers -> Steps]
        /\ todo \in [Workers -> SUBSET Rows]
        /\ seen \in [Workers -> [Rows -> 0..MaxRetries]]
        /\ cache \in [Workers -> [Orgs -> Lookups]]
        /\ answer \in [Workers -> Answers]
    BY DEF Steps, Answers
  <2> QED BY <2>1, <2>2 DEF TypeOK
<1>2. SeenBelow
  BY DEF SeenBelow
<1> QED BY <1>1, <1>2 DEF TypeInv

LEMMA TypeStep == TypeInv /\ [Next]_vars => TypeInv'
<1> SUFFICES ASSUME TypeInv, [Next]_vars PROVE TypeInv'
  OBVIOUS
<1> USE OutboxAssumption DEF TypeInv, TypeOK, SeenBelow, Statuses, Steps, Answers, Lookups,
     tables, links, local, hub, bounds
<1>1. ASSUME NEW d \in Rows, NEW o \in Orgs, NEW r \in Resources, Enqueue(d, o, r) PROVE TypeInv'
  BY <1>1 DEF Enqueue
<1>2. ASSUME NEW o \in Orgs, NEW v \in {"active", "inactive"}, SetConnection(o, v) PROVE TypeInv'
  BY <1>2 DEF SetConnection
<1>3. ASSUME NEW d \in Rows, Elapse(d) PROVE TypeInv'
  BY <1>3 DEF Elapse
<1>4. ASSUME NEW r \in Resources, HubGrows(r) PROVE TypeInv'
  BY <1>4 DEF HubGrows
<1>5. ASSUME NEW c \in Cycles, BeginCycle(c) PROVE TypeInv'
  BY <1>5 DEF BeginCycle, Workers
<1>6. ASSUME NEW c \in Cycles, PollingDone(c) PROVE TypeInv'
  BY <1>6 DEF PollingDone, Workers
<1>7. ASSUME NEW a \in Admins, AdminProcess(a) PROVE TypeInv'
  BY <1>7 DEF AdminProcess, Workers
<1>8. ASSUME NEW a \in Admins, NEW d \in Rows, RequeueDelivery(a, d) PROVE TypeInv'
  BY <1>8 DEF RequeueDelivery, Workers, Requeueable
<1>9. CASE RequeueUnsupported
  <2>1. /\ status' = [d \in Rows |-> IF d \in Replayable THEN "pending" ELSE status[d]]
        /\ attempts' = [d \in Rows |-> IF d \in Replayable THEN 0 ELSE attempts[d]]
        /\ calls' = [d \in Rows |-> IF d \in Replayable THEN 0 ELSE calls[d]]
        /\ requeues' = requeues + 1
        /\ UNCHANGED <<content, links, stamped, polling, pc, local, hub, converted, faults>>
    BY <1>9 DEF RequeueUnsupported
  <2>2. due' \in [Rows -> BOOLEAN]
    BY <1>9, Zenon DEF RequeueUnsupported
  <2>3. /\ status' \in [Rows -> Statuses]
        /\ attempts' \in [Rows -> 0..MaxRetries]
        /\ calls' \in [Rows -> Nat]
    BY <2>1
  <2>4. SeenBelow'
    BY <2>1
  <2> QED BY <2>1, <2>2, <2>3, <2>4
<1>10. ASSUME NEW w \in Workers, SelectDue(w) PROVE TypeInv'
  <2>1. DueBatch \subseteq Rows /\ \A d \in DueBatch : status[d] = "pending"
    BY DEF DueBatch, Due
  <2>2. QED BY <1>10, <2>1 DEF SelectDue
<1>11. ASSUME NEW w \in Workers, EndBatch(w) PROVE TypeInv'
  BY <1>11, FreshTypes DEF EndBatch, Return, FlagAfter
<1>12. ASSUME NEW w \in Workers, NEW d \in Rows, LookUp(w, d) PROVE TypeInv'
  <2>1. /\ cache' = [cache EXCEPT ![w][content[d].org] = conn[content[d].org]]
        /\ UNCHANGED <<content, status, attempts, due, conn, health, stamped, polling, pc, todo,
                       seen, answer, hubKnown, accepted, refused, converted, calls, faults, requeues>>
    BY <1>12 DEF LookUp
  <2> HIDE DEF TypeInv, TypeOK, SeenBelow
  <2>2. /\ cache \in [Workers -> [Orgs -> Lookups]]
        /\ conn \in [Orgs -> Lookups]
    BY DEF TypeInv, TypeOK
  <2>3. cache' \in [Workers -> [Orgs -> Lookups]]
    <3>1. CASE content[d].org \in Orgs
      BY <2>1, <2>2, <3>1
    <3>2. CASE content[d].org \notin Orgs
      BY <2>1, <2>2, <3>2
    <3> QED BY <3>1, <3>2
  <2>4. TypeOK'
    BY <2>1, <2>3 DEF TypeInv, TypeOK
  <2>5. SeenBelow'
    BY <2>1 DEF TypeInv, SeenBelow
  <2> QED BY <2>4, <2>5 DEF TypeInv
<1>13. ASSUME NEW w \in Workers, NEW d \in Rows, Skip(w, d) PROVE TypeInv'
  BY <1>13 DEF Skip
<1>14. ASSUME NEW w \in Workers, NEW d \in Rows, Call(w, d) PROVE TypeInv'
  BY <1>14 DEF Call
<1>15. ASSUME NEW w \in Workers, NEW d \in Rows, NEW a \in {"ok", "record"}, HubAccepts(w, d, a)
       PROVE TypeInv'
  BY <1>15 DEF HubAccepts
<1>16. ASSUME NEW w \in Workers, NEW d \in Rows, HubRejects(w, d) PROVE TypeInv'
  BY <1>16 DEF HubRejects
<1>17. ASSUME NEW w \in Workers, NEW d \in Rows, HubRefuses(w, d) PROVE TypeInv'
  BY <1>17 DEF HubRefuses
<1>18. ASSUME NEW w \in Workers, NEW d \in Rows, CallThrows(w, d) PROVE TypeInv'
  BY <1>18 DEF CallThrows
<1>19. ASSUME NEW w \in Workers, NEW d \in Rows, Touch(w, d) PROVE TypeInv'
  BY <1>19, ProceedType DEF Touch
<1>20. ASSUME NEW w \in Workers, NEW d \in Rows, Finish(w, d) PROVE TypeInv'
  <2>1. Outcome(w, d) \in Statuses /\ Tried(w, d) \in 1..MaxRetries
    BY DEF Outcome, Tried
  <2>2. Outcome(w, d) = "pending" => Tried(w, d) < MaxRetries
    BY DEF Outcome, Tried
  <2>3. Outcome(w, d) # "absent"
    BY DEF Outcome
  <2>4. /\ status' \in [Rows -> Statuses]
        /\ attempts' \in [Rows -> 0..MaxRetries]
    BY <1>20, <2>1 DEF Finish
  <2>6. due' \in [Rows -> BOOLEAN]
    BY <1>20, Zenon DEF Finish
  <2>5. SeenBelow'
    BY <1>20, <2>1, <2>2, <2>3, ProceedType DEF Finish
  <2>7. /\ pc' \in [Workers -> Steps]
        /\ todo' \in [Workers -> SUBSET Rows]
        /\ answer' \in [Workers -> Answers]
        /\ UNCHANGED <<polling, seen, cache>>
    BY <1>20, ProceedType DEF Finish
  <2>8. UNCHANGED <<content, conn, health, stamped, hubKnown, accepted, refused, converted, calls, faults, requeues>>
    BY <1>20 DEF Finish
  <2> HIDE DEF SeenBelow, Statuses, Steps, Answers, Lookups
  <2> QED BY <2>4, <2>5, <2>6, <2>7, <2>8
<1>21. ASSUME NEW w \in Workers, NEW d \in Rows, Stamp(w, d) PROVE TypeInv'
  BY <1>21, ProceedType DEF Stamp
<1>22. ASSUME NEW w \in Workers, Throw(w) PROVE TypeInv'
  <2>1. /\ Return(w)
        /\ faults' = faults + 1
        /\ UNCHANGED <<tables, links, stamped, hub, converted, calls, requeues>>
    BY <1>22 DEF Throw
  <2>2. polling' \in BOOLEAN
    BY <2>1, Zenon DEF Return, FlagAfter
  <2>3. SeenBelow'
    BY <2>1, FreshTypes DEF Return
  <2> QED BY <2>1, <2>2, <2>3, FreshTypes DEF Return
<1>23. ASSUME NEW w \in Workers, NEW d \in Rows, WriteLost(w, d) PROVE TypeInv'
  BY <1>23, ProceedType DEF WriteLost
<1>24. CASE Crash
  <2>1. InFlight \subseteq Rows
    BY DEF InFlight
  <2>2. accepted' \subseteq Rows
    BY <1>24, <2>1 DEF Crash
  <2>3. /\ pc' \in [Workers -> Steps]
        /\ todo' \in [Workers -> SUBSET Rows]
        /\ seen' \in [Workers -> [Rows -> 0..MaxRetries]]
        /\ cache' \in [Workers -> [Orgs -> Lookups]]
        /\ answer' \in [Workers -> Answers]
    BY <1>24, FreshTypes DEF Crash
  <2>4. SeenBelow'
    BY <1>24, FreshTypes DEF Crash
  <2>5. polling' \in BOOLEAN
    BY <1>24, Zenon DEF Crash
  <2>6. /\ faults' = faults + 1
        /\ UNCHANGED <<tables, links, stamped, hubKnown, refused, converted, calls, requeues>>
    BY <1>24 DEF Crash
  <2> HIDE DEF SeenBelow
  <2> QED BY <2>2, <2>3, <2>4, <2>5, <2>6
<1>25. CASE UNCHANGED vars
  BY <1>25 DEF vars
<1>26. ASSUME NEW w \in Workers, NEW d \in Rows, Attempt(w, d) PROVE TypeInv'
  BY <1>26, <1>12, <1>13, <1>14, <1>15, <1>16, <1>17, <1>18, <1>19, <1>20, <1>21
     DEF Attempt
<1>27. ASSUME NEW w \in Workers, Step(w) PROVE TypeInv'
  BY <1>27, <1>10, <1>11, <1>26 DEF Step
<1> HIDE DEF TypeInv
<1> QED
  BY <1>1, <1>2, <1>3, <1>4, <1>5, <1>6, <1>7, <1>8, <1>9, <1>22, <1>23, <1>24, <1>25, <1>27
     DEF Next

\* Type correctness of the outbox.
THEOREM OutboxType == Spec => []TypeOK
  BY InitTypeInv, TypeStep, PTL DEF Spec, TypeInv

-----------------------------------------------------------------------------
(* A row's status is earned.  The processor that writes it knows the hub's *)
(* answer, so the invariant follows the answer from the call to the write. *)

AnswerSteps == {"touch", "finish", "stamp"}

AnswerIsTrue ==
  \A w \in Workers :
    /\ pc[w] \notin AnswerSteps => answer[w] = "none"
    /\ pc[w] = "stamp" => answer[w] = "record"
    /\ \A d \in todo[w] : Current(w, d) =>
         /\ Ok(w) => d \in accepted
         /\ answer[w] = "record" => d \in converted
         /\ answer[w] = "unknown" => d \in refused

EarnedInv == StatusEarned /\ StampedIsConverted /\ converted \subseteq accepted /\ AnswerIsTrue

\* A step that keeps the answers and forgets nothing of what the hub said
\* keeps them true.
LEMMA AnswersKept ==
  ASSUME TypeOK, AnswerIsTrue, UNCHANGED <<todo, answer>>,
         accepted \subseteq accepted', refused \subseteq refused', converted \subseteq converted',
         \A w \in Workers : pc'[w] \notin AnswerSteps => answer[w] = "none",
         \A w \in Workers : pc'[w] = "stamp" => answer[w] = "record"
  PROVE  AnswerIsTrue'
  BY DEF AnswerIsTrue, Current, Ok, TypeOK

\* No processor moves, or one moves between steps at which it has no answer.
QuietMove ==
  \/ UNCHANGED pc
  \/ \E w \in Workers, s \in Steps \ AnswerSteps :
       pc[w] \notin AnswerSteps /\ pc' = [pc EXCEPT ![w] = s]

LEMMA QuietSteps == {"idle", "polling", "select", "next", "call"} = Steps \ AnswerSteps
  BY DEF Steps, AnswerSteps

LEMMA QuietMoveKeepsAnswers ==
  ASSUME TypeOK, AnswerIsTrue, QuietMove,
         UNCHANGED <<todo, answer, accepted, refused, converted>>
  PROVE  AnswerIsTrue'
<1>1. \A w \in Workers : pc'[w] \notin AnswerSteps => answer[w] = "none"
  BY DEF TypeOK, AnswerIsTrue, QuietMove
<1>3. \A w \in Workers : pc'[w] = "stamp" => answer[w] = "record"
  BY DEF TypeOK, AnswerIsTrue, QuietMove, AnswerSteps
<1>2. /\ accepted \subseteq accepted' /\ refused \subseteq refused' /\ converted \subseteq converted'
      /\ UNCHANGED <<todo, answer>>
  OBVIOUS
<1> QED BY <1>1, <1>2, <1>3, AnswersKept

\* The answer to the call for d, once it is in.
LEMMA AnswerArrives ==
  ASSUME TypeOK, AnswerIsTrue, NEW w \in Workers, NEW d \in Rows, Current(w, d),
         NEW a \in Answers, answer' = [answer EXCEPT ![w] = a],
         NEW s \in {"finish", "touch"}, pc' = [pc EXCEPT ![w] = s],
         UNCHANGED todo,
         accepted \subseteq accepted', refused \subseteq refused', converted \subseteq converted',
         a \in {"ok", "record"} => d \in accepted',
         a = "record" => d \in converted',
         a = "unknown" => d \in refused'
  PROVE  AnswerIsTrue'
<1>1. \A e \in todo[w] : Current(w, e) => e = d
  BY DEF Current, TypeOK, Rows
<1> QED BY <1>1 DEF AnswerIsTrue, Current, Ok, TypeOK, AnswerSteps

\* The processor goes on to the next write or the next row.
LEMMA AnswerProceeds ==
  ASSUME TypeOK, AnswerIsTrue, NEW w \in Workers, NEW d \in Rows, Proceed(w, d),
         UNCHANGED <<accepted, refused, converted>>
  PROVE  AnswerIsTrue'
<1>1. CASE After(w) = "next"
  BY <1>1 DEF AnswerIsTrue, Proceed, TypeOK, Current, Ok, AnswerSteps
<1>2. CASE After(w) # "next"
  <2>1. /\ UNCHANGED <<todo, answer>>
        /\ pc' = [pc EXCEPT ![w] = After(w)]
    BY <1>2 DEF Proceed
  <2>2. After(w) = "stamp" => answer[w] = "record"
    BY DEF After
  <2>3. After(w) \in AnswerSteps
    BY <1>2, AfterType DEF AnswerSteps
  <2> QED BY <2>1, <2>2, <2>3, AnswersKept DEF AnswerIsTrue, TypeOK
<1> QED BY <1>1, <1>2

LEMMA InitEarned == Init => EarnedInv
  BY OutboxAssumption DEF Init, EarnedInv, StatusEarned, StampedIsConverted, AnswerIsTrue,
     AnswerSteps

\* Steps that leave the hub's word and every processor's answer alone.
LEMMA EarnedKept ==
  ASSUME TypeOK, EarnedInv, StatusEarned', AnswerIsTrue',
         UNCHANGED <<accepted, converted, stamped>>
  PROVE  EarnedInv'
  BY DEF EarnedInv, StampedIsConverted

LEMMA EarnedStep == TypeInv /\ EarnedInv /\ [Next]_vars => EarnedInv'
<1> SUFFICES ASSUME TypeInv, EarnedInv, [Next]_vars PROVE EarnedInv'
  OBVIOUS
<1> USE OutboxAssumption DEF tables, links, local, hub, bounds
<1>0. /\ TypeOK /\ SeenBelow
      /\ StatusEarned /\ StampedIsConverted /\ converted \subseteq accepted /\ AnswerIsTrue
  BY DEF TypeInv, EarnedInv
<1>1. ASSUME NEW d \in Rows, NEW o \in Orgs, NEW r \in Resources, Enqueue(d, o, r)
      PROVE EarnedInv'
  <2>1. StatusEarned'
    BY <1>0, <1>1 DEF Enqueue, StatusEarned, SeenBelow, TypeOK
  <2> QED BY <2>1, <1>0, <1>1, QuietMoveKeepsAnswers, EarnedKept DEF QuietMove, Enqueue
<1>2. ASSUME QuietMove,
             UNCHANGED <<status, attempts, stamped, todo, answer, accepted, refused, converted>>
      PROVE EarnedInv'
  <2>1. StatusEarned'
    BY <1>0, <1>2 DEF StatusEarned, TypeOK
  <2> QED BY <2>1, <1>0, <1>2, QuietMoveKeepsAnswers, EarnedKept
<1>3. ASSUME NEW o \in Orgs, NEW v \in {"active", "inactive"}, SetConnection(o, v)
      PROVE EarnedInv'
  BY <1>3, <1>2 DEF QuietMove, SetConnection
<1>4. ASSUME NEW d \in Rows, Elapse(d) PROVE EarnedInv'
  BY <1>4, <1>2 DEF QuietMove, Elapse
<1>5. ASSUME NEW r \in Resources, HubGrows(r) PROVE EarnedInv'
  BY <1>5, <1>2 DEF QuietMove, HubGrows
<1>6. ASSUME NEW c \in Cycles, BeginCycle(c) PROVE EarnedInv'
  BY <1>6, <1>2, QuietSteps DEF QuietMove, BeginCycle, Workers, AnswerSteps
<1>7. ASSUME NEW c \in Cycles, PollingDone(c) PROVE EarnedInv'
  BY <1>7, <1>2, QuietSteps DEF QuietMove, PollingDone, Workers, AnswerSteps
<1>8. ASSUME NEW c \in Admins, AdminProcess(c) PROVE EarnedInv'
  BY <1>8, <1>2, QuietSteps DEF QuietMove, AdminProcess, Workers, AnswerSteps
<1>9. ASSUME NEW a \in Admins, NEW d \in Rows, RequeueDelivery(a, d) PROVE EarnedInv'
  <2>1. StatusEarned'
    BY <1>0, <1>9 DEF RequeueDelivery, StatusEarned, TypeOK
  <2>2. AnswerIsTrue'
    BY <1>9, <1>0, QuietSteps, QuietMoveKeepsAnswers DEF QuietMove, RequeueDelivery, Workers, AnswerSteps
  <2> QED BY <2>1, <2>2, <1>0, <1>9, EarnedKept DEF RequeueDelivery
<1>10. CASE RequeueUnsupported
  <2>1. /\ status' = [d \in Rows |-> IF d \in Replayable THEN "pending" ELSE status[d]]
        /\ attempts' = [d \in Rows |-> IF d \in Replayable THEN 0 ELSE attempts[d]]
        /\ UNCHANGED <<stamped, pc, local, hub, converted>>
    BY <1>10 DEF RequeueUnsupported
  <2>2. StatusEarned'
    BY <1>0, <2>1 DEF StatusEarned, TypeOK
  <2> QED BY <2>1, <2>2, <1>0, QuietMoveKeepsAnswers, EarnedKept DEF QuietMove
<1>11. ASSUME NEW w \in Workers, SelectDue(w) PROVE EarnedInv'
  <2>1. StatusEarned'
    BY <1>0, <1>11 DEF SelectDue, StatusEarned, TypeOK
  <2>2. AnswerIsTrue'
    BY <1>11, <1>0 DEF SelectDue, AnswerIsTrue, TypeOK, Current, Ok, AnswerSteps
  <2> QED BY <2>1, <2>2, <1>0, <1>11, EarnedKept DEF SelectDue
<1>12. ASSUME NEW w \in Workers, Return(w),
              UNCHANGED <<status, attempts, stamped, accepted, refused, converted>>
       PROVE EarnedInv'
  <2>1. StatusEarned'
    BY <1>0, <1>12 DEF StatusEarned, TypeOK
  <2>2. AnswerIsTrue'
    BY <1>12, <1>0 DEF Return, AnswerIsTrue, TypeOK, Current, Ok, AnswerSteps
  <2> QED BY <2>1, <2>2, <1>0, <1>12, EarnedKept
<1>13. ASSUME NEW w \in Workers, NEW d \in Rows, LookUp(w, d) PROVE EarnedInv'
  BY <1>13, <1>2 DEF QuietMove, LookUp
<1>14. ASSUME NEW w \in Workers, NEW d \in Rows, Skip(w, d) PROVE EarnedInv'
  <2>1. StatusEarned'
    BY <1>0, <1>14 DEF Skip, StatusEarned, TypeOK
  <2>2. AnswerIsTrue'
    BY <1>14, <1>0 DEF Skip, AnswerIsTrue, TypeOK, Current, Ok, AnswerSteps
  <2> QED BY <2>1, <2>2, <1>0, <1>14, EarnedKept DEF Skip
<1>15. ASSUME NEW w \in Workers, NEW d \in Rows, Call(w, d) PROVE EarnedInv'
  BY <1>15, <1>2, QuietSteps DEF QuietMove, Call, AnswerSteps
<1>16. ASSUME NEW w \in Workers, NEW d \in Rows, NEW a \in {"ok", "record"}, HubAccepts(w, d, a)
       PROVE EarnedInv'
  <2>1. StatusEarned'
    BY <1>0, <1>16 DEF HubAccepts, StatusEarned, TypeOK
  <2>2. AnswerIsTrue'
    BY <1>16, <1>0, AnswerArrives DEF HubAccepts, Answers
  <2>3. StampedIsConverted' /\ (converted \subseteq accepted)'
    BY <1>16, <1>0 DEF HubAccepts, StampedIsConverted
  <2> QED BY <2>1, <2>2, <2>3 DEF EarnedInv
<1>17. ASSUME NEW w \in Workers, NEW d \in Rows, HubRejects(w, d) PROVE EarnedInv'
  <2>1. StatusEarned'
    BY <1>0, <1>17 DEF HubRejects, StatusEarned, TypeOK
  <2>2. AnswerIsTrue'
    BY <1>17, <1>0, AnswerArrives DEF HubRejects, Answers
  <2> QED BY <2>1, <2>2, <1>0, <1>17, EarnedKept DEF HubRejects
<1>18. ASSUME NEW w \in Workers, NEW d \in Rows, HubRefuses(w, d) PROVE EarnedInv'
  <2>1. StatusEarned'
    BY <1>0, <1>18 DEF HubRefuses, StatusEarned, TypeOK
  <2>2. AnswerIsTrue'
    BY <1>18, <1>0, AnswerArrives DEF HubRefuses, Answers
  <2> QED BY <2>1, <2>2, <1>0, <1>18, EarnedKept DEF HubRefuses
<1>19. ASSUME NEW w \in Workers, NEW d \in Rows, CallThrows(w, d) PROVE EarnedInv'
  <2>0. accepted \subseteq accepted'
    BY <1>19 DEF CallThrows
  <2>1. StatusEarned'
    BY <1>0, <1>19, <2>0 DEF CallThrows, StatusEarned, TypeOK
  <2>2. AnswerIsTrue'
    BY <1>19, <1>0, <2>0, AnswerArrives DEF CallThrows, Answers
  <2> QED BY <2>0, <2>1, <2>2, <1>0, <1>19 DEF CallThrows, EarnedInv, StampedIsConverted
<1>20. ASSUME NEW w \in Workers, NEW d \in Rows, Proceed(w, d),
              UNCHANGED <<status, attempts, stamped, accepted, refused, converted>>
       PROVE EarnedInv'
  <2>1. StatusEarned'
    BY <1>0, <1>20 DEF StatusEarned, TypeOK
  <2> QED BY <2>1, <1>0, <1>20, AnswerProceeds, EarnedKept
<1>21. ASSUME NEW w \in Workers, NEW d \in Rows, Finish(w, d) PROVE EarnedInv'
  <2>1. /\ Ok(w) => d \in accepted
        /\ answer[w] = "unknown" => d \in refused
    BY <1>0, <1>21 DEF AnswerIsTrue, Finish, Current
  <2>2. /\ Outcome(w, d) = "delivered" => d \in accepted
        /\ Outcome(w, d) = "unsupported" => d \in refused
        /\ Outcome(w, d) = "failed" => Tried(w, d) = MaxRetries
        /\ Outcome(w, d) = "pending" => Tried(w, d) < MaxRetries
    BY <1>0, <2>1 DEF Outcome, Tried, SeenBelow, TypeOK
  <2>3. StatusEarned'
    BY <1>0, <1>21, <2>2 DEF Finish, StatusEarned, TypeOK
  <2> QED BY <2>3, <1>0, <1>21, AnswerProceeds, EarnedKept DEF Finish
<1>22. ASSUME NEW w \in Workers, NEW d \in Rows, Stamp(w, d) PROVE EarnedInv'
  <2>1. d \in converted /\ d \in accepted
    BY <1>0, <1>22 DEF AnswerIsTrue, Stamp, Current, Ok
  <2>2. StatusEarned'
    BY <1>0, <1>22 DEF Stamp, StatusEarned, TypeOK
  <2>3. AnswerIsTrue'
    BY <1>0, <1>22, AnswerProceeds DEF Stamp
  <2> QED BY <1>0, <1>22, <2>1, <2>2, <2>3 DEF Stamp, EarnedInv, StampedIsConverted
<1>23. CASE Crash
  <2>1. accepted \subseteq accepted'
    BY <1>23 DEF Crash
  <2>2. StatusEarned'
    BY <1>0, <1>23, <2>1 DEF Crash, StatusEarned, TypeOK
  <2>3. AnswerIsTrue'
    BY <1>23 DEF Crash, AnswerIsTrue, Current, Ok, AnswerSteps
  <2> QED BY <1>0, <1>23, <2>1, <2>2, <2>3 DEF Crash, EarnedInv, StampedIsConverted
<1>24. CASE UNCHANGED vars
  BY <1>24, <1>2 DEF QuietMove, vars
<1>25. ASSUME NEW w \in Workers, EndBatch(w) PROVE EarnedInv'
  BY <1>25, <1>12 DEF EndBatch
<1>26. ASSUME NEW w \in Workers, Throw(w) PROVE EarnedInv'
  BY <1>26, <1>12 DEF Throw
<1>27. ASSUME NEW w \in Workers, NEW d \in Rows, WriteLost(w, d) PROVE EarnedInv'
  BY <1>27, <1>20 DEF WriteLost
<1>28. ASSUME NEW w \in Workers, NEW d \in Rows, Touch(w, d) PROVE EarnedInv'
  BY <1>28, <1>20 DEF Touch
<1>29. ASSUME NEW w \in Workers, NEW d \in Rows, Attempt(w, d) PROVE EarnedInv'
  BY <1>29, <1>13, <1>14, <1>15, <1>16, <1>17, <1>18, <1>19, <1>21, <1>22, <1>28
     DEF Attempt
<1>30. ASSUME NEW w \in Workers, Step(w) PROVE EarnedInv'
  BY <1>30, <1>11, <1>25, <1>29 DEF Step
<1> QED
  BY <1>1, <1>3, <1>4, <1>5, <1>6, <1>7, <1>8, <1>9, <1>10, <1>23, <1>24, <1>26, <1>27, <1>30
     DEF Next

\* A row says delivered only if the hub has applied it, unsupported only if
\* the hub has refused its resource, failed only if its attempts reached
\* maxRetries: for any number of overlapping processors, lost writes and
\* restarts.
THEOREM OutboxStatusEarned == Spec => []StatusEarned
<1>1. TypeInv /\ EarnedInv /\ [Next]_vars => (TypeInv /\ EarnedInv)'
  BY TypeStep, EarnedStep
<1>2. TypeInv /\ EarnedInv => StatusEarned
  BY DEF EarnedInv
<1> QED BY InitTypeInv, InitEarned, <1>1, <1>2, PTL DEF Spec

\* A portal request is stamped only with a record the hub reported.
THEOREM OutboxStamped == Spec => []StampedIsConverted
<1>1. TypeInv /\ EarnedInv /\ [Next]_vars => (TypeInv /\ EarnedInv)'
  BY TypeStep, EarnedStep
<1>2. TypeInv /\ EarnedInv => StampedIsConverted
  BY DEF EarnedInv
<1> QED BY InitTypeInv, InitEarned, <1>1, <1>2, PTL DEF Spec
-----------------------------------------------------------------------------
(* The polling flag.                                                       *)

\* No cycle begins or ends.
LEMMA CyclesGoOn ==
  ASSUME TypeOK, OneCycle, UNCHANGED polling,
         \A c \in Cycles : pc'[c] = "idle" <=> pc[c] = "idle"
  PROVE  OneCycle'
  BY DEF OneCycle

LEMMA ReturnEndsCycle ==
  ASSUME TypeOK, OneCycle, NEW w \in Workers, pc[w] # "idle", Return(w)
  PROVE  OneCycle'
<1>1. CASE w \in Cycles
  <2>1. polling' = FALSE /\ pc' = [pc EXCEPT ![w] = "idle"]
    BY <1>1 DEF Return, FlagAfter
  <2>2. \A c \in Cycles : pc'[c] = "idle"
    BY <2>1, <1>1 DEF OneCycle, TypeOK, Workers
  <2> QED BY <2>1, <2>2 DEF OneCycle
<1>2. CASE w \notin Cycles
  BY <1>2, CyclesGoOn DEF Return, FlagAfter, TypeOK, Workers
<1> QED BY <1>1, <1>2

LEMMA OneCycleStep == TypeOK /\ OneCycle /\ [Next]_vars => OneCycle'
<1> SUFFICES ASSUME TypeOK, OneCycle, [Next]_vars PROVE OneCycle'
  OBVIOUS
<1> USE DEF tables, links, local, hub, bounds
<1>1. ASSUME UNCHANGED <<pc, polling>> PROVE OneCycle'
  BY <1>1, CyclesGoOn
<1>2. ASSUME NEW w \in Workers, NEW s \in Steps, pc[w] # "idle", s # "idle",
             pc' = [pc EXCEPT ![w] = s], UNCHANGED polling
      PROVE OneCycle'
  BY <1>2, CyclesGoOn DEF TypeOK, Workers
<1>3. ASSUME NEW c \in Cycles, BeginCycle(c) PROVE OneCycle'
  BY <1>3 DEF BeginCycle, CycleMayRun, OneCycle, TypeOK, Workers
<1>4. ASSUME NEW c \in Cycles, PollingDone(c) PROVE OneCycle'
  BY <1>4, <1>2 DEF PollingDone, Workers, Steps
<1>5. ASSUME NEW a \in Admins, pc' = [pc EXCEPT ![a] = "select"], UNCHANGED polling
      PROVE OneCycle'
  BY <1>5, OutboxAssumption, CyclesGoOn DEF TypeOK, Workers
<1>6. ASSUME NEW a \in Admins, AdminProcess(a) PROVE OneCycle'
  BY <1>6, <1>5 DEF AdminProcess
<1>7. ASSUME NEW a \in Admins, NEW d \in Rows, RequeueDelivery(a, d) PROVE OneCycle'
  BY <1>7, <1>5 DEF RequeueDelivery
<1>8. CASE RequeueUnsupported
  BY <1>8, <1>1 DEF RequeueUnsupported
<1>9. ASSUME NEW w \in Workers, SelectDue(w) PROVE OneCycle'
  BY <1>9, <1>2 DEF SelectDue, Steps
<1>10. ASSUME NEW w \in Workers, EndBatch(w) PROVE OneCycle'
  BY <1>10, ReturnEndsCycle DEF EndBatch
<1>11. ASSUME NEW w \in Workers, Throw(w) PROVE OneCycle'
  <2>1. Return(w) /\ pc[w] # "idle"
    BY <1>11 DEF Throw
  <2> QED BY <2>1, ReturnEndsCycle
<1>12. ASSUME NEW w \in Workers, NEW d \in Rows, Proceed(w, d), pc[w] # "idle" PROVE OneCycle'
  <2>1. After(w) \in Steps /\ After(w) # "idle"
    BY AfterType DEF Steps
  <2> QED BY <1>12, <2>1, <1>2 DEF Proceed
<1>13. ASSUME NEW w \in Workers, NEW d \in Rows, WriteLost(w, d) PROVE OneCycle'
  BY <1>13, <1>12 DEF WriteLost
<1>14. CASE Crash
  BY <1>14 DEF Crash, OneCycle, Workers
<1>15. ASSUME NEW w \in Workers, NEW d \in Rows, Attempt(w, d) PROVE OneCycle'
  <2>1. CASE LookUp(w, d) \/ Skip(w, d)
    BY <2>1, <1>1 DEF LookUp, Skip
  <2>2. CASE Touch(w, d) \/ Finish(w, d) \/ Stamp(w, d)
    BY <2>2, <1>12 DEF Touch, Finish, Stamp
  <2>3. CASE Call(w, d)
    BY <2>3, <1>2 DEF Call, Steps
  <2>4. ASSUME NEW a \in {"ok", "record"}, HubAccepts(w, d, a) PROVE OneCycle'
    BY <2>4, <1>2 DEF HubAccepts, Steps
  <2>5. CASE HubRejects(w, d) \/ HubRefuses(w, d)
    BY <2>5, <1>2 DEF HubRejects, HubRefuses, Steps
  <2>6. CASE CallThrows(w, d)
    BY <2>6, <1>2 DEF CallThrows, Steps
  <2> QED BY <1>15, <2>1, <2>2, <2>3, <2>4, <2>5, <2>6 DEF Attempt
<1>16. ASSUME NEW w \in Workers, Step(w) PROVE OneCycle'
  BY <1>16, <1>9, <1>10, <1>15 DEF Step
<1>17. ASSUME NEW d \in Rows, NEW o \in Orgs, NEW r \in Resources, Enqueue(d, o, r)
       PROVE OneCycle'
  BY <1>17, <1>1 DEF Enqueue
<1>18. ASSUME NEW o \in Orgs, NEW v \in {"active", "inactive"}, SetConnection(o, v)
       PROVE OneCycle'
  BY <1>18, <1>1 DEF SetConnection
<1>19. ASSUME NEW d \in Rows, Elapse(d) PROVE OneCycle'
  BY <1>19, <1>1 DEF Elapse
<1>20. ASSUME NEW r \in Resources, HubGrows(r) PROVE OneCycle'
  BY <1>20, <1>1 DEF HubGrows
<1>21. CASE UNCHANGED vars
  BY <1>21, <1>1 DEF vars
<1> QED
  BY <1>3, <1>4, <1>6, <1>7, <1>8, <1>11, <1>13, <1>14, <1>16, <1>17, <1>18, <1>19, <1>20, <1>21
     DEF Next

\* At most one cron cycle runs at a time, and the flag is set exactly while
\* one does: for any number of firings, with operator requests in between.
THEOREM OutboxOneCycle == Spec => []OneCycle
<1>1. Init => OneCycle
  BY DEF Init, OneCycle, Workers
<1>2. TypeInv /\ OneCycle /\ [Next]_vars => (TypeInv /\ OneCycle)'
  BY TypeStep, OneCycleStep DEF TypeInv
<1> QED BY InitTypeInv, <1>1, <1>2, PTL DEF Spec
-----------------------------------------------------------------------------
(* Conversions are traced: from the answer that names the record to the    *)
(* stamp, the processor that heard it is still at the row.                 *)

\* A step that changes no processor's row or answer, and reports no new
\* conversion, leaves every conversion with its processor.
LEMMA TracedKept ==
  ASSUME TypeOK, ConversionTraced, faults' \in {faults, faults + 1},
         UNCHANGED <<todo, answer, converted>>, stamped \subseteq stamped'
  PROVE  ConversionTraced'
  BY DEF ConversionTraced, Handling, Current, TypeOK

\* Processor w starts or ends a batch; it had no answer in hand.
LEMMA TracedElsewhere ==
  ASSUME TypeOK, ConversionTraced, AnswerIsTrue, NEW w \in Workers, pc[w] \notin AnswerSteps,
         \A v \in Workers \ {w} : todo'[v] = todo[v] /\ answer'[v] = answer[v],
         faults' \in {faults, faults + 1}, UNCHANGED <<converted, stamped>>
  PROVE  ConversionTraced'
<1>1. answer[w] = "none"
  BY DEF AnswerIsTrue
<1>2. \A v \in Workers, d \in Rows : Handling(v, d) => Handling(v, d)'
  BY <1>1 DEF Handling, Current
<1>3. faults' = 0 => faults = 0
  BY DEF TypeOK
<1> QED BY <1>2, <1>3 DEF ConversionTraced, TypeOK

\* attemptOne goes on: it leaves the row of a conversion only past the stamp.
LEMMA TracedProceeds ==
  ASSUME TypeOK, ConversionTraced, NEW w \in Workers, NEW d \in Rows,
         Proceed(w, d), pc[w] \in {"touch", "finish"}, UNCHANGED <<faults, converted, stamped>>
  PROVE  ConversionTraced'
<1>1. CASE answer[w] = "record"
  <2>1. After(w) # "next"
    BY <1>1 DEF After, Ok
  <2> QED BY <2>1, TracedKept DEF Proceed
<1>2. CASE answer[w] # "record"
  <2>1. \A e \in Rows : ~Handling(w, e)
    BY <1>2 DEF Handling
  <2>2. \A v \in Workers \ {w} : todo'[v] = todo[v] /\ answer'[v] = answer[v]
    BY DEF Proceed, TypeOK
  <2>3. \A v \in Workers, e \in Rows : Handling(v, e) => Handling(v, e)'
    BY <2>1, <2>2 DEF Handling, Current
  <2> QED BY <2>3 DEF ConversionTraced, TypeOK
<1> QED BY <1>1, <1>2

LEMMA TracedStep == TypeOK /\ AnswerIsTrue /\ ConversionTraced /\ [Next]_vars => ConversionTraced'
<1> SUFFICES ASSUME TypeOK, AnswerIsTrue, ConversionTraced, [Next]_vars PROVE ConversionTraced'
  OBVIOUS
<1> USE DEF tables, links, local, hub, bounds
<1>1. ASSUME UNCHANGED <<todo, answer, converted, stamped, faults>> PROVE ConversionTraced'
  BY <1>1, TracedKept
<1>2. ASSUME NEW d \in Rows, NEW o \in Orgs, NEW r \in Resources, Enqueue(d, o, r)
      PROVE ConversionTraced'
  BY <1>2, <1>1 DEF Enqueue
<1>3. ASSUME NEW o \in Orgs, NEW v \in {"active", "inactive"}, SetConnection(o, v)
      PROVE ConversionTraced'
  BY <1>3, <1>1 DEF SetConnection
<1>4. ASSUME NEW d \in Rows, Elapse(d) PROVE ConversionTraced'
  BY <1>4, <1>1 DEF Elapse
<1>5. ASSUME NEW r \in Resources, HubGrows(r) PROVE ConversionTraced'
  BY <1>5, <1>1 DEF HubGrows
<1>6. ASSUME NEW c \in Cycles, BeginCycle(c) \/ PollingDone(c) PROVE ConversionTraced'
  BY <1>6, <1>1 DEF BeginCycle, PollingDone
<1>7. ASSUME NEW a \in Admins, AdminProcess(a) PROVE ConversionTraced'
  BY <1>7, <1>1 DEF AdminProcess
<1>8. ASSUME NEW a \in Admins, NEW d \in Rows, RequeueDelivery(a, d) PROVE ConversionTraced'
  BY <1>8, <1>1 DEF RequeueDelivery
<1>9. CASE RequeueUnsupported
  BY <1>9, <1>1 DEF RequeueUnsupported
<1>10. ASSUME NEW w \in Workers, SelectDue(w) PROVE ConversionTraced'
  <2>1. /\ pc[w] \notin AnswerSteps
        /\ \A v \in Workers \ {w} : todo'[v] = todo[v] /\ answer'[v] = answer[v]
        /\ UNCHANGED <<faults, converted, stamped>>
    BY <1>10 DEF SelectDue, AnswerSteps, TypeOK
  <2> QED BY <2>1, TracedElsewhere
<1>11. ASSUME NEW w \in Workers, Return(w), pc[w] \notin AnswerSteps,
              faults' \in {faults, faults + 1}, UNCHANGED <<converted, stamped>>
       PROVE ConversionTraced'
  <2>1. \A v \in Workers \ {w} : todo'[v] = todo[v] /\ answer'[v] = answer[v]
    BY <1>11 DEF Return, TypeOK
  <2> QED BY <1>11, <2>1, TracedElsewhere
<1>12. ASSUME NEW w \in Workers, EndBatch(w) PROVE ConversionTraced'
  BY <1>12, <1>11 DEF EndBatch, AnswerSteps
<1>13. ASSUME NEW w \in Workers, Throw(w) PROVE ConversionTraced'
  BY <1>13, <1>11 DEF Throw, AnswerSteps
<1>14. ASSUME NEW w \in Workers, NEW d \in Rows, WriteLost(w, d) PROVE ConversionTraced'
  BY <1>14 DEF WriteLost, ConversionTraced, TypeOK
<1>15. CASE Crash
  BY <1>15 DEF Crash, ConversionTraced, TypeOK
<1>16. ASSUME NEW w \in Workers, NEW d \in Rows, LookUp(w, d) \/ Call(w, d)
       PROVE ConversionTraced'
  BY <1>16, <1>1 DEF LookUp, Call
<1>17. ASSUME NEW w \in Workers, NEW d \in Rows, Skip(w, d) PROVE ConversionTraced'
  <2>1. /\ pc[w] \notin AnswerSteps
        /\ \A v \in Workers \ {w} : todo'[v] = todo[v] /\ answer'[v] = answer[v]
        /\ UNCHANGED <<faults, converted, stamped>>
    BY <1>17 DEF Skip, AnswerSteps, TypeOK
  <2> QED BY <2>1, TracedElsewhere
<1>18. ASSUME NEW w \in Workers, NEW d \in Rows, NEW a \in Answers, answer' = [answer EXCEPT ![w] = a],
              pc[w] = "call", UNCHANGED <<todo, faults, converted, stamped>>
       PROVE ConversionTraced'
  <2>1. /\ pc[w] \notin AnswerSteps
        /\ \A v \in Workers \ {w} : todo'[v] = todo[v] /\ answer'[v] = answer[v]
    BY <1>18 DEF AnswerSteps, TypeOK
  <2> QED BY <1>18, <2>1, TracedElsewhere
<1>19. ASSUME NEW w \in Workers, NEW d \in Rows, NEW a \in {"ok", "record"}, HubAccepts(w, d, a)
       PROVE ConversionTraced'
  <2>1. CASE a = "ok"
    BY <2>1, <1>18, <1>19 DEF HubAccepts, Answers
  <2>2. CASE a = "record"
    <3>1. /\ answer' = [answer EXCEPT ![w] = "record"] /\ converted' = converted \cup {d}
          /\ UNCHANGED <<todo, faults, stamped>> /\ Current(w, d) /\ pc[w] = "call"
      BY <1>19, <2>2 DEF HubAccepts
    <3>2. answer[w] = "none"
      BY <3>1 DEF AnswerIsTrue, AnswerSteps
    <3>3. Handling(w, d)'
      BY <3>1 DEF Handling, Current, TypeOK
    <3>4. \A v \in Workers, e \in Rows : Handling(v, e) => Handling(v, e)'
      BY <3>1, <3>2 DEF Handling, Current, TypeOK
    <3> QED BY <3>1, <3>3, <3>4 DEF ConversionTraced, TypeOK
  <2> QED BY <2>1, <2>2
<1>20. ASSUME NEW w \in Workers, NEW d \in Rows, HubRejects(w, d) \/ HubRefuses(w, d) \/ CallThrows(w, d)
       PROVE ConversionTraced'
  BY <1>18, <1>20 DEF HubRejects, HubRefuses, CallThrows, Answers
<1>21. ASSUME NEW w \in Workers, NEW d \in Rows, Touch(w, d) \/ Finish(w, d) PROVE ConversionTraced'
  BY <1>21, TracedProceeds DEF Touch, Finish
<1>22. ASSUME NEW w \in Workers, NEW d \in Rows, Stamp(w, d) PROVE ConversionTraced'
  <2>1. /\ stamped' = stamped \cup {d} /\ UNCHANGED <<converted, faults>>
        /\ \A v \in Workers \ {w} : todo'[v] = todo[v] /\ answer'[v] = answer[v]
    BY <1>22 DEF Stamp, Proceed, TypeOK
  <2>2. \A e \in Rows : Handling(w, e) => e = d
    BY <1>22 DEF Stamp, Handling, Current, TypeOK, Rows
  <2>3. \A v \in Workers, e \in Rows : Handling(v, e) /\ e # d => Handling(v, e)'
    BY <2>1, <2>2 DEF Handling, Current
  <2> QED BY <2>1, <2>3 DEF ConversionTraced, TypeOK
<1>23. CASE UNCHANGED vars
  BY <1>23, <1>1 DEF vars
<1>24. ASSUME NEW w \in Workers, NEW d \in Rows, Attempt(w, d) PROVE ConversionTraced'
  BY <1>24, <1>16, <1>17, <1>19, <1>20, <1>21, <1>22 DEF Attempt
<1>25. ASSUME NEW w \in Workers, Step(w) PROVE ConversionTraced'
  BY <1>25, <1>10, <1>12, <1>24 DEF Step
<1> QED
  BY <1>2, <1>3, <1>4, <1>5, <1>6, <1>7, <1>8, <1>9, <1>13, <1>14, <1>15, <1>23, <1>25
     DEF Next

\* As long as no write fails and nothing restarts, however many processors
\* overlap, every conversion the hub reports ends up on the portal request.
THEOREM OutboxTraced == Spec => []ConversionTraced
<1>1. Init => ConversionTraced
  BY DEF Init, ConversionTraced
<1>2. TypeInv /\ EarnedInv /\ ConversionTraced /\ [Next]_vars
        => (TypeInv /\ EarnedInv /\ ConversionTraced)'
  BY TypeStep, EarnedStep, TracedStep DEF TypeInv, EarnedInv
<1> QED BY InitTypeInv, InitEarned, <1>1, <1>2, PTL DEF Spec

\* Portal requests name the record the hub made of them: the stamps are the
\* conversions the hub reported, short of those still in hand or lost to a fault.
THEOREM OutboxStampsTrue == Spec => []StampsTrue
  BY OutboxStamped, OutboxTraced, PTL DEF StampsTrue
-----------------------------------------------------------------------------
(* Cron alone.  While no operator request processes rows, one processor is *)
(* busy at most, and a row it holds is still as it was when it was read.   *)

CronDrives == \A a \in Admins : pc[a] = "idle"

OneBusy == \A v, w \in Workers : pc[v] # "idle" /\ pc[w] # "idle" => v = w

\* The current row has been written; only the connection and stamp remain.
Written(w) == pc[w] \in {"touch", "stamp"} /\ answer[w] # "thrown"

Held(w, d) == d \in todo[w] /\ ~(Current(w, d) /\ Written(w))

Resting == \A w \in Workers : pc[w] \in {"idle", "polling", "select"} => todo[w] = {}

Snapshot ==
  \A w \in Workers, d \in Rows :
    Held(w, d) => status[d] = "pending" /\ seen[w][d] = attempts[d]

SoloInv == Resting /\ Snapshot

\* w has called the hub for d and not yet written the attempt.
Owes(w, d) ==
  /\ Current(w, d)
  /\ pc[w] \in {"call", "finish"} \/ (pc[w] = "touch" /\ answer[w] = "thrown")

CallsCounted ==
  \A d \in Rows : calls[d] <= attempts[d] + faults + (IF \E w \in Workers : Owes(w, d) THEN 1 ELSE 0)

LEMMA CronAlone == OneCycle /\ CronDrives => OneBusy
  BY DEF OneCycle, CronDrives, OneBusy, Workers

LEMMA OthersRest ==
  ASSUME OneBusy, Resting, NEW w \in Workers, pc[w] # "idle", NEW v \in Workers, v # w
  PROVE  todo[v] = {}
  BY DEF OneBusy, Resting

LEMMA CurrentUnique ==
  ASSUME TypeOK, NEW w \in Workers, NEW d, NEW e, Current(w, d), Current(w, e)
  PROVE  d = e
  BY DEF TypeOK, Current, Rows

\* The busy processor w moves; the snapshot is kept if what it holds
\* afterwards is, and nobody else holds anything.
LEMMA MoverKeeps ==
  ASSUME OneBusy, SoloInv, NEW w \in Workers, pc[w] # "idle",
         \A v \in Workers \ {w} : todo'[v] = todo[v],
         pc'[w] \in {"idle", "polling", "select"} => todo'[w] = {},
         \A v \in Workers \ {w} : pc'[v] = pc[v],
         \A d \in Rows : Held(w, d)' => status'[d] = "pending" /\ seen'[w][d] = attempts'[d]
  PROVE  SoloInv'
<1>1. \A v \in Workers \ {w} : todo'[v] = {}
  BY OthersRest DEF SoloInv
<1>2. Resting'
  BY <1>1 DEF Resting, SoloInv
<1>3. Snapshot'
  BY <1>1 DEF Snapshot, Held
<1> QED BY <1>2, <1>3 DEF SoloInv

\* What w goes on to hold when it leaves a write: not the row it finished.
LEMMA ProceedHolds ==
  ASSUME TypeOK, NEW w \in Workers, NEW d \in Rows, Proceed(w, d), Current(w, d),
         pc[w] \in AnswerSteps, NEW e \in Rows, Held(w, e)'
  PROVE  /\ e \in todo[w]
         /\ pc[w] = "finish" => e # d
         /\ Held(w, e)
<1> USE DEF AnswerSteps
<1>1. CASE After(w) = "next"
  <2>1. todo'[w] = todo[w] \ {d}
    BY <1>1 DEF Proceed, TypeOK
  <2>2. e \in todo[w] /\ e # d
    BY <2>1 DEF Held
  <2> QED BY <2>2, CurrentUnique DEF Held
<1>2. CASE After(w) # "next"
  <2>1. todo' = todo /\ answer' = answer /\ pc'[w] = After(w)
    BY <1>2 DEF Proceed, TypeOK
  <2>2. e \in todo[w] /\ (Current(w, e)' <=> Current(w, e))
    BY <2>1 DEF Held, Current
  <2>3. pc[w] = "finish" => Written(w)'
    BY <1>2, <2>1 DEF After, Ok, Written
  <2>4. pc[w] = "finish" => e # d
    BY <2>2, <2>3 DEF Held
  <2>5. Held(w, e)
    <3>1. CASE pc[w] = "finish"
      BY <2>2, <3>1 DEF Held, Written
    <3>2. CASE pc[w] = "touch" /\ answer[w] = "thrown"
      BY <2>2, <3>2 DEF Held, Written
    <3>3. CASE pc[w] = "stamp" \/ (pc[w] = "touch" /\ answer[w] # "thrown")
      <4>1. After(w) = "stamp" /\ answer[w] # "thrown"
        BY <1>2, <3>3 DEF After
      <4> QED BY <2>1, <2>2, <4>1 DEF Held, Written
    <3> QED BY <3>1, <3>2, <3>3
  <2> QED BY <2>2, <2>4, <2>5
<1> QED BY <1>1, <1>2

LEMMA ProceedMoves ==
  ASSUME TypeOK, NEW w \in Workers, NEW d \in Rows, Proceed(w, d)
  PROVE  /\ \A v \in Workers \ {w} : todo'[v] = todo[v] /\ pc'[v] = pc[v]
         /\ pc'[w] \notin {"idle", "polling", "select"}
         /\ seen' = seen
<1>1. pc'[w] = After(w)
  BY DEF Proceed, TypeOK
<1> QED BY <1>1, AfterType DEF Proceed, TypeOK

LEMMA SoloStep ==
  ASSUME TypeOK, OneBusy, SoloInv, [Next]_vars, CronDrives'
  PROVE  SoloInv'
<1> USE DEF tables, links, local, hub, bounds
<1>1. ASSUME UNCHANGED <<status, attempts, pc, todo, seen, answer>> PROVE SoloInv'
  BY <1>1 DEF SoloInv, Resting, Snapshot, Held, Current, Written
<1>2. ASSUME NEW d \in Rows, NEW o \in Orgs, NEW r \in Resources, Enqueue(d, o, r) PROVE SoloInv'
  <2>1. UNCHANGED <<attempts, pc, todo, seen, answer>> /\ status' = [status EXCEPT ![d] = "pending"]
    BY <1>2 DEF Enqueue
  <2>2. \A e \in Rows : status[e] = "pending" => status'[e] = "pending"
    BY <2>1 DEF TypeOK
  <2> QED BY <2>1, <2>2 DEF SoloInv, Resting, Snapshot, Held, Current, Written
<1>3. ASSUME NEW o \in Orgs, NEW v \in {"active", "inactive"}, SetConnection(o, v) PROVE SoloInv'
  BY <1>3, <1>1 DEF SetConnection
<1>4. ASSUME NEW d \in Rows, Elapse(d) PROVE SoloInv'
  BY <1>4, <1>1 DEF Elapse
<1>5. ASSUME NEW r \in Resources, HubGrows(r) PROVE SoloInv'
  BY <1>5, <1>1 DEF HubGrows
<1>6. ASSUME NEW c \in Cycles, NEW s \in Steps, pc[c] \in {"idle", "polling"},
             pc' = [pc EXCEPT ![c] = s], UNCHANGED <<status, attempts, todo, seen, answer>>
      PROVE SoloInv'
  <2>1. c \in Workers /\ todo[c] = {}
    BY <1>6 DEF Workers, SoloInv, Resting
  <2>2. Resting'
    BY <1>6, <2>1 DEF SoloInv, Resting, TypeOK
  <2>3. \A w \in Workers, d \in Rows : Held(w, d)' => Held(w, d)
    BY <1>6, <2>1 DEF Held, Current, Written, TypeOK
  <2> QED BY <1>6, <2>2, <2>3 DEF SoloInv, Snapshot
<1>7. ASSUME NEW c \in Cycles, BeginCycle(c) PROVE SoloInv'
  BY <1>6, <1>7 DEF BeginCycle, Steps
<1>8. ASSUME NEW c \in Cycles, PollingDone(c) PROVE SoloInv'
  BY <1>6, <1>8 DEF PollingDone, Steps
<1>9. ASSUME NEW a \in Admins, pc' = [pc EXCEPT ![a] = "select"] PROVE FALSE
  BY <1>9 DEF CronDrives, TypeOK, Workers
<1>10. CASE RequeueUnsupported
  <2>1. /\ status' = [d \in Rows |-> IF d \in Replayable THEN "pending" ELSE status[d]]
        /\ attempts' = [d \in Rows |-> IF d \in Replayable THEN 0 ELSE attempts[d]]
        /\ UNCHANGED <<pc, todo, seen, answer>>
    BY <1>10 DEF RequeueUnsupported
  <2>2. \A d \in Rows : status[d] = "pending" => status'[d] = "pending" /\ attempts'[d] = attempts[d]
    BY <2>1 DEF Replayable
  <2> QED BY <2>1, <2>2 DEF SoloInv, Resting, Snapshot, Held, Current, Written
<1>11. ASSUME NEW w \in Workers, SelectDue(w) PROVE SoloInv'
  <2>1. /\ pc' = [pc EXCEPT ![w] = "next"] /\ todo' = [todo EXCEPT ![w] = DueBatch]
        /\ seen' = [seen EXCEPT ![w] = [d \in Rows |-> IF d \in DueBatch THEN attempts[d] ELSE 0]]
        /\ pc[w] = "select" /\ UNCHANGED <<status, attempts>>
    BY <1>11 DEF SelectDue
  <2>2. \A d \in DueBatch : status[d] = "pending"
    BY DEF DueBatch, Due
  <2>3. \A v \in Workers \ {w} : todo'[v] = todo[v] /\ pc'[v] = pc[v]
    BY <2>1 DEF TypeOK
  <2>4. todo'[w] = DueBatch /\ pc'[w] = "next" /\ \A d \in DueBatch : seen'[w][d] = attempts[d]
    BY <2>1 DEF TypeOK, DueBatch, Due
  <2>5. \A d \in Rows : Held(w, d)' => status'[d] = "pending" /\ seen'[w][d] = attempts'[d]
    BY <2>1, <2>2, <2>4 DEF Held
  <2> QED BY <2>1, <2>3, <2>4, <2>5, MoverKeeps
<1>12. ASSUME NEW w \in Workers, pc[w] # "idle", Return(w) PROVE SoloInv'
  <2>1. /\ todo'[w] = {}
        /\ \A v \in Workers \ {w} : todo'[v] = todo[v] /\ pc'[v] = pc[v]
    BY <1>12 DEF Return, TypeOK
  <2> QED BY <1>12, <2>1, MoverKeeps DEF Held
<1>13. ASSUME NEW w \in Workers, EndBatch(w) \/ Throw(w) PROVE SoloInv'
  BY <1>12, <1>13 DEF EndBatch, Throw
<1>14. ASSUME NEW w \in Workers, NEW d \in Rows, LookUp(w, d) PROVE SoloInv'
  BY <1>14, <1>1 DEF LookUp
<1>15. ASSUME NEW w \in Workers, NEW d \in Rows, Skip(w, d) PROVE SoloInv'
  <2>1. /\ pc[w] = "next" /\ todo' = [todo EXCEPT ![w] = @ \ {d}]
        /\ UNCHANGED <<status, attempts, pc, seen, answer>>
    BY <1>15 DEF Skip
  <2>2. /\ todo'[w] = todo[w] \ {d} /\ pc'[w] = "next"
        /\ \A v \in Workers \ {w} : todo'[v] = todo[v] /\ pc'[v] = pc[v]
    BY <2>1 DEF TypeOK
  <2>3. \A e \in Rows : Held(w, e)' => Held(w, e)
    BY <2>1, <2>2 DEF Held, Written
  <2> QED BY <2>1, <2>2, <2>3, MoverKeeps DEF SoloInv, Snapshot
<1>16. ASSUME NEW w \in Workers, pc[w] \in {"next", "call"}, NEW s \in Steps,
              pc' = [pc EXCEPT ![w] = s], s \in {"call", "finish", "touch"},
              UNCHANGED <<status, attempts, todo, seen>>
       PROVE SoloInv'
  <2>1. \A e \in Rows : Held(w, e)' => Held(w, e)
    BY <1>16 DEF Held, Written
  <2>2. pc'[w] = s /\ \A v \in Workers \ {w} : todo'[v] = todo[v] /\ pc'[v] = pc[v]
    BY <1>16 DEF TypeOK
  <2> QED BY <1>16, <2>1, <2>2, MoverKeeps DEF SoloInv, Snapshot
<1>17. ASSUME NEW w \in Workers, NEW d \in Rows, Call(w, d) PROVE SoloInv'
  BY <1>16, <1>17 DEF Call, Steps
<1>18. ASSUME NEW w \in Workers, NEW d \in Rows, NEW a \in {"ok", "record"}, HubAccepts(w, d, a)
       PROVE SoloInv'
  BY <1>16, <1>18 DEF HubAccepts, Steps
<1>19. ASSUME NEW w \in Workers, NEW d \in Rows, HubRejects(w, d) \/ HubRefuses(w, d) \/ CallThrows(w, d)
       PROVE SoloInv'
  BY <1>16, <1>19 DEF HubRejects, HubRefuses, CallThrows, Steps
<1>20. ASSUME NEW w \in Workers, NEW d \in Rows, Proceed(w, d), Current(w, d),
              pc[w] \in AnswerSteps, UNCHANGED <<status, attempts>>
       PROVE SoloInv'
  <2>1. \A e \in Rows : Held(w, e)' => Held(w, e)
    BY <1>20, ProceedHolds
  <2> QED BY <1>20, <2>1, ProceedMoves, MoverKeeps DEF SoloInv, Snapshot, AnswerSteps
<1>21. ASSUME NEW w \in Workers, NEW d \in Rows, Touch(w, d) \/ Stamp(w, d) \/ WriteLost(w, d)
       PROVE SoloInv'
  BY <1>20, <1>21 DEF Touch, Stamp, WriteLost, AnswerSteps
<1>22. ASSUME NEW w \in Workers, NEW d \in Rows, Finish(w, d) PROVE SoloInv'
  <2>1. /\ Proceed(w, d) /\ Current(w, d) /\ pc[w] = "finish"
        /\ status' = [status EXCEPT ![d] = Outcome(w, d)]
        /\ attempts' = [attempts EXCEPT ![d] = Tried(w, d)]
    BY <1>22 DEF Finish
  <2>2. \A e \in Rows : e # d => status'[e] = status[e] /\ attempts'[e] = attempts[e]
    BY <2>1 DEF TypeOK
  <2>3. \A e \in Rows : Held(w, e)' => Held(w, e) /\ e # d
    BY <2>1, ProceedHolds DEF AnswerSteps
  <2> QED BY <2>1, <2>2, <2>3, ProceedMoves, MoverKeeps DEF SoloInv, Snapshot
<1>23. CASE Crash
  BY <1>23 DEF Crash, SoloInv, Resting, Snapshot, Held
<1>24. CASE UNCHANGED vars
  BY <1>24, <1>1 DEF vars
<1>25. ASSUME NEW w \in Workers, NEW d \in Rows, Attempt(w, d) PROVE SoloInv'
  BY <1>25, <1>14, <1>15, <1>17, <1>18, <1>19, <1>21, <1>22 DEF Attempt
<1>26. ASSUME NEW w \in Workers, Step(w) PROVE SoloInv'
  BY <1>26, <1>11, <1>13, <1>25 DEF Step
<1>27. ASSUME NEW a \in Admins, AdminProcess(a) PROVE SoloInv'
  BY <1>27, <1>9 DEF AdminProcess
<1>28. ASSUME NEW a \in Admins, NEW d \in Rows, RequeueDelivery(a, d) PROVE SoloInv'
  BY <1>28, <1>9 DEF RequeueDelivery
<1> QED
  BY <1>2, <1>3, <1>4, <1>5, <1>7, <1>8, <1>10, <1>13, <1>21, <1>23, <1>24, <1>26, <1>27, <1>28
     DEF Next
-----------------------------------------------------------------------------
(* Bounded retry under cron: every call is counted in attempts, but for    *)
(* the one under way and those whose count a fault lost.                   *)

\* The busy processor is the only one that can owe a count, at its own row.
LEMMA OnlyCurrentOwed ==
  ASSUME TypeOK, OneBusy, Resting, NEW w \in Workers, pc[w] # "idle", NEW v \in Workers,
         NEW e, Owes(v, e)
  PROVE  v = w
  BY OthersRest DEF Owes, Current

\* Nobody owes a count before or after the step, and a fault may be counted.
LEMMA CountKept ==
  ASSUME TypeOK, CallsCounted, TypeOK', faults' \in {faults, faults + 1},
         \A d \in Rows : calls'[d] = calls[d] /\ attempts'[d] = attempts[d],
         \/ faults' = faults + 1
         \/ \A w \in Workers, d \in Rows : Owes(w, d) => Owes(w, d)'
  PROVE  CallsCounted'
<1> SUFFICES ASSUME NEW d \in Rows
             PROVE  calls'[d] <= attempts'[d] + faults'
                                   + (IF \E w \in Workers : Owes(w, d)' THEN 1 ELSE 0)
  BY DEF CallsCounted
<1>1. calls[d] <= attempts[d] + faults + (IF \E w \in Workers : Owes(w, d) THEN 1 ELSE 0)
  BY DEF CallsCounted
<1>2. calls[d] \in Nat /\ attempts[d] \in Nat /\ faults \in Nat
  BY OutboxAssumption DEF TypeOK
<1>3. CASE faults' = faults + 1
  BY <1>1, <1>2, <1>3
<1>4. CASE \A w \in Workers, e \in Rows : Owes(w, e) => Owes(w, e)'
  <2>1. (\E w \in Workers : Owes(w, d)) => \E w \in Workers : Owes(w, d)'
    BY <1>4
  <2> QED BY <1>1, <1>2, <2>1
<1> QED BY <1>3, <1>4

LEMMA CallsStep ==
  ASSUME TypeOK, TypeOK', OneBusy, SoloInv, CallsCounted, [Next]_vars, CronDrives'
  PROVE  CallsCounted'
<1> USE DEF tables, links, local, hub, bounds
<1>1. ASSUME UNCHANGED <<attempts, calls, faults, pc, todo, answer>> PROVE CallsCounted'
  BY <1>1, CountKept DEF Owes, Current
<1>2. ASSUME NEW d \in Rows, NEW o \in Orgs, NEW r \in Resources, Enqueue(d, o, r) PROVE CallsCounted'
  BY <1>2, <1>1 DEF Enqueue
<1>3. ASSUME NEW o \in Orgs, NEW v \in {"active", "inactive"}, SetConnection(o, v) PROVE CallsCounted'
  BY <1>3, <1>1 DEF SetConnection
<1>4. ASSUME NEW d \in Rows, Elapse(d) PROVE CallsCounted'
  BY <1>4, <1>1 DEF Elapse
<1>5. ASSUME NEW r \in Resources, HubGrows(r) PROVE CallsCounted'
  BY <1>5, <1>1 DEF HubGrows
\* A processor moves that owes nothing, or a fault forgives what it owes.
<1>6. ASSUME NEW w \in Workers, pc[w] \in {"idle", "polling", "select", "next"},
             \A v \in Workers \ {w} : todo'[v] = todo[v] /\ pc'[v] = pc[v] /\ answer'[v] = answer[v],
             UNCHANGED <<attempts, calls, faults>>
      PROVE CallsCounted'
  <2>1. \A v \in Workers, d \in Rows : Owes(v, d) => Owes(v, d)'
    BY <1>6 DEF Owes, Current
  <2> QED BY <1>6, <2>1, CountKept DEF TypeOK
<1>7. ASSUME NEW c \in Cycles, BeginCycle(c) \/ PollingDone(c) PROVE CallsCounted'
  BY <1>6, <1>7 DEF BeginCycle, PollingDone, Workers, TypeOK
<1>8. ASSUME NEW a \in Admins, pc' = [pc EXCEPT ![a] = "select"] PROVE FALSE
  BY <1>8 DEF CronDrives, TypeOK, Workers
<1>9. CASE RequeueUnsupported
  <2>1. /\ attempts' = [d \in Rows |-> IF d \in Replayable THEN 0 ELSE attempts[d]]
        /\ calls' = [d \in Rows |-> IF d \in Replayable THEN 0 ELSE calls[d]]
        /\ UNCHANGED <<pc, todo, answer, faults>>
    BY <1>9 DEF RequeueUnsupported
  <2>2. \A w \in Workers, d \in Rows : Owes(w, d)' <=> Owes(w, d)
    BY <2>1 DEF Owes, Current
  <2>3. ASSUME NEW d \in Rows
        PROVE calls'[d] <= attempts'[d] + faults' + (IF \E w \in Workers : Owes(w, d)' THEN 1 ELSE 0)
    <3>1. calls[d] <= attempts[d] + faults + (IF \E w \in Workers : Owes(w, d)' THEN 1 ELSE 0)
      BY <2>2 DEF CallsCounted
    <3> QED BY <2>1, <3>1 DEF TypeOK
  <2> QED BY <2>3 DEF CallsCounted
<1>10. ASSUME NEW w \in Workers, SelectDue(w) PROVE CallsCounted'
  BY <1>6, <1>10 DEF SelectDue, TypeOK
<1>11. ASSUME NEW w \in Workers, EndBatch(w) PROVE CallsCounted'
  BY <1>6, <1>11 DEF EndBatch, Return, TypeOK
<1>12. ASSUME NEW w \in Workers, Throw(w) PROVE CallsCounted'
  BY <1>12, CountKept DEF Throw
<1>13. ASSUME NEW w \in Workers, NEW d \in Rows, LookUp(w, d) PROVE CallsCounted'
  BY <1>13, <1>1 DEF LookUp
<1>14. ASSUME NEW w \in Workers, NEW d \in Rows, Skip(w, d) PROVE CallsCounted'
  BY <1>6, <1>14 DEF Skip, TypeOK
<1>15. ASSUME NEW w \in Workers, NEW d \in Rows, Call(w, d) PROVE CallsCounted'
  <2>1. /\ pc[w] = "next" /\ Current(w, d) /\ calls' = [calls EXCEPT ![d] = @ + 1]
        /\ pc' = [pc EXCEPT ![w] = "call"] /\ UNCHANGED <<attempts, faults, todo, answer>>
    BY <1>15 DEF Call
  <2>2. \A v \in Workers, e \in Rows : ~Owes(v, e)
    BY <2>1, OnlyCurrentOwed DEF Owes, SoloInv
  <2>3. Owes(w, d)'
    BY <2>1 DEF Owes, Current, TypeOK
  <2>4. ASSUME NEW e \in Rows PROVE calls[e] <= attempts[e] + faults
    <3>1. attempts[e] \in Nat /\ faults \in Nat
      BY OutboxAssumption DEF TypeOK
    <3>2. ~\E v \in Workers : Owes(v, e)
      BY <2>2
    <3> QED BY <3>1, <3>2 DEF CallsCounted
  <2>5. ASSUME NEW e \in Rows
        PROVE calls'[e] <= attempts'[e] + faults' + (IF \E v \in Workers : Owes(v, e)' THEN 1 ELSE 0)
    <3>1. calls[e] \in Nat /\ attempts[e] \in Nat /\ faults \in Nat
      BY OutboxAssumption DEF TypeOK
    <3>2. calls'[e] = (IF e = d THEN calls[e] + 1 ELSE calls[e])
      BY <2>1 DEF TypeOK
    <3>3. e = d => \E v \in Workers : Owes(v, e)'
      BY <2>3
    <3> QED BY <2>1, <2>4, <3>1, <3>2, <3>3
  <2> QED BY <2>5 DEF CallsCounted
<1>16. ASSUME NEW w \in Workers, pc[w] = "call", NEW a \in Answers, answer' = [answer EXCEPT ![w] = a],
              NEW s \in Steps, pc' = [pc EXCEPT ![w] = s],
              s = "finish" \/ (s = "touch" /\ a = "thrown"), UNCHANGED <<attempts, calls, faults, todo>>
       PROVE CallsCounted'
  <2>1. \A v \in Workers, e \in Rows : Owes(v, e) => Owes(v, e)'
    BY <1>16 DEF Owes, Current, TypeOK
  <2> QED BY <1>16, <2>1, CountKept DEF TypeOK
<1>17. ASSUME NEW w \in Workers, NEW d \in Rows, NEW a \in {"ok", "record"}, HubAccepts(w, d, a)
       PROVE CallsCounted'
  BY <1>16, <1>17 DEF HubAccepts, Steps, Answers
<1>18. ASSUME NEW w \in Workers, NEW d \in Rows, HubRejects(w, d) \/ HubRefuses(w, d) \/ CallThrows(w, d)
       PROVE CallsCounted'
  BY <1>16, <1>18 DEF HubRejects, HubRefuses, CallThrows, Steps, Answers
<1>19. ASSUME NEW w \in Workers, NEW d \in Rows, Touch(w, d) \/ Stamp(w, d) PROVE CallsCounted'
  <2>1. /\ Proceed(w, d) /\ Current(w, d) /\ pc[w] \in {"touch", "stamp"}
        /\ UNCHANGED <<attempts, calls, faults>>
    BY <1>19 DEF Touch, Stamp
  <2>2. ASSUME NEW v \in Workers, NEW e \in Rows, Owes(v, e) PROVE Owes(v, e)'
    <3>1. v = w /\ Current(w, e) /\ pc[w] = "touch" /\ answer[w] = "thrown"
      BY <2>1, <2>2, OnlyCurrentOwed DEF Owes, SoloInv
    <3>2. After(w) = "finish"
      BY <3>1 DEF After, Ok
    <3> QED BY <2>1, <3>1, <3>2 DEF Proceed, Owes, Current, TypeOK
  <2> QED BY <2>1, <2>2, CountKept
<1>20. ASSUME NEW w \in Workers, NEW d \in Rows, WriteLost(w, d) PROVE CallsCounted'
  BY <1>20, CountKept DEF WriteLost
<1>21. ASSUME NEW w \in Workers, NEW d \in Rows, Finish(w, d) PROVE CallsCounted'
  <2>1. /\ Current(w, d) /\ pc[w] = "finish" /\ UNCHANGED <<calls, faults>>
        /\ attempts' = [attempts EXCEPT ![d] = Tried(w, d)]
    BY <1>21 DEF Finish
  <2>2. seen[w][d] = attempts[d]
    BY <2>1 DEF SoloInv, Snapshot, Held, Written, Current
  <2>3. ASSUME NEW e \in Rows PROVE calls[e] <= attempts'[e] + faults
    <3>1. calls[e] \in Nat /\ attempts[e] \in Nat /\ faults \in Nat
      BY OutboxAssumption DEF TypeOK
    <3>2. attempts'[e] = (IF e = d THEN attempts[e] + 1 ELSE attempts[e])
      BY <2>1, <2>2 DEF Tried, TypeOK
    <3>3. e # d => ~\E v \in Workers : Owes(v, e)
      BY <2>1, OnlyCurrentOwed, CurrentUnique DEF Owes, SoloInv
    <3> QED BY <3>1, <3>2, <3>3 DEF CallsCounted
  <2>4. ASSUME NEW e \in Rows
        PROVE calls'[e] <= attempts'[e] + faults' + (IF \E v \in Workers : Owes(v, e)' THEN 1 ELSE 0)
    <3>1. attempts'[e] \in Nat /\ faults \in Nat /\ calls[e] \in Nat
      BY OutboxAssumption DEF TypeOK
    <3> QED BY <2>1, <2>3, <3>1
  <2> QED BY <2>4 DEF CallsCounted
<1>22. CASE Crash
  BY <1>22, CountKept DEF Crash
<1>23. CASE UNCHANGED vars
  BY <1>23, <1>1 DEF vars
<1>24. ASSUME NEW w \in Workers, NEW d \in Rows, Attempt(w, d) PROVE CallsCounted'
  BY <1>24, <1>13, <1>14, <1>15, <1>17, <1>18, <1>19, <1>21 DEF Attempt
<1>25. ASSUME NEW w \in Workers, Step(w) PROVE CallsCounted'
  BY <1>25, <1>10, <1>11, <1>24 DEF Step
<1>26. ASSUME NEW a \in Admins, AdminProcess(a) PROVE CallsCounted'
  BY <1>26, <1>8 DEF AdminProcess
<1>27. ASSUME NEW a \in Admins, NEW d \in Rows, RequeueDelivery(a, d) PROVE CallsCounted'
  BY <1>27, <1>8 DEF RequeueDelivery
<1> QED
  BY <1>2, <1>3, <1>4, <1>5, <1>7, <1>9, <1>12, <1>20, <1>22, <1>23, <1>25, <1>26, <1>27
     DEF Next

\* An attempt that is under way is at a pending row, which has one left.
LEMMA CountsBound == TypeInv /\ SoloInv /\ CallsCounted => BoundedRetry
<1> SUFFICES ASSUME TypeInv, SoloInv, CallsCounted, NEW d \in Rows
             PROVE  calls[d] <= MaxRetries + faults
  BY DEF BoundedRetry
<1>1. /\ calls[d] \in Nat /\ attempts[d] \in 0..MaxRetries /\ faults \in Nat /\ MaxRetries \in Nat
  BY OutboxAssumption DEF TypeInv, TypeOK
<1>2. CASE \E w \in Workers : Owes(w, d)
  <2>1. PICK w \in Workers : Owes(w, d)
    BY <1>2
  <2>2. Held(w, d)
    BY <2>1 DEF Owes, Held, Written, Current
  <2>3. attempts[d] < MaxRetries
    BY <2>2 DEF SoloInv, Snapshot, TypeInv, SeenBelow
  <2> QED BY <1>1, <1>2, <2>3 DEF CallsCounted
<1>3. CASE ~\E w \in Workers : Owes(w, d)
  BY <1>1, <1>3 DEF CallsCounted
<1> QED BY <1>2, <1>3

\* What holds whenever only cron processes the outbox.
CronInv == TypeInv /\ EarnedInv /\ OneCycle /\ (CronOnly => (CronDrives /\ SoloInv /\ CallsCounted))

LEMMA InitCron == MCInit => CronInv
<1> SUFFICES ASSUME MCInit PROVE CronInv
  OBVIOUS
<1>1. Init
  BY DEF MCInit
<1>2. OneCycle /\ CronDrives
  BY <1>1 DEF Init, OneCycle, CronDrives, Workers
<1>3. SoloInv
  BY <1>1 DEF Init, SoloInv, Resting, Snapshot, Held
<1>4. CallsCounted
  BY <1>1 DEF Init, CallsCounted, Owes, Current
<1> QED BY <1>1, <1>2, <1>3, <1>4, InitTypeInv, InitEarned DEF CronInv

LEMMA CronStep == CronInv /\ [MCNext]_mcvars => CronInv'
<1> SUFFICES ASSUME CronInv, [MCNext]_mcvars PROVE CronInv'
  OBVIOUS
<1>1. [Next]_vars /\ (CronOnly' <=> CronOnly)
  BY DEF MCNext, mcvars, Plays, CronOnly
<1>2. TypeInv' /\ EarnedInv' /\ OneCycle'
  BY <1>1, TypeStep, EarnedStep, OneCycleStep DEF CronInv, TypeInv
<1>3. ASSUME CronOnly PROVE CronDrives'
  <2>1. CASE MCNext
    BY <1>3, <2>1, OutboxAssumption DEF MCNext, Plays, CronOnly, CronDrives, Workers
  <2>2. CASE UNCHANGED mcvars
    BY <1>3, <2>2 DEF CronInv, CronDrives, mcvars, vars
  <2> QED BY <2>1, <2>2
<1>4. ASSUME CronOnly PROVE SoloInv' /\ CallsCounted'
  <2>1. TypeOK /\ TypeOK' /\ OneBusy /\ SoloInv /\ CallsCounted
    BY <1>2, <1>4, CronAlone DEF CronInv, TypeInv
  <2> QED BY <1>1, <1>3, <1>4, <2>1, SoloStep, CallsStep
<1> QED BY <1>1, <1>2, <1>3, <1>4 DEF CronInv

LEMMA CronAlways == MCSpec => []CronInv
  BY InitCron, CronStep, PTL DEF MCSpec

\* "With bounded retry": where only cron processes the outbox, the hub is
\* called for a row at most maxRetries times between two requeues, and once
\* more for each fault that lost a count.
THEOREM OutboxBoundsRetry == MCSpec => []CronBoundsRetry
<1>1. CronInv => CronBoundsRetry
  BY CountsBound DEF CronInv, CronBoundsRetry
<1> QED BY CronAlways, <1>1, PTL

-----------------------------------------------------------------------------
(* Cron alone implements the ledger.                                       *)

LEMMA LedgerInit == Init => Ledger!Init
  BY DEF Init, Ledger!Init, Entry

\* One row's status is written while it is still pending.
LEMMA FinishSettles ==
  ASSUME TypeInv, AnswerIsTrue, SoloInv, NEW w \in Workers, NEW d \in Rows, Finish(w, d)
  PROVE  Ledger!Next \/ UNCHANGED <<status, accepted>>
<1>1. /\ Current(w, d) /\ pc[w] = "finish" /\ UNCHANGED accepted
      /\ status' = [status EXCEPT ![d] = Outcome(w, d)]
  BY DEF Finish, hub
<1>2. status[d] = "pending"
  BY <1>1 DEF SoloInv, Snapshot, Held, Written, Current
<1>3. CASE Outcome(w, d) = "pending"
  BY <1>1, <1>2, <1>3 DEF TypeInv, TypeOK
<1>4. CASE Outcome(w, d) # "pending"
  <2> DEFINE v == Entry(Outcome(w, d))
  <2>1. v \in {"delivered", "failed", "parked"} /\ (v = "delivered" => Ok(w))
    BY <1>4 DEF Outcome, Entry
  <2>2. v = "delivered" => d \in accepted
    BY <1>1, <2>1 DEF AnswerIsTrue, Current
  <2>3. [e \in Rows |-> Entry(status'[e])] = [[e \in Rows |-> Entry(status[e])] EXCEPT ![d] = v]
    BY <1>1 DEF TypeInv, TypeOK
  <2>4. Entry(status[d]) = "queued"
    BY <1>2 DEF Entry
  <2> HIDE DEF v
  <2>5. Ledger!Settle(d, v)
    BY <1>1, <2>2, <2>3, <2>4 DEF Ledger!Settle
  <2> QED BY <2>1, <2>5 DEF Ledger!Next
<1> QED BY <1>3, <1>4

\* The hub applies a row whose call is under way; the row is still pending.
LEMMA CallApplies ==
  ASSUME SoloInv, NEW w \in Workers, NEW d \in Rows, Current(w, d), pc[w] = "call",
         accepted' = accepted \cup {d}, UNCHANGED status
  PROVE  Ledger!Next
<1>1. Entry(status[d]) = "queued"
  BY DEF SoloInv, Snapshot, Held, Written, Current, Entry
<1>2. Ledger!Apply(d)
  BY <1>1 DEF Ledger!Apply
<1> QED BY <1>2 DEF Ledger!Next

\* Every step of the outbox under cron is a step of the ledger, or none.
LEMMA LedgerStep ==
  ASSUME TypeInv, AnswerIsTrue, OneBusy, SoloInv, [Next]_vars, CronDrives'
  PROVE  Ledger!Next \/ UNCHANGED <<status, accepted>>
<1> USE DEF tables, links, local, hub, bounds
<1>0. TypeOK
  BY DEF TypeInv
<1>1. ASSUME NEW d \in Rows, NEW o \in Orgs, NEW r \in Resources, Enqueue(d, o, r) PROVE Ledger!Next
  <2>1. /\ status[d] = "absent" /\ status' = [status EXCEPT ![d] = "pending"] /\ UNCHANGED accepted
    BY <1>1 DEF Enqueue
  <2>2. [e \in Rows |-> Entry(status'[e])] = [[e \in Rows |-> Entry(status[e])] EXCEPT ![d] = "queued"]
    BY <1>0, <2>1 DEF TypeOK, Entry
  <2>3. Ledger!Stage(d)
    BY <2>1, <2>2 DEF Ledger!Stage, Entry
  <2> QED BY <2>3 DEF Ledger!Next
<1>2. CASE RequeueUnsupported
  <2>1. /\ status' = [d \in Rows |-> IF d \in Replayable THEN "pending" ELSE status[d]]
        /\ UNCHANGED accepted
    BY <1>2 DEF RequeueUnsupported
  <2>2. Replayable \in SUBSET Rows /\ \A d \in Replayable : Entry(status[d]) = "parked"
    BY DEF Replayable, Entry
  <2>3. [d \in Rows |-> Entry(status'[d])]
          = [d \in Rows |-> IF d \in Replayable THEN "queued" ELSE [e \in Rows |-> Entry(status[e])][d]]
    BY <2>1 DEF Entry
  <2>4. Ledger!Replay(Replayable)
    BY <2>1, <2>2, <2>3 DEF Ledger!Replay
  <2> QED BY <2>2, <2>4 DEF Ledger!Next
<1>3. ASSUME NEW a \in Admins, pc' = [pc EXCEPT ![a] = "select"] PROVE FALSE
  BY <1>0, <1>3 DEF CronDrives, TypeOK, Workers
<1>4. ASSUME NEW w \in Workers, NEW d \in Rows, Attempt(w, d)
      PROVE Ledger!Next \/ UNCHANGED <<status, accepted>>
  <2>1. CASE LookUp(w, d) \/ Skip(w, d) \/ Call(w, d)
    BY <2>1 DEF LookUp, Skip, Call
  <2>2. ASSUME NEW a \in {"ok", "record"}, HubAccepts(w, d, a) PROVE Ledger!Next
    BY <2>2, CallApplies DEF HubAccepts
  <2>3. CASE HubRejects(w, d) \/ HubRefuses(w, d)
    BY <2>3 DEF HubRejects, HubRefuses
  <2>4. CASE CallThrows(w, d)
    BY <2>4, CallApplies DEF CallThrows
  <2>5. CASE Touch(w, d) \/ Stamp(w, d)
    BY <2>5 DEF Touch, Stamp
  <2>6. CASE Finish(w, d)
    BY <2>6, FinishSettles
  <2> QED BY <1>4, <2>1, <2>2, <2>3, <2>4, <2>5, <2>6 DEF Attempt
<1>5. CASE Crash
  <2>1. PICK S \in SUBSET InFlight : accepted' = accepted \cup S
    BY <1>5 DEF Crash
  <2>2. UNCHANGED status
    BY <1>5 DEF Crash
  <2>3. CASE S = {}
    BY <2>1, <2>2, <2>3
  <2>4. CASE S # {}
    <3>1. PICK d \in S : TRUE
      BY <2>4
    <3>2. d \in Rows
      BY <3>1 DEF InFlight
    <3>3. PICK w \in Workers : pc[w] = "call" /\ Current(w, d)
      BY <3>1 DEF InFlight
    <3>4. ASSUME NEW e \in S PROVE e = d
      <4>1. PICK v \in Workers : pc[v] = "call" /\ Current(v, e)
        BY DEF InFlight
      <4>2. v = w
        BY <3>3, <4>1 DEF OneBusy
      <4> QED BY <1>0, <3>3, <4>1, <4>2, CurrentUnique
    <3>5. accepted' = accepted \cup {d}
      BY <2>1, <3>1, <3>4
    <3> QED BY <2>2, <3>2, <3>3, <3>5, CallApplies
  <2> QED BY <2>3, <2>4
<1>6. ASSUME NEW w \in Workers, Step(w) PROVE Ledger!Next \/ UNCHANGED <<status, accepted>>
  BY <1>4, <1>6 DEF Step, SelectDue, EndBatch
<1>7. ASSUME NEW o \in Orgs, NEW v \in {"active", "inactive"}, SetConnection(o, v)
      PROVE UNCHANGED <<status, accepted>>
  BY <1>7 DEF SetConnection
<1>8. ASSUME NEW d \in Rows, Elapse(d) PROVE UNCHANGED <<status, accepted>>
  BY <1>8 DEF Elapse
<1>9. ASSUME NEW r \in Resources, HubGrows(r) PROVE UNCHANGED <<status, accepted>>
  BY <1>9 DEF HubGrows
<1>10. ASSUME NEW c \in Cycles, BeginCycle(c) \/ PollingDone(c) PROVE UNCHANGED <<status, accepted>>
  BY <1>10 DEF BeginCycle, PollingDone
<1>11. ASSUME NEW a \in Admins, AdminProcess(a) PROVE FALSE
  BY <1>3, <1>11 DEF AdminProcess
<1>12. ASSUME NEW a \in Admins, NEW d \in Rows, RequeueDelivery(a, d) PROVE FALSE
  BY <1>3, <1>12 DEF RequeueDelivery
<1>13. ASSUME NEW w \in Workers, Throw(w) PROVE UNCHANGED <<status, accepted>>
  BY <1>13 DEF Throw
<1>14. ASSUME NEW w \in Workers, NEW d \in Rows, WriteLost(w, d) PROVE UNCHANGED <<status, accepted>>
  BY <1>14 DEF WriteLost
<1>15. CASE UNCHANGED vars
  BY <1>15 DEF vars
<1> QED
  BY <1>1, <1>2, <1>5, <1>6, <1>7, <1>8, <1>9, <1>10, <1>11, <1>12, <1>13, <1>14, <1>15 DEF Next

\* Driven by cron only, the outbox implements the delivery ledger: a row is
\* settled once, as delivered only after the hub has applied it, and only an
\* operator's replay reopens one that was parked.
THEOREM OutboxKeepsLedger == MCSpec => CronKeepsLedger
<1>1. MCInit => Ledger!Init
  BY LedgerInit DEF MCInit
<1>2. CronInv /\ CronInv' /\ [MCNext]_mcvars => [CronOnly => Ledger!Next]_<<status, accepted>>
  <2> SUFFICES ASSUME CronInv, CronInv', [MCNext]_mcvars, CronOnly
               PROVE  Ledger!Next \/ UNCHANGED <<status, accepted>>
    OBVIOUS
  <2>1. [Next]_vars /\ CronOnly'
    BY DEF MCNext, mcvars, Plays, CronOnly
  <2>2. CronDrives' /\ OneBusy /\ SoloInv /\ AnswerIsTrue /\ TypeInv
    BY <2>1, CronAlone DEF CronInv, EarnedInv
  <2> QED BY <2>1, <2>2, LedgerStep
<1> QED BY <1>1, <1>2, CronAlways, PTL DEF MCSpec, CronKeepsLedger

\* The same without the cast: an outbox with no operator requests refines the
\* ledger, whatever the number of rows, orgs and cron firings.
THEOREM OutboxRefinesLedger == ASSUME Admins = {} PROVE Spec => LedgerSpec
<1> DEFINE Inv == TypeInv /\ EarnedInv /\ OneCycle /\ SoloInv
<1>1. Init => Inv /\ Ledger!Init
  <2>1. Init => OneCycle
    BY DEF Init, OneCycle, Workers
  <2>2. Init => SoloInv
    BY DEF Init, SoloInv, Resting, Snapshot, Held
  <2> QED BY <2>1, <2>2, InitTypeInv, InitEarned, LedgerInit
<1>2. Inv /\ [Next]_vars => Inv' /\ [Ledger!Next]_<<[d \in Rows |-> Entry(status[d])], accepted>>
  <2> SUFFICES ASSUME Inv, [Next]_vars
               PROVE  Inv' /\ [Ledger!Next]_<<[d \in Rows |-> Entry(status[d])], accepted>>
    OBVIOUS
  <2>1. CronDrives /\ CronDrives'
    BY DEF CronDrives
  <2>2. OneBusy /\ TypeOK /\ AnswerIsTrue
    BY <2>1, CronAlone DEF TypeInv, EarnedInv
  <2>3. Inv'
    BY <2>1, <2>2, TypeStep, EarnedStep, OneCycleStep, SoloStep
  <2>4. Ledger!Next \/ UNCHANGED <<status, accepted>>
    BY <2>1, <2>2, LedgerStep
  <2> QED BY <2>3, <2>4
<1> QED BY <1>1, <1>2, PTL DEF Spec, LedgerSpec, Ledger!Spec
=============================================================================
