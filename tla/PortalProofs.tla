----------------------------- MODULE PortalProofs -----------------------------
(***************************************************************************)
(* Proofs about Portal and Dashboard.  Portal, for any dealers, keys,      *)
(* requests, edits and faults: the gate answers by what dealer and key     *)
(* allow, content is the dealer's own and as fresh as cache and time-out   *)
(* make it, the local profile stands in for a failure within the TTL only, *)
(* and the hub is asked once within the TTL unless two requests missed     *)
(* together.  Dashboard, for any organizations, views, clicks and order of *)
(* answers: the window shows its address and its choice, saves go where    *)
(* they were shown to go, issued keys are seen.                            *)
(***************************************************************************)
EXTENDS MCPortal, FiniteSetTheorems, TLAPS

-----------------------------------------------------------------------------
(* Types.                                                                  *)

RecordType ==
  /\ gone \in [Dealers -> [0..MaxVersion -> 0..Later]]
  /\ failedAt \in [Dealers -> Times \cup {Never}]
  /\ triedAt \in [Dealers -> Times \cup {Never}]

TypeInv == TypeOK /\ RecordType

\* Requests are asked of something.
LEMMA RequestExists == (CHOOSE q \in Request : TRUE) \in Request
<1>1. PICK d \in Dealers : TRUE
  BY PortalAssumption
<1>2. PICK k \in Keys : TRUE
  BY PortalAssumption
<1>3. [dealer |-> d, key |-> k, module |-> "events", origin |-> NoOrigin] \in Request
  BY <1>1, <1>2 DEF Request
<1> QED
  BY <1>3

\* What an answer does to the handler's locals.
LEMMA AnswerType ==
  ASSUME TypeInv, NEW r \in Requests, NEW status \in {0, 200, 401, 403, 404, 429, 500}, NEW live \in Live,
         Answer(r, status, live)
  PROVE  /\ pc' \in [Requests -> {"idle", "settings", "key", "content", "miss", "calling", "back"}]
         /\ seen' \in [Requests -> Settings] /\ since' \in [Requests -> Times]
         /\ fetched' \in [Requests -> Live] /\ answer' \in [Requests -> Answers]
<1>1. Open \in Settings
  BY DEF Open, Settings
<1>2. 0 \in Times /\ Nothing \in Live
  BY PortalAssumption DEF Times, Live
<1>3. [status |-> status, live |-> live, at |-> now] \in Answers
  BY DEF Answers, TypeInv, TypeOK
<1> HIDE DEF Open, Settings, Live, Nothing, Answers, Times
<1> QED
  BY <1>1, <1>2, <1>3 DEF Answer, Goto, TypeInv, TypeOK

\* Every step keeps the types.
LEMMA TypeInit == Init => TypeInv
<1> SUFFICES ASSUME Init PROVE TypeInv
  OBVIOUS
<1>1. Nothing \in Live /\ 0 \in Times /\ 0 \in 0..MaxVersion /\ Later \in 0..Later
  BY PortalAssumption DEF Live, Times, Later
<1>2. Open \in Settings /\ [active |-> TRUE, modules |-> Modules, origins |-> {}] \in Key
  BY DEF Open, Settings, Key
<1>3. [status |-> 0, live |-> Nothing, at |-> 0] \in Answers
  BY <1>1 DEF Answers
<1>4. settings \in [Dealers -> Settings] /\ keys \in [Keys -> Key] /\ seen \in [Requests -> Settings]
  BY <1>2 DEF Init
<1>5. asked \in [Requests -> Request]
  BY RequestExists DEF Init
<1>6. answer \in [Requests -> Answers] /\ fetched \in [Requests -> Live]
  BY <1>1, <1>3 DEF Init
<1>7. cache \in [Dealers -> [live : Live, at : Times \cup {Never}]]
  BY <1>1 DEF Init
<1>8. RecordType
  BY <1>1 DEF Init, RecordType
<1>9. hub \in [Dealers -> [version : 0..MaxVersion, up : BOOLEAN]]
  BY <1>1 DEF Init
<1>10. pc \in [Requests -> {"idle", "settings", "key", "content", "miss", "calling", "back"}]
       /\ steady \in [Requests -> BOOLEAN]
  BY DEF Init
<1>11. since \in [Requests -> Times] /\ now \in Times
  BY <1>1 DEF Init
<1>12. edits \in 0..MaxEdits /\ faults \in 0..MaxFaults
  BY PortalAssumption DEF Init
<1> QED
  BY <1>4, <1>5, <1>6, <1>7, <1>8, <1>9, <1>10, <1>11, <1>12 DEF TypeInv, TypeOK

\* A handler that answers changes little else.
LEMMA TypeAnswer ==
  ASSUME TypeInv, NEW r \in Requests, NEW status \in {0, 200, 401, 403, 404, 429, 500}, NEW live \in Live,
         Answer(r, status, live), UNCHANGED <<gate, hub, asked, now, edits, gone, triedAt>>,
         cache' \in [Dealers -> [live : Live, at : Times \cup {Never}]],
         failedAt' \in [Dealers -> Times \cup {Never}],
         steady' \in [Requests -> BOOLEAN], faults' \in 0..MaxFaults
  PROVE  TypeInv'
<1>1. /\ pc' \in [Requests -> {"idle", "settings", "key", "content", "miss", "calling", "back"}]
      /\ seen' \in [Requests -> Settings] /\ since' \in [Requests -> Times]
      /\ fetched' \in [Requests -> Live] /\ answer' \in [Requests -> Answers]
  BY AnswerType
<1> HIDE DEF Live, Nothing, Answers, Request, Key, Settings, Times
<1> QED
  BY <1>1 DEF gate, TypeInv, TypeOK, RecordType

LEMMA TypeGate ==
  ASSUME TypeInv, NEW r \in Requests,
         \/ \E q \in Request : Arrive(r, q)
         \/ ReadSettings(r) \/ GateFails(r)
         \/ \E withinLimits \in BOOLEAN : ReadKey(r, withinLimits)
  PROVE  TypeInv'
<1> Nothing \in Live
  BY DEF Live
<1>0. /\ cache \in [Dealers -> [live : Live, at : Times \cup {Never}]]
      /\ failedAt \in [Dealers -> Times \cup {Never}]
      /\ steady \in [Requests -> BOOLEAN] /\ faults \in 0..MaxFaults
  BY DEF TypeInv, TypeOK, RecordType
<1>1. ASSUME NEW q \in Request, Arrive(r, q) PROVE TypeInv'
  <2>1. [status |-> 0, live |-> Nothing, at |-> now] \in Answers
    BY DEF Answers, TypeInv, TypeOK
  <2> HIDE DEF Live, Nothing, Answers, Request, Key, Settings, Times
  <2> QED
    BY <1>1, <2>1 DEF Arrive, Goto, gate, record, TypeInv, TypeOK, RecordType
<1>2. CASE ReadSettings(r)
  <2>1. CASE settings[asked[r].dealer].on
    <3>1. settings[asked[r].dealer] \in Settings
      BY DEF Request, TypeInv, TypeOK
    <3> HIDE DEF Live, Nothing, Answers, Request, Key, Settings, Times
    <3> QED
      BY <1>2, <2>1, <3>1 DEF ReadSettings, gate, call, record, Goto, TypeInv, TypeOK, RecordType
  <2>2. CASE ~settings[asked[r].dealer].on
    <3>1. Answer(r, 404, Nothing) /\ UNCHANGED <<gate, hub, cache, asked, steady, now, record, edits, faults>>
      BY <1>2, <2>2, Zenon DEF ReadSettings
    <3> QED
      BY <1>0, <3>1, TypeAnswer DEF record
  <2> QED
    BY <2>1, <2>2
<1>3. CASE GateFails(r)
  <2>1. (IF pc[r] = "settings" THEN 500 ELSE 401) \in {0, 200, 401, 403, 404, 429, 500}
    OBVIOUS
  <2>2. faults' \in 0..MaxFaults /\ steady' \in [Requests -> BOOLEAN]
    BY <1>0, <1>3, PortalAssumption DEF GateFails
  <2>3. Answer(r, IF pc[r] = "settings" THEN 500 ELSE 401, Nothing)
        /\ UNCHANGED <<gate, hub, cache, asked, now, record, edits>>
    BY <1>3, Zenon DEF GateFails
  <2> QED
    BY <1>0, <2>1, <2>2, <2>3, TypeAnswer DEF record
<1>4. ASSUME NEW withinLimits \in BOOLEAN, ReadKey(r, withinLimits) PROVE TypeInv'
  <2>1. CASE Goto(r, "content") /\ UNCHANGED <<gate, hub, cache, asked, seen, call, reply, now, record, edits, faults>>
    <3> HIDE DEF Live, Nothing, Answers, Request, Key, Settings, Times
    <3> QED
      BY <2>1 DEF gate, call, reply, record, Goto, TypeInv, TypeOK, RecordType
  <2>2. CASE \E status \in {401, 403, 429} :
               Answer(r, status, Nothing) /\ UNCHANGED <<gate, hub, cache, asked, steady, now, record, edits, faults>>
    BY <1>0, <2>2, TypeAnswer DEF record
  <2> QED
    BY <1>4, <2>1, <2>2 DEF ReadKey, reply
<1> QED
  BY <1>1, <1>2, <1>3, <1>4

LEMMA TypeContent ==
  ASSUME TypeInv, NEW r \in Requests,
         Hit(r) \/ Miss(r) \/ Call(r) \/ HubReads(r) \/ Returns(r) \/ Fails(r)
  PROVE  TypeInv'
<1> Nothing \in Live
  BY DEF Live
<1>0. /\ cache \in [Dealers -> [live : Live, at : Times \cup {Never}]]
      /\ failedAt \in [Dealers -> Times \cup {Never}] /\ fetched \in [Requests -> Live]
      /\ steady \in [Requests -> BOOLEAN] /\ faults \in 0..MaxFaults /\ now \in Times
      /\ asked[r].dealer \in Dealers
  BY DEF TypeInv, TypeOK, RecordType, Request
<1>1. CASE Hit(r)
  <2>1. Answer(r, 200, cache[asked[r].dealer].live) /\ cache[asked[r].dealer].live \in Live
    BY <1>0, <1>1 DEF Hit, Entry
  <2> QED
    BY <1>0, <1>1, <2>1, TypeAnswer DEF Hit, record
<1>2. CASE Miss(r)
  <2> HIDE DEF Live, Nothing, Answers, Request, Key, Settings, Times
  <2> QED
    BY <1>2 DEF Miss, Goto, gate, call, reply, TypeInv, TypeOK, RecordType
<1>3. CASE Call(r)
  <2> HIDE DEF Live, Nothing, Answers, Request, Key, Settings, Times
  <2> QED
    BY <1>0, <1>3 DEF Call, Goto, gate, reply, TypeInv, TypeOK, RecordType
<1>4. CASE HubReads(r)
  <2>1. {[dealer |-> asked[r].dealer, version |-> hub[asked[r].dealer].version]} \in Live
    BY <1>0 DEF Live, Content, TypeInv, TypeOK
  <2> HIDE DEF Live, Nothing, Answers, Request, Key, Settings, Times
  <2> QED
    BY <1>0, <1>4, <2>1 DEF HubReads, Goto, gate, reply, record, TypeInv, TypeOK, RecordType
<1>5. CASE Returns(r)
  <2>1. cache' \in [Dealers -> [live : Live, at : Times \cup {Never}]]
    BY <1>0, <1>5 DEF Returns, Store
  <2> QED
    BY <1>0, <1>5, <2>1, TypeAnswer DEF Returns, record
<1>6. CASE Fails(r)
  <2>1. cache' \in [Dealers -> [live : Live, at : Times \cup {Never}]]
        /\ failedAt' \in [Dealers -> Times \cup {Never}]
    BY <1>0, <1>6 DEF Fails, Store
  <2>2. faults' \in 0..MaxFaults
    BY <1>0, <1>6, PortalAssumption DEF Fails
  <2> QED
    BY <1>0, <1>6, <2>1, <2>2, TypeAnswer DEF Fails
<1> QED
  BY <1>1, <1>2, <1>3, <1>4, <1>5, <1>6

LEMMA TypeWorld ==
  ASSUME TypeInv,
         \/ \E d \in Dealers : \E s \in Settings : PutSettings(d, s)
         \/ \E k \in Keys : \E v \in Key : PatchKey(k, v)
         \/ \E d \in Dealers : Publish(d) \/ Outage(d) \/ Recovery(d)
         \/ Tick
  PROVE  TypeInv'
<1> USE PortalAssumption
<1>0. ASSUME NEW touched, Disturb(touched) PROVE steady' \in [Requests -> BOOLEAN]
  BY <1>0, Zenon DEF Disturb
<1>1. ASSUME NEW d \in Dealers, NEW s \in Settings, PutSettings(d, s) PROVE TypeInv'
  <2>1. edits' \in 0..MaxEdits /\ settings' \in [Dealers -> Settings] /\ steady' \in [Requests -> BOOLEAN]
    <3> HIDE DEF Settings
    <3> QED
      BY <1>0, <1>1 DEF PutSettings, Edit, TypeInv, TypeOK
  <2> HIDE DEF Live, Nothing, Answers, Request, Key, Settings, Times
  <2> QED
    BY <1>1, <2>1 DEF PutSettings, Edit, handler, call, record, TypeInv, TypeOK, RecordType
<1>2. ASSUME NEW k \in Keys, NEW v \in Key, PatchKey(k, v) PROVE TypeInv'
  <2>1. edits' \in 0..MaxEdits /\ keys' \in [Keys -> Key] /\ steady' \in [Requests -> BOOLEAN]
    <3> HIDE DEF Key
    <3> QED
      BY <1>0, <1>2 DEF PatchKey, Edit, TypeInv, TypeOK
  <2> HIDE DEF Live, Nothing, Answers, Request, Key, Settings, Times
  <2> QED
    BY <1>2, <2>1 DEF PatchKey, Edit, handler, call, record, TypeInv, TypeOK, RecordType
<1>3. ASSUME NEW d \in Dealers, Publish(d) PROVE TypeInv'
  <2>1. hub' \in [Dealers -> [version : 0..MaxVersion, up : BOOLEAN]]
    <3> DEFINE R == [version : 0..MaxVersion, up : BOOLEAN]
    <3>1. ASSUME NEW h \in R, NEW v \in 0..MaxVersion PROVE [h EXCEPT !.version = v] \in R
      OBVIOUS
    <3>2. hub \in [Dealers -> R]
      BY DEF TypeInv, TypeOK
    <3>3. hub[d].version + 1 \in 0..MaxVersion
      BY <1>3, <3>2 DEF Publish
    <3>4. hub' = [hub EXCEPT ![d] = [hub[d] EXCEPT !.version = hub[d].version + 1]]
      BY <1>3, Zenon DEF Publish
    <3> HIDE DEF R
    <3>5. hub[d] \in R
      BY <3>2
    <3>6. hub' \in [Dealers -> R]
      BY <3>1, <3>2, <3>3, <3>4, <3>5, Zenon
    <3> QED
      BY <3>6 DEF R
  <2>2. now \in 0..Later /\ hub[d].version \in 0..MaxVersion
    BY DEF TypeInv, TypeOK, Times, Later
  <2>3. gone' \in [Dealers -> [0..MaxVersion -> 0..Later]]
    BY <1>3, <2>2 DEF Publish, TypeInv, RecordType
  <2> HIDE DEF Live, Nothing, Answers, Request, Key, Settings, Times
  <2> QED
    BY <1>3, <2>1, <2>3 DEF Publish, gate, handler, call, reply, TypeInv, TypeOK, RecordType
<1>4. ASSUME NEW d \in Dealers, Outage(d) \/ Recovery(d) PROVE TypeInv'
  <2>1. hub' \in [Dealers -> [version : 0..MaxVersion, up : BOOLEAN]]
    <3> DEFINE R == [version : 0..MaxVersion, up : BOOLEAN]
    <3>1. ASSUME NEW h \in R, NEW up \in BOOLEAN PROVE [h EXCEPT !.up = up] \in R
      OBVIOUS
    <3>2. hub \in [Dealers -> R]
      BY DEF TypeInv, TypeOK
    <3>3. PICK up \in BOOLEAN : hub' = [hub EXCEPT ![d] = [hub[d] EXCEPT !.up = up]]
      BY <1>4, Zenon DEF Outage, Recovery
    <3> HIDE DEF R
    <3>4. hub[d] \in R
      BY <3>2
    <3>5. hub' \in [Dealers -> R]
      BY <3>1, <3>2, <3>3, <3>4, Zenon
    <3> QED
      BY <3>5 DEF R
  <2>2. faults' \in 0..MaxFaults
    BY <1>4 DEF Outage, Recovery, TypeInv, TypeOK
  <2> HIDE DEF Live, Nothing, Answers, Request, Key, Settings, Times
  <2> QED
    BY <1>4, <2>1, <2>2 DEF Outage, Recovery, gate, handler, call, reply, record, TypeInv, TypeOK, RecordType
<1>5. CASE Tick
  <2>1. now' \in Times
    BY <1>5 DEF Tick, Times, TypeInv, TypeOK
  <2> HIDE DEF Live, Nothing, Answers, Request, Key, Settings, Times
  <2> QED
    BY <1>5, <2>1 DEF Tick, gate, handler, call, reply, record, TypeInv, TypeOK, RecordType
<1> QED
  BY <1>1, <1>2, <1>3, <1>4, <1>5

\* What each step keeps is put together from what its parts keep.
LEMMA TypeStep == TypeInv /\ [Next]_vars => TypeInv'
<1> SUFFICES ASSUME TypeInv, [Next]_vars PROVE TypeInv'
  OBVIOUS
<1>1. CASE UNCHANGED vars
  <2> HIDE DEF Live, Nothing, Answers, Request, Key, Settings, Times
  <2> QED
    BY <1>1 DEF vars, gate, handler, call, reply, record, TypeInv, TypeOK, RecordType
<1>2. ASSUME NEW r \in Requests, Serve(r) PROVE TypeInv'
  BY <1>2, TypeGate, TypeContent DEF Serve
<1> QED
  BY <1>1, <1>2, TypeWorld DEF Next

\* The gateway's tables, its cache and what each request has read and was
\* answered keep their types.
THEOREM PortalType == Spec => []TypeOK
<1>1. Spec => []TypeInv
  BY TypeInit, TypeStep, PTL DEF Spec
<1> QED
  BY <1>1, PTL DEF TypeInv

-----------------------------------------------------------------------------
(* What a handler leaves alone.                                            *)

Same(p) ==
  /\ pc'[p] = pc[p] /\ asked'[p] = asked[p] /\ seen'[p] = seen[p] /\ since'[p] = since[p]
  /\ fetched'[p] = fetched[p] /\ answer'[p] = answer[p] /\ steady'[p] = steady[p]

\* A request's answer to itself.
LEMMA AnswerSame ==
  ASSUME TypeInv, NEW r \in Requests, NEW status, NEW live, Answer(r, status, live), NEW p \in Requests \ {r}
  PROVE  /\ pc'[p] = pc[p] /\ seen'[p] = seen[p] /\ since'[p] = since[p]
         /\ fetched'[p] = fetched[p] /\ answer'[p] = answer[p]
  BY DEF Answer, Goto, TypeInv, TypeOK

\* Serving one request leaves the others', and the gate's tables, alone.
LEMMA OthersSame ==
  ASSUME TypeInv, NEW r \in Requests, Serve(r), NEW p \in Requests \ {r}
  PROVE  Same(p) /\ UNCHANGED gate
<1> USE DEF Same
<1>0. /\ DOMAIN pc = Requests /\ DOMAIN asked = Requests /\ DOMAIN seen = Requests /\ DOMAIN since = Requests
      /\ DOMAIN fetched = Requests /\ DOMAIN answer = Requests /\ DOMAIN steady = Requests
  BY DEF TypeInv, TypeOK
<1>1. ASSUME NEW q \in Request, Arrive(r, q) PROVE Same(p) /\ UNCHANGED gate
  BY <1>0, <1>1 DEF Arrive, Goto
<1>2. CASE ReadSettings(r)
  <2>1. CASE Answer(r, 404, Nothing)
    BY <1>2, <2>1, AnswerSame DEF ReadSettings
  <2>2. CASE ~Answer(r, 404, Nothing)
    BY <1>0, <1>2, <2>2 DEF ReadSettings, Goto, call
  <2> QED
    BY <2>1, <2>2
<1>3. ASSUME NEW withinLimits \in BOOLEAN, ReadKey(r, withinLimits) PROVE Same(p) /\ UNCHANGED gate
  <2>1. UNCHANGED <<gate, asked, steady>>
    BY <1>3, Zenon DEF ReadKey
  <2>2. \/ Goto(r, "content") /\ UNCHANGED <<seen, call, answer>>
        \/ \E status \in {401, 403, 429} : Answer(r, status, Nothing)
    BY <1>3 DEF ReadKey
  <2> QED
    BY <1>0, <2>1, <2>2, AnswerSame DEF Goto, call
<1>4. CASE GateFails(r)
  <2>1. Answer(r, IF pc[r] = "settings" THEN 500 ELSE 401, Nothing)
        /\ UNCHANGED <<gate, asked>> /\ steady' = [steady EXCEPT ![r] = FALSE]
    BY <1>4, Zenon DEF GateFails
  <2> QED
    BY <1>0, <2>1, AnswerSame
<1>5. CASE Hit(r)
  BY <1>5, AnswerSame DEF Hit
<1>6. CASE Miss(r) \/ Call(r) \/ HubReads(r)
  BY <1>0, <1>6 DEF Miss, Call, HubReads, Goto, call, reply
<1>7. CASE Returns(r)
  BY <1>7, AnswerSame DEF Returns
<1>8. CASE Fails(r)
  BY <1>8, AnswerSame DEF Fails
<1> QED
  BY <1>1, <1>2, <1>3, <1>4, <1>5, <1>6, <1>7, <1>8 DEF Serve

-----------------------------------------------------------------------------
(* The gate.  What makes GateExact inductive is that the settings a         *)
(* request has read are still the dealer's when nothing was edited.        *)

Past == {"content", "miss", "calling", "back"}

GateOf(r) == steady[r] =>
  /\ pc[r] = "key" => seen[r] = settings[asked[r].dealer] /\ seen[r].on
  /\ pc[r] \in Past \/ answer[r].status = 200 => Passes(asked[r])
  /\ answer[r].status \in {401, 403, 404} => ~Passes(asked[r])

GateInv == \A r \in Requests : GateOf(r)

\* Nothing passes or is turned away by other tables than it was.
LEMMA PassesSame == UNCHANGED gate => \A q : Passes(q)' <=> Passes(q)
  BY DEF Passes, gate

LEMMA GateInit == Init => GateInv
  BY DEF Init, GateInv, GateOf, Past

LEMMA GateServe ==
  ASSUME TypeInv, NEW r \in Requests, Serve(r), GateOf(r)
  PROVE  GateOf(r)'
<1>0. /\ DOMAIN pc = Requests /\ DOMAIN asked = Requests /\ DOMAIN seen = Requests
      /\ DOMAIN answer = Requests /\ DOMAIN steady = Requests
  BY DEF TypeInv, TypeOK
<1>1. ASSUME NEW q \in Request, Arrive(r, q) PROVE GateOf(r)'
  BY <1>0, <1>1 DEF Arrive, Goto, GateOf, Past
<1>2. CASE ReadSettings(r)
  <2> UNCHANGED <<settings, keys, asked, steady>> /\ \A q : Passes(q)' <=> Passes(q)
    BY <1>2, PassesSame DEF ReadSettings, gate
  <2>1. CASE settings[asked[r].dealer].on
    <3>1. pc'[r] = "key" /\ seen'[r] = settings[asked[r].dealer] /\ answer'[r] = answer[r]
      BY <1>0, <1>2, <2>1 DEF ReadSettings, Goto
    <3> QED
      BY <2>1, <3>1 DEF GateOf, Past
  <2>2. CASE ~settings[asked[r].dealer].on
    <3>1. pc'[r] = "idle" /\ answer'[r].status = 404
      BY <1>0, <1>2, <2>2 DEF ReadSettings, Goto, Answer
    <3>2. ~Passes(asked[r])
      BY <2>2 DEF Passes
    <3> QED
      BY <3>1, <3>2 DEF GateOf, Past
  <2> QED
    BY <2>1, <2>2
<1>3. ASSUME NEW withinLimits \in BOOLEAN, ReadKey(r, withinLimits) PROVE GateOf(r)'
  <2> DEFINE k == keys[asked[r].key]
             fits == KeyFits(asked[r], k)
             fine == ModuleAllowed(seen[r], k, asked[r].module) /\ OriginAllowed(seen[r], k, asked[r].origin)
  <2> UNCHANGED <<asked, steady>> /\ pc[r] = "key" /\ \A q : Passes(q)' <=> Passes(q)
    BY <1>3, PassesSame DEF ReadKey
  <2>1. steady[r] => (Passes(asked[r]) <=> fits /\ fine)
    BY DEF GateOf, Passes, KeyFits, ModuleAllowed, ModuleOn, OriginAllowed
  <2>2. \/ fits /\ fine /\ pc'[r] = "content" /\ answer'[r] = answer[r]
        \/ ~fits /\ pc'[r] = "idle" /\ answer'[r].status = 401
        \/ fits /\ ~fine /\ pc'[r] = "idle" /\ answer'[r].status = 403
        \/ pc'[r] = "idle" /\ answer'[r].status = 429
    <3> HIDE DEF fits, fine
    <3>1. LET status == IF ~fits THEN 401 ELSE IF ~fine THEN 403 ELSE IF ~withinLimits THEN 429 ELSE 200
          IN  IF status = 200 THEN Goto(r, "content") /\ UNCHANGED <<seen, call, answer>>
              ELSE Answer(r, status, Nothing)
      BY <1>3, Zenon DEF ReadKey, fits, fine
    <3> QED
      BY <1>0, <3>1 DEF Goto, Answer
  <2> HIDE DEF fits, fine
  <2> QED
    BY <2>1, <2>2 DEF GateOf, Past
<1>4. CASE GateFails(r)
  BY <1>0, <1>4 DEF GateFails, GateOf
<1>5. CASE Hit(r) \/ Miss(r) \/ Call(r) \/ HubReads(r) \/ Returns(r) \/ Fails(r)
  <2>1. UNCHANGED <<asked, steady>> /\ pc[r] \in Past /\ \A q : Passes(q)' <=> Passes(q)
    BY <1>5, PassesSame DEF Hit, Miss, Call, HubReads, Returns, Fails, Past, reply
  <2>2. \/ pc'[r] \in Past /\ answer'[r] = answer[r]
        \/ pc'[r] = "idle" /\ answer'[r].status = 200
    BY <1>0, <1>5 DEF Hit, Miss, Call, HubReads, Returns, Fails, Past, reply, Goto, Answer
  <2> QED
    BY <2>1, <2>2 DEF GateOf, Past
<1> QED
  BY <1>1, <1>2, <1>3, <1>4, <1>5 DEF Serve

LEMMA GateWorld ==
  ASSUME TypeInv, GateInv, NEW r \in Requests,
         \/ \E d \in Dealers : \E s \in Settings : PutSettings(d, s)
         \/ \E k \in Keys : \E v \in Key : PatchKey(k, v)
         \/ \E d \in Dealers : Publish(d) \/ Outage(d) \/ Recovery(d)
         \/ Tick
  PROVE  GateOf(r)'
<1>0. GateOf(r)
  BY DEF GateInv
<1>1. ASSUME NEW d \in Dealers, NEW s \in Settings, PutSettings(d, s) PROVE GateOf(r)'
  <2>1. UNCHANGED <<pc, asked, seen, answer, keys>>
    BY <1>1 DEF PutSettings, Edit, handler
  <2>2. CASE asked[r].dealer = d
    BY <1>1, <2>2 DEF PutSettings, Disturb, GateOf
  <2>3. CASE asked[r].dealer # d
    <3>1. steady'[r] = steady[r] /\ settings'[asked[r].dealer] = settings[asked[r].dealer]
      BY <1>1, <2>3 DEF PutSettings, Disturb, TypeInv, TypeOK, Request
    <3>2. Passes(asked[r])' <=> Passes(asked[r])
      BY <2>1, <3>1 DEF Passes
    <3> QED
      BY <1>0, <2>1, <3>1, <3>2 DEF GateOf
  <2> QED
    BY <2>2, <2>3
<1>2. ASSUME NEW k \in Keys, NEW v \in Key, PatchKey(k, v) PROVE GateOf(r)'
  <2>1. UNCHANGED <<pc, asked, seen, answer, settings>>
    BY <1>2 DEF PatchKey, Edit, handler
  <2>2. CASE asked[r].key = k
    BY <1>2, <2>2 DEF PatchKey, Disturb, GateOf
  <2>3. CASE asked[r].key # k
    <3>1. steady'[r] = steady[r] /\ keys'[asked[r].key] = keys[asked[r].key]
      BY <1>2, <2>3 DEF PatchKey, Disturb, TypeInv, TypeOK, Request
    <3>2. Passes(asked[r])' <=> Passes(asked[r])
      BY <2>1, <3>1 DEF Passes
    <3> QED
      BY <1>0, <2>1, <3>1, <3>2 DEF GateOf
  <2> QED
    BY <2>2, <2>3
<1>3. ASSUME UNCHANGED <<gate, handler, reply>> PROVE GateOf(r)'
  BY <1>0, <1>3, PassesSame DEF GateOf, gate, handler, reply
<1> QED
  BY <1>1, <1>2, <1>3 DEF Publish, Outage, Recovery, Tick

LEMMA GateStep == TypeInv /\ GateInv /\ [Next]_vars => GateInv'
<1> SUFFICES ASSUME TypeInv, GateInv, [Next]_vars, NEW p \in Requests PROVE GateOf(p)'
  BY DEF GateInv
<1>0. GateOf(p)
  BY DEF GateInv
<1>1. CASE UNCHANGED vars
  BY <1>0, <1>1, PassesSame DEF vars, gate, handler, reply, GateOf
<1>2. ASSUME NEW r \in Requests, Serve(r) PROVE GateOf(p)'
  <2>1. CASE p = r
    BY <1>0, <1>2, <2>1, GateServe
  <2>2. CASE p # r
    <3>1. Same(p) /\ UNCHANGED gate
      BY <1>2, <2>2, OthersSame
    <3> QED
      BY <1>0, <3>1, PassesSame DEF GateOf, Same, gate
  <2> QED
    BY <2>1, <2>2
<1> QED
  BY <1>1, <1>2, GateWorld DEF Next

\* A request during which nothing was edited and no call failed is answered
\* by what the dealer and the key allow, whatever was edited before, where a
\* local development origin is always allowed.
THEOREM PortalGate == Spec => []GateExact
<1>1. GateInv => GateExact
  BY DEF GateInv, GateOf, GateExact, Admitted, Past
<1>2. Init => TypeInv /\ GateInv
  BY TypeInit, GateInit
<1>3. TypeInv /\ GateInv /\ [Next]_vars => (TypeInv /\ GateInv)'
  BY TypeStep, GateStep
<1> QED
  BY <1>1, <1>2, <1>3, PTL DEF Spec

-----------------------------------------------------------------------------
(* The content.  An answer inherits what it promises from the call to the   *)
(* hub, or from the cache entry, it was made of.                           *)

CallOf(r) ==
  /\ pc[r] \in {"calling", "back"} => since[r] <= now /\ now - since[r] <= Timeout
  /\ pc[r] = "back" =>
       /\ fetched[r] # Nothing
       /\ \A c \in fetched[r] : c.dealer = asked[r].dealer /\ gone[c.dealer][c.version] >= since[r]

AnswerOf(r) ==
  /\ answer[r].at <= now
  /\ \A c \in answer[r].live :
       c.dealer = asked[r].dealer /\ gone[c.dealer][c.version] > answer[r].at - TTL - Timeout
  /\ answer[r].status = 200 /\ answer[r].live = Nothing => answer[r].at - failedAt[asked[r].dealer] < TTL

EntryOf(d) ==
  /\ cache[d].at <= now /\ failedAt[d] <= now
  /\ \A c \in cache[d].live : c.dealer = d /\ gone[c.dealer][c.version] >= cache[d].at - Timeout
  /\ cache[d].live = Nothing => failedAt[d] >= cache[d].at

\* What the hub still shows is not gone.
ShownOf(d) == \A v \in 0..MaxVersion : v >= hub[d].version => gone[d][v] = Later

ContentInv ==
  /\ \A r \in Requests : CallOf(r) /\ AnswerOf(r)
  /\ \A d \in Dealers : EntryOf(d) /\ ShownOf(d)

\* The types the steps below need, of one request and of one dealer.
LEMMA RequestTypes ==
  ASSUME TypeInv, NEW r \in Requests
  PROVE  /\ asked[r].dealer \in Dealers /\ since[r] \in Int /\ now \in Int /\ answer[r].at \in Int
         /\ fetched[r] \subseteq Content /\ answer[r].live \subseteq Content
         /\ TTL \in Nat \ {0} /\ Timeout \in Nat /\ MaxVersion \in Nat
<1>1. asked[r].dealer \in Dealers
  BY DEF TypeInv, TypeOK, Request
<1>2. since[r] \in Int /\ now \in Int
  BY DEF TypeInv, TypeOK, Times
<1>3. answer[r] \in Answers /\ fetched[r] \in Live
  BY DEF TypeInv, TypeOK
<1>4. answer[r].at \in Int /\ answer[r].live \in Live
  BY <1>3 DEF Answers, Times
<1>5. \A live \in Live : live \subseteq Content
  BY DEF Live, Nothing
<1> QED
  BY <1>1, <1>2, <1>3, <1>4, <1>5, PortalAssumption

LEMMA DealerTypes ==
  ASSUME TypeInv, NEW d \in Dealers
  PROVE  /\ cache[d].at \in Int /\ cache[d].live \subseteq Content /\ failedAt[d] \in Int /\ triedAt[d] \in Int
         /\ hub[d].version \in 0..MaxVersion /\ now \in Int /\ now < Later
         /\ \A v \in 0..MaxVersion : gone[d][v] \in Int
         /\ DOMAIN cache = Dealers /\ DOMAIN failedAt = Dealers /\ DOMAIN triedAt = Dealers /\ DOMAIN gone = Dealers
<1>1. Never \in Int
  BY PortalAssumption DEF Never
<1>2. cache[d] \in [live : Live, at : Times \cup {Never}] /\ DOMAIN cache = Dealers
  BY DEF TypeInv, TypeOK
<1>3. cache[d].at \in Int /\ cache[d].live \in Live
  BY <1>1, <1>2 DEF Times
<1>4. \A live \in Live : live \subseteq Content
  BY DEF Live, Nothing
<1>5. failedAt[d] \in Int /\ triedAt[d] \in Int
  BY <1>1 DEF TypeInv, RecordType, Times
<1>6. DOMAIN failedAt = Dealers /\ DOMAIN triedAt = Dealers /\ DOMAIN gone = Dealers
  BY DEF TypeInv, RecordType
<1>7. hub[d].version \in 0..MaxVersion
  BY DEF TypeInv, TypeOK
<1>8. now \in Int /\ now < Later
  BY PortalAssumption DEF TypeInv, TypeOK, Times, Later
<1>9. \A v \in 0..MaxVersion : gone[d][v] \in Int
  <2>1. gone[d] \in [0..MaxVersion -> 0..Later]
    BY DEF TypeInv, RecordType
  <2>2. \A t \in 0..Later : t \in Int
    OBVIOUS
  <2> QED
    BY <2>1, <2>2, Zenon
<1> QED
  BY <1>2, <1>3, <1>4, <1>5, <1>6, <1>7, <1>8, <1>9

LEMMA ContentTypes == \A c \in Content : c.dealer \in Dealers /\ c.version \in 0..MaxVersion
  BY DEF Content

LEMMA ContentInit == Init => ContentInv
<1> SUFFICES ASSUME Init PROVE ContentInv
  OBVIOUS
<1>1. ASSUME NEW r \in Requests PROVE CallOf(r) /\ AnswerOf(r)
  BY DEF Init, CallOf, AnswerOf, Nothing
<1>2. ASSUME NEW d \in Dealers PROVE EntryOf(d) /\ ShownOf(d)
  BY PortalAssumption DEF Init, EntryOf, ShownOf, Nothing, Never
<1> QED
  BY <1>1, <1>2 DEF ContentInv

\* A step that touches neither the clock nor what is recorded, and one
\* request only, keeps what holds of the others.
LEMMA ContentOthers ==
  ASSUME TypeInv, NEW p \in Requests, Same(p), CallOf(p), AnswerOf(p), UNCHANGED <<now, gone>>,
         failedAt'[asked[p].dealer] \in {failedAt[asked[p].dealer], now}, EntryOf(asked[p].dealer)
  PROVE  CallOf(p)' /\ AnswerOf(p)'
<1>1. CallOf(p)'
  BY DEF CallOf, Same
<1>2. failedAt'[asked[p].dealer] \in Int /\ failedAt'[asked[p].dealer] >= failedAt[asked[p].dealer]
  BY RequestTypes, DealerTypes DEF EntryOf
<1>3. AnswerOf(p)'
  BY <1>2, RequestTypes, DealerTypes DEF AnswerOf, Same
<1> QED
  BY <1>1, <1>3

\* What an answer given now promises.
LEMMA AnswerMade ==
  ASSUME TypeInv, NEW r \in Requests, NEW status, NEW live \in SUBSET Content, Answer(r, status, live),
         UNCHANGED <<asked, now, gone>>, failedAt'[asked[r].dealer] \in Int,
         \A c \in live : c.dealer = asked[r].dealer /\ gone[c.dealer][c.version] > now - TTL - Timeout,
         status = 200 /\ live = Nothing => now - failedAt'[asked[r].dealer] < TTL
  PROVE  CallOf(r)' /\ AnswerOf(r)'
<1>1. pc'[r] = "idle" /\ answer'[r] = [status |-> status, live |-> live, at |-> now]
  BY DEF Answer, Goto, TypeInv, TypeOK
<1> QED
  BY <1>1, RequestTypes DEF CallOf, AnswerOf

\* The steps that neither answer from the hub nor from the cache.
LEMMA ContentGate ==
  ASSUME TypeInv, ContentInv, NEW r \in Requests,
         \/ \E q \in Request : Arrive(r, q)
         \/ ReadSettings(r) \/ GateFails(r) \/ Miss(r)
         \/ \E withinLimits \in BOOLEAN : ReadKey(r, withinLimits)
  PROVE  CallOf(r)' /\ AnswerOf(r)' /\ UNCHANGED <<hub, cache, now, gone, failedAt>>
<1>0. /\ DOMAIN pc = Requests /\ DOMAIN asked = Requests /\ DOMAIN answer = Requests
      /\ CallOf(r) /\ AnswerOf(r) /\ failedAt[asked[r].dealer] \in Int
  BY RequestTypes, DealerTypes DEF TypeInv, TypeOK, ContentInv
<1>1. ASSUME NEW q \in Request, Arrive(r, q)
      PROVE  CallOf(r)' /\ AnswerOf(r)' /\ UNCHANGED <<hub, cache, now, gone, failedAt>>
  BY <1>0, <1>1, RequestTypes DEF Arrive, Goto, CallOf, AnswerOf, record, Nothing
<1>2. ASSUME NEW status \in {401, 403, 404, 429, 500}, Answer(r, status, Nothing),
             UNCHANGED <<hub, cache, asked, now, record>>
      PROVE  CallOf(r)' /\ AnswerOf(r)' /\ UNCHANGED <<hub, cache, now, gone, failedAt>>
  BY <1>0, <1>2, AnswerMade DEF record, Nothing
<1>3. ASSUME NEW step \in {"key", "content", "miss"}, Goto(r, step),
             UNCHANGED <<answer, hub, cache, asked, now, gone, failedAt>>
      PROVE  CallOf(r)' /\ AnswerOf(r)' /\ UNCHANGED <<hub, cache, now, gone, failedAt>>
  BY <1>0, <1>3 DEF Goto, CallOf, AnswerOf
<1>4. CASE ReadSettings(r)
  <2>1. /\ (Goto(r, "key") /\ UNCHANGED answer) \/ Answer(r, 404, Nothing)
        /\ UNCHANGED <<hub, cache, asked, now, record>>
    BY <1>4 DEF ReadSettings, gate
  <2>2. CASE Answer(r, 404, Nothing)
    BY <1>2, <2>1, <2>2
  <2>3. CASE Goto(r, "key") /\ UNCHANGED answer
    BY <1>3, <2>1, <2>3 DEF record
  <2> QED
    BY <2>1, <2>2, <2>3
<1>5. CASE GateFails(r)
  BY <1>2, <1>5 DEF GateFails
<1>6. CASE Miss(r)
  BY <1>3, <1>6 DEF Miss, reply
<1>7. ASSUME NEW withinLimits \in BOOLEAN, ReadKey(r, withinLimits)
      PROVE  CallOf(r)' /\ AnswerOf(r)' /\ UNCHANGED <<hub, cache, now, gone, failedAt>>
  <2>1. UNCHANGED <<hub, cache, asked, now, record>>
    BY <1>7, Zenon DEF ReadKey
  <2>2. \/ Goto(r, "content") /\ UNCHANGED answer
        \/ \E status \in {401, 403, 429} : Answer(r, status, Nothing)
    BY <1>7 DEF ReadKey
  <2> QED
    BY <1>2, <1>3, <2>1, <2>2 DEF record
<1> QED
  BY <1>1, <1>4, <1>5, <1>6, <1>7

\* The steps to the hub and back.
LEMMA ContentFetch ==
  ASSUME TypeInv, ContentInv, NEW r \in Requests,
         Hit(r) \/ Call(r) \/ HubReads(r) \/ Returns(r) \/ Fails(r)
  PROVE  /\ CallOf(r)' /\ AnswerOf(r)' /\ UNCHANGED <<hub, now, gone>>
         /\ \A d \in Dealers : EntryOf(d)' /\ failedAt'[d] \in {failedAt[d], now}
<1> DEFINE d == asked[r].dealer
<1>0. /\ DOMAIN pc = Requests /\ DOMAIN since = Requests /\ DOMAIN fetched = Requests /\ DOMAIN answer = Requests
      /\ CallOf(r) /\ AnswerOf(r) /\ d \in Dealers /\ EntryOf(d) /\ ShownOf(d)
      /\ \A e \in Dealers : EntryOf(e) /\ failedAt[e] \in Int /\ cache[e].at \in Int
      /\ now \in Int /\ since[r] \in Int /\ TTL \in Nat \ {0} /\ Timeout \in Nat
      /\ fetched[r] \subseteq Content /\ cache[d].live \subseteq Content
      /\ DOMAIN cache = Dealers /\ DOMAIN failedAt = Dealers /\ hub[d].version \in 0..MaxVersion
      /\ now < Later /\ Later \in Int
  BY RequestTypes, DealerTypes, PortalAssumption DEF TypeInv, TypeOK, ContentInv, Later
<1>g. \A c \in Content : gone[c.dealer][c.version] \in Int
  BY ContentTypes, DealerTypes
<1>1. CASE Hit(r)
  <2>1. Answer(r, 200, cache[d].live) /\ UNCHANGED <<asked, hub, cache, now, gone, failedAt>> /\ now - cache[d].at < TTL
    BY <1>1 DEF Hit, Entry, Cached, record
  <2>2. \A c \in cache[d].live : c.dealer = d /\ gone[c.dealer][c.version] > now - TTL - Timeout
    BY <1>0, <1>g, <2>1 DEF EntryOf
  <2>3. cache[d].live = Nothing => now - failedAt[d] < TTL
    BY <1>0, <2>1 DEF EntryOf
  <2>4. CallOf(r)' /\ AnswerOf(r)'
    BY <1>0, <2>1, <2>2, <2>3, AnswerMade
  <2>5. ASSUME NEW e \in Dealers PROVE EntryOf(e)' /\ failedAt'[e] \in {failedAt[e], now}
    BY <1>0, <2>1 DEF EntryOf
  <2> QED
    BY <2>1, <2>4, <2>5
<1>2. CASE Call(r)
  <2>1. /\ pc'[r] = "calling" /\ since'[r] = now
        /\ UNCHANGED <<hub, cache, asked, fetched, answer, now, gone, failedAt>>
    BY <1>0, <1>2 DEF Call, Goto, reply
  <2>2. CallOf(r)' /\ AnswerOf(r)'
    BY <1>0, <2>1 DEF CallOf, AnswerOf
  <2>3. ASSUME NEW e \in Dealers PROVE EntryOf(e)' /\ failedAt'[e] \in {failedAt[e], now}
    BY <1>0, <2>1 DEF EntryOf
  <2> QED
    BY <2>1, <2>2, <2>3
<1>3. CASE HubReads(r)
  <2> DEFINE c == [dealer |-> d, version |-> hub[d].version]
  <2>1. /\ pc[r] = "calling" /\ pc'[r] = "back" /\ fetched'[r] = {c}
        /\ UNCHANGED <<hub, cache, asked, since, answer, now, gone, failedAt>>
    BY <1>0, <1>3 DEF HubReads, Goto, reply, record
  <2>2. gone[d][hub[d].version] = Later
    BY <1>0 DEF ShownOf
  <2>3. CallOf(r)'
    BY <1>0, <2>1, <2>2 DEF CallOf, Nothing
  <2>4. AnswerOf(r)'
    BY <1>0, <2>1 DEF AnswerOf
  <2>5. ASSUME NEW e \in Dealers PROVE EntryOf(e)' /\ failedAt'[e] \in {failedAt[e], now}
    BY <1>0, <2>1 DEF EntryOf
  <2> QED
    BY <2>1, <2>3, <2>4, <2>5
<1>4. CASE Returns(r)
  <2>1. /\ pc[r] = "back" /\ Answer(r, 200, fetched[r]) /\ UNCHANGED <<asked, hub, now, gone, failedAt>>
        /\ cache' = [cache EXCEPT ![d] = [live |-> fetched[r], at |-> now]]
    BY <1>4 DEF Returns, Store, record
  <2>2. /\ fetched[r] # Nothing
        /\ \A c \in fetched[r] : c.dealer = d /\ gone[c.dealer][c.version] >= now - Timeout
    BY <1>0, <1>g, <2>1 DEF CallOf
  <2>3. \A c \in fetched[r] : gone[c.dealer][c.version] > now - TTL - Timeout
    BY <1>0, <1>g, <2>2
  <2>4. CallOf(r)' /\ AnswerOf(r)'
    BY <1>0, <2>1, <2>2, <2>3, AnswerMade
  <2>5. ASSUME NEW e \in Dealers PROVE EntryOf(e)' /\ failedAt'[e] \in {failedAt[e], now}
    <3>1. CASE e = d
      <4>1. cache'[e].live = fetched[r] /\ cache'[e].at = now /\ failedAt'[e] = failedAt[e]
        BY <1>0, <2>1, <3>1
      <4> QED
        BY <1>0, <2>1, <2>2, <3>1, <4>1 DEF EntryOf
    <3>2. CASE e # d
      BY <1>0, <2>1, <3>2 DEF EntryOf
    <3> QED
      BY <3>1, <3>2
  <2> QED
    BY <2>1, <2>4, <2>5
<1>5. CASE Fails(r)
  <2>1. /\ Answer(r, 200, Nothing) /\ UNCHANGED <<asked, hub, now, gone>>
        /\ cache' = [cache EXCEPT ![d] = [live |-> Nothing, at |-> now]]
        /\ failedAt' = [failedAt EXCEPT ![d] = now]
    BY <1>5 DEF Fails, Store
  <2>2. failedAt'[d] = now
    BY <1>0, <2>1
  <2>3. CallOf(r)' /\ AnswerOf(r)'
    BY <1>0, <2>1, <2>2, AnswerMade DEF Nothing
  <2>4. ASSUME NEW e \in Dealers PROVE EntryOf(e)' /\ failedAt'[e] \in {failedAt[e], now}
    <3>1. CASE e = d
      <4>1. cache'[e].live = Nothing /\ cache'[e].at = now /\ failedAt'[e] = now
        BY <1>0, <2>1, <3>1
      <4> QED
        BY <1>0, <2>1, <3>1, <4>1 DEF EntryOf, Nothing
    <3>2. CASE e # d
      BY <1>0, <2>1, <3>2 DEF EntryOf
    <3> QED
      BY <3>1, <3>2
  <2> QED
    BY <2>1, <2>3, <2>4
<1> QED
  BY <1>1, <1>2, <1>3, <1>4, <1>5

\* The admin, the hub and the clock.
LEMMA ContentPublish ==
  ASSUME TypeInv, ContentInv, NEW d \in Dealers, Publish(d)
  PROVE  ContentInv'
<1>1. UNCHANGED <<pc, asked, since, fetched, answer, cache, now, failedAt>>
  BY DEF Publish, handler, call, reply
<1>2. \A e \in Dealers, v \in 0..MaxVersion : gone'[e][v] \in {gone[e][v], now}
  BY DealerTypes DEF Publish, TypeInv, RecordType
<1>3. ASSUME NEW r \in Requests PROVE CallOf(r)' /\ AnswerOf(r)'
  <2>1. CallOf(r) /\ AnswerOf(r)
    BY DEF ContentInv
  <2>2. \A c \in Content : gone'[c.dealer][c.version] \in {gone[c.dealer][c.version], now}
    BY <1>2, ContentTypes
  <2>3. CallOf(r)'
    BY <1>1, <2>1, <2>2, RequestTypes DEF CallOf
  <2>4. AnswerOf(r)'
    BY <1>1, <2>1, <2>2, RequestTypes DEF AnswerOf
  <2> QED
    BY <2>3, <2>4
<1>4. ASSUME NEW e \in Dealers PROVE EntryOf(e)'
  <2>1. EntryOf(e) /\ Timeout \in Nat
    BY PortalAssumption DEF ContentInv
  <2>2. \A c \in Content : gone'[c.dealer][c.version] \in {gone[c.dealer][c.version], now}
    BY <1>2, ContentTypes
  <2> QED
    BY <1>1, <2>1, <2>2, DealerTypes DEF EntryOf
<1>5. ASSUME NEW e \in Dealers PROVE ShownOf(e)'
  <2>1. ShownOf(e)
    BY DEF ContentInv
  <2>2. CASE e = d
    <3>1. hub'[d] = [hub[d] EXCEPT !.version = hub[d].version + 1]
      BY Zenon DEF Publish, TypeInv, TypeOK
    <3>2. hub[d] \in [version : 0..MaxVersion, up : BOOLEAN]
      BY DEF TypeInv, TypeOK
    <3>3. hub'[d].version = hub[d].version + 1
      BY <3>1, <3>2
    <3>4. \A v \in 0..MaxVersion : v # hub[d].version => gone'[d][v] = gone[d][v]
      BY DealerTypes DEF Publish, TypeInv, RecordType
    <3> QED
      BY <2>1, <2>2, <3>2, <3>3, <3>4 DEF ShownOf, Later
  <2>3. CASE e # d
    <3>1. hub'[e] = hub[e] /\ gone'[e] = gone[e]
      BY <2>3 DEF Publish, TypeInv, TypeOK, RecordType
    <3> QED
      BY <2>1, <3>1 DEF ShownOf, Later
  <2> QED
    BY <2>2, <2>3
<1> QED
  BY <1>3, <1>4, <1>5 DEF ContentInv

LEMMA ContentTick ==
  ASSUME TypeInv, ContentInv, Tick
  PROVE  ContentInv'
<1>1. /\ UNCHANGED <<pc, asked, since, fetched, answer, cache, hub, gone, failedAt>> /\ now' = now + 1
      /\ \A r \in Requests : pc[r] \in {"calling", "back"} => now - since[r] < Timeout
  BY DEF Tick, handler, call, reply, record
<1>2. ASSUME NEW r \in Requests PROVE CallOf(r)' /\ AnswerOf(r)'
  BY <1>1, RequestTypes DEF CallOf, AnswerOf, ContentInv
<1>3. ASSUME NEW d \in Dealers PROVE EntryOf(d)' /\ ShownOf(d)'
  BY <1>1, DealerTypes DEF EntryOf, ShownOf, ContentInv, Later
<1> QED
  BY <1>2, <1>3 DEF ContentInv

\* Edits, outages and recoveries change no version.
LEMMA ContentOutside ==
  ASSUME TypeInv, ContentInv, UNCHANGED <<pc, asked, since, fetched, answer, cache, now, gone, failedAt>>,
         \A d \in Dealers : hub'[d].version = hub[d].version
  PROVE  ContentInv'
<1>1. ASSUME NEW r \in Requests PROVE CallOf(r)' /\ AnswerOf(r)'
  BY DEF CallOf, AnswerOf, ContentInv
<1>2. ASSUME NEW d \in Dealers PROVE EntryOf(d)' /\ ShownOf(d)'
  BY DEF EntryOf, ShownOf, ContentInv
<1> QED
  BY <1>1, <1>2 DEF ContentInv

LEMMA ContentServe ==
  ASSUME TypeInv, ContentInv, NEW r \in Requests, Serve(r)
  PROVE  ContentInv'
<1>1. /\ CallOf(r)' /\ AnswerOf(r)' /\ UNCHANGED <<hub, now, gone>>
      /\ \A d \in Dealers : EntryOf(d)' /\ failedAt'[d] \in {failedAt[d], now}
  <2>1. ASSUME UNCHANGED <<hub, cache, now, gone, failedAt>>
        PROVE  \A d \in Dealers : EntryOf(d)' /\ failedAt'[d] \in {failedAt[d], now}
    BY <2>1 DEF ContentInv, EntryOf
  <2> QED
    BY <2>1, ContentGate, ContentFetch DEF Serve
<1>2. ASSUME NEW p \in Requests PROVE CallOf(p)' /\ AnswerOf(p)'
  <2>1. CASE p # r
    <3>1. Same(p) /\ CallOf(p) /\ AnswerOf(p) /\ asked[p].dealer \in Dealers
      BY <2>1, OthersSame, RequestTypes DEF ContentInv
    <3> QED
      BY <1>1, <3>1, ContentOthers DEF ContentInv
  <2> QED
    BY <1>1, <2>1
<1>3. ASSUME NEW d \in Dealers PROVE ShownOf(d)'
  BY <1>1 DEF ContentInv, ShownOf
<1> QED
  BY <1>1, <1>2, <1>3 DEF ContentInv

LEMMA ContentStep == TypeInv /\ ContentInv /\ [Next]_vars => ContentInv'
<1> SUFFICES ASSUME TypeInv, ContentInv, [Next]_vars PROVE ContentInv'
  OBVIOUS
<1>1. CASE UNCHANGED vars
  BY <1>1, ContentOutside DEF vars, handler, call, reply, record
<1>2. ASSUME NEW d \in Dealers, NEW s \in Settings, PutSettings(d, s) PROVE ContentInv'
  BY <1>2, ContentOutside DEF PutSettings, Edit, handler, call, record
<1>3. ASSUME NEW k \in Keys, NEW v \in Key, PatchKey(k, v) PROVE ContentInv'
  BY <1>3, ContentOutside DEF PatchKey, Edit, handler, call, record
<1>4. ASSUME NEW d \in Dealers, Outage(d) \/ Recovery(d) PROVE ContentInv'
  <2>1. ASSUME NEW e \in Dealers PROVE hub'[e].version = hub[e].version
    <3> DEFINE R == [version : 0..MaxVersion, up : BOOLEAN]
    <3>1. ASSUME NEW h \in R, NEW up PROVE [h EXCEPT !.up = up].version = h.version
      OBVIOUS
    <3>2. hub \in [Dealers -> R]
      BY DEF TypeInv, TypeOK
    <3>3. PICK up \in BOOLEAN : hub' = [hub EXCEPT ![d] = [hub[d] EXCEPT !.up = up]]
      BY <1>4, Zenon DEF Outage, Recovery
    <3> HIDE DEF R
    <3>4. hub'[e] = hub[e] \/ hub'[e] = [hub[e] EXCEPT !.up = up]
      BY <3>2, <3>3, Zenon
    <3> QED
      BY <3>1, <3>2, <3>4, Zenon
  <2>2. UNCHANGED <<pc, asked, since, fetched, answer, cache, now, gone, failedAt>>
    BY <1>4, Zenon DEF Outage, Recovery, handler, call, reply, record
  <2> QED
    BY <2>1, <2>2, ContentOutside
<1> QED
  BY <1>1, <1>2, <1>3, <1>4, ContentPublish, ContentTick, ContentServe DEF Next

LEMMA ContentAlways == Spec => []ContentInv
<1>1. Init => TypeInv /\ ContentInv
  BY TypeInit, ContentInit
<1>2. TypeInv /\ ContentInv /\ [Next]_vars => (TypeInv /\ ContentInv)'
  BY TypeStep, ContentStep
<1> QED
  BY <1>1, <1>2, PTL DEF Spec

\* No dealer's visitors are shown another dealer's content, whichever
\* requests and answers overlap.
THEOREM PortalOwnContent == Spec => []OwnContent
<1>1. ContentInv => OwnContent
  BY DEF ContentInv, AnswerOf, OwnContent
<1> QED
  BY <1>1, ContentAlways, PTL

\* Live content was still the hub's within the TTL and one call's time-out.
THEOREM PortalFresh == Spec => []Fresh
<1>1. ContentInv => Fresh
  BY DEF ContentInv, AnswerOf, Fresh
<1> QED
  BY <1>1, ContentAlways, PTL

\* The local profile is answered only within the TTL of a failure.
THEOREM PortalFallback == Spec => []FallbackJustified
<1>1. ContentInv => FallbackJustified
  BY DEF ContentInv, AnswerOf, FallbackJustified
<1> QED
  BY <1>1, ContentAlways, PTL

-----------------------------------------------------------------------------
(* One attempt.  As long as no two requests missed together, at most one    *)
(* is on its way to the hub, it set out TTL after the last, and the entry   *)
(* it leaves is no older than its call.                                    *)

AttemptOf(d) ==
  /\ triedAt[d] <= now
  /\ d \notin herd =>
       /\ d \notin crowded
       /\ \A p, q \in Requests : OnItsWay(p, d) /\ OnItsWay(q, d) => p = q
       /\ \A p \in Requests : OnItsWay(p, d) /\ pc[p] = "miss" => now - triedAt[d] >= TTL
       /\ (\A p \in Requests : ~OnItsWay(p, d)) => cache[d].at >= triedAt[d]

AttemptInv == crowded \subseteq Dealers /\ \A d \in Dealers : AttemptOf(d)

LEMMA AttemptInit == Init => AttemptInv
  BY PortalAssumption DEF Init, AttemptInv, AttemptOf, OnItsWay, Never

\* Nobody sets out, nobody comes back.
LEMMA AttemptStill ==
  ASSUME TypeInv, NEW d \in Dealers, AttemptOf(d), UNCHANGED <<triedAt, herd, crowded>>,
         now' \in Int, now' >= now, cache'[d] = cache[d],
         \A p \in Requests : (OnItsWay(p, d)' <=> OnItsWay(p, d)) /\ (pc'[p] = "miss" => pc[p] = "miss")
  PROVE  AttemptOf(d)'
  BY DealerTypes, PortalAssumption DEF AttemptOf

\* Two requests on their way to one dealer after a step: at most the one
\* the step was of is new there.
LEMMA OthersWay ==
  ASSUME TypeInv, NEW r \in Requests, Serve(r), NEW p \in Requests \ {r}, NEW d
  PROVE  (OnItsWay(p, d)' <=> OnItsWay(p, d)) /\ pc'[p] = pc[p]
  BY OthersSame DEF Same, OnItsWay

\* The steps before the content, and a hit.
LEMMA AttemptGate ==
  ASSUME TypeInv, AttemptInv, NEW r \in Requests,
         \/ \E q \in Request : Arrive(r, q)
         \/ ReadSettings(r) \/ GateFails(r) \/ Hit(r)
         \/ \E withinLimits \in BOOLEAN : ReadKey(r, withinLimits)
  PROVE  AttemptInv'
<1>1. /\ pc[r] \in {"idle", "settings", "key", "content"} /\ pc'[r] \in {"idle", "settings", "key", "content"}
      /\ UNCHANGED <<cache, now, triedAt, herd, crowded>>
  <2> DOMAIN pc = Requests
    BY DEF TypeInv, TypeOK
  <2>1. ASSUME NEW q \in Request, Arrive(r, q) PROVE  /\ pc[r] \in {"idle", "settings", "key", "content"}
               /\ pc'[r] \in {"idle", "settings", "key", "content"}
               /\ UNCHANGED <<cache, now, triedAt, herd, crowded>>
    BY <2>1 DEF Arrive, Goto, record
  <2> QED
    BY <2>1 DEF ReadSettings, GateFails, Hit, ReadKey, Goto, Answer, record
<1>2. Serve(r)
  BY DEF Serve
<1>3. ASSUME NEW d \in Dealers PROVE AttemptOf(d)'
  <2>1. \A p \in Requests : (OnItsWay(p, d)' <=> OnItsWay(p, d)) /\ (pc'[p] = "miss" => pc[p] = "miss")
    BY <1>1, <1>2, OthersWay DEF OnItsWay
  <2> QED
    BY <1>1, <2>1, AttemptStill, DealerTypes DEF AttemptInv
<1> QED
  BY <1>1, <1>3 DEF AttemptInv

LEMMA AttemptMiss ==
  ASSUME TypeInv, AttemptInv, NEW r \in Requests, Miss(r)
  PROVE  AttemptInv'
<1>0. PICK d \in Dealers : d = asked[r].dealer
  BY RequestTypes
<1>1. /\ pc[r] = "content" /\ pc'[r] = "miss" /\ now - cache[d].at >= TTL /\ d \in Dealers
      /\ UNCHANGED <<asked, cache, now, triedAt, crowded>>
      /\ herd' = IF \E p \in Requests : OnItsWay(p, d) THEN herd \cup {d} ELSE herd
  <2> now \in Int /\ cache[d].at \in Int /\ TTL \in Int /\ DOMAIN pc = Requests /\ d \in Dealers
    BY RequestTypes, DealerTypes DEF TypeInv, TypeOK
  <2> QED
    BY <1>0 DEF Miss, Goto, Cached, Entry
<1>2. Serve(r)
  BY DEF Serve
<1>3. ASSUME NEW e \in Dealers PROVE AttemptOf(e)'
  <2>1. AttemptOf(e)
    BY DEF AttemptInv
  <2>2. CASE e = d
    <3>1. CASE \E p \in Requests : OnItsWay(p, d)
      BY <1>1, <2>1, <2>2, <3>1 DEF AttemptOf
    <3>2. CASE \A p \in Requests : ~OnItsWay(p, d)
      <4>1. \A p \in Requests : OnItsWay(p, d)' => p = r
        BY <1>2, <3>2, OthersWay
      <4>2. OnItsWay(r, d)'
        BY <1>0, <1>1 DEF OnItsWay
      <4>3. d \notin herd => now - triedAt[d] >= TTL
        BY <1>1, <2>1, <2>2, <3>2, DealerTypes, PortalAssumption DEF AttemptOf
      <4>4. herd' = herd
        BY <1>1, <3>2
      <4> QED
        BY <1>1, <2>1, <2>2, <4>1, <4>2, <4>3, <4>4 DEF AttemptOf
    <3> QED
      BY <3>1, <3>2
  <2>3. CASE e # d
    <3>1. \A p \in Requests : (OnItsWay(p, e)' <=> OnItsWay(p, e)) /\ (OnItsWay(p, e)' => pc'[p] = pc[p])
      BY <1>0, <1>1, <1>2, <2>3, OthersWay DEF OnItsWay
    <3>2. e \in herd' <=> e \in herd
      BY <1>1, <2>3
    <3> QED
      BY <1>1, <2>1, <3>1, <3>2 DEF AttemptOf
  <2> QED
    BY <2>2, <2>3
<1> QED
  BY <1>1, <1>3 DEF AttemptInv

LEMMA AttemptCall ==
  ASSUME TypeInv, AttemptInv, NEW r \in Requests, Call(r) \/ HubReads(r)
  PROVE  AttemptInv'
<1>0. PICK d \in Dealers : d = asked[r].dealer
  BY RequestTypes
<1>1. /\ pc[r] \in {"miss", "calling"} /\ pc'[r] \in {"calling", "back"} /\ OnItsWay(r, d) /\ OnItsWay(r, d)'
      /\ UNCHANGED <<asked, cache, now, herd>>
      /\ \/ pc[r] = "miss" /\ triedAt' = [triedAt EXCEPT ![d] = now]
            /\ crowded' = IF now - triedAt[d] < TTL THEN crowded \cup {d} ELSE crowded
         \/ UNCHANGED <<triedAt, crowded>>
  <2> DOMAIN pc = Requests
    BY DEF TypeInv, TypeOK
  <2> QED
    BY <1>0 DEF Call, HubReads, Goto, OnItsWay, record
<1>2. Serve(r)
  BY DEF Serve
<1>3. \A e, p : p \in Requests => (OnItsWay(p, e)' <=> OnItsWay(p, e)) /\ (pc'[p] = "miss" => pc[p] = "miss")
  BY <1>0, <1>1, <1>2, OthersWay DEF OnItsWay
<1>4. ASSUME NEW e \in Dealers PROVE AttemptOf(e)'
  <2>1. AttemptOf(e) /\ now \in Int /\ TTL \in Int /\ triedAt[e] \in Int /\ DOMAIN triedAt = Dealers
    BY DealerTypes, PortalAssumption DEF AttemptInv
  <2>2. CASE e = d /\ pc[r] = "miss" /\ triedAt' = [triedAt EXCEPT ![d] = now]
              /\ crowded' = IF now - triedAt[d] < TTL THEN crowded \cup {d} ELSE crowded
    <3>1. triedAt'[e] = now
      BY <2>1, <2>2
    <3>2. e \notin herd => e \notin crowded'
      BY <1>1, <2>1, <2>2 DEF AttemptOf
    <3>3. e \notin herd => \A p \in Requests : OnItsWay(p, e)' => p = r
      BY <1>1, <1>3, <2>1, <2>2 DEF AttemptOf
    <3> QED
      BY <1>1, <1>3, <2>1, <2>2, <3>1, <3>2, <3>3 DEF AttemptOf
  <2>3. CASE UNCHANGED <<triedAt, crowded>>
    BY <1>1, <1>3, <2>1, <2>3, AttemptStill
  <2>4. CASE e # d /\ pc[r] = "miss" /\ triedAt' = [triedAt EXCEPT ![d] = now]
              /\ crowded' = IF now - triedAt[d] < TTL THEN crowded \cup {d} ELSE crowded
    <3>1. triedAt'[e] = triedAt[e] /\ (e \in crowded' <=> e \in crowded)
      BY <2>1, <2>4
    <3> QED
      BY <1>1, <1>3, <2>1, <3>1 DEF AttemptOf
  <2> QED
    BY <1>1, <2>2, <2>3, <2>4
<1> QED
  BY <1>1, <1>4 DEF AttemptInv

LEMMA AttemptReturn ==
  ASSUME TypeInv, AttemptInv, NEW r \in Requests, Returns(r) \/ Fails(r)
  PROVE  AttemptInv'
<1>0. PICK d \in Dealers : d = asked[r].dealer
  BY RequestTypes
<1>1. /\ OnItsWay(r, d) /\ pc'[r] = "idle" /\ UNCHANGED <<asked, now, triedAt, herd, crowded>>
      /\ cache'[d].at = now /\ \A e \in Dealers \ {d} : cache'[e] = cache[e]
  <2> DOMAIN pc = Requests /\ DOMAIN cache = Dealers
    BY DEF TypeInv, TypeOK
  <2> QED
    BY <1>0 DEF Returns, Fails, Store, Answer, Goto, OnItsWay, record
<1>2. Serve(r)
  BY DEF Serve
<1>3. ASSUME NEW e \in Dealers PROVE AttemptOf(e)'
  <2>1. AttemptOf(e) /\ \A p \in Requests \ {r} : (OnItsWay(p, e)' <=> OnItsWay(p, e)) /\ pc'[p] = pc[p]
    BY <1>2, OthersWay DEF AttemptInv
  <2>2. ~OnItsWay(r, e)'
    BY <1>1 DEF OnItsWay
  <2>3. CASE e = d
    BY <1>1, <2>1, <2>2, <2>3 DEF AttemptOf
  <2>4. CASE e # d
    <3>1. ~OnItsWay(r, e)
      BY <1>0, <2>4 DEF OnItsWay
    <3> QED
      BY <1>1, <2>1, <2>2, <2>4, <3>1 DEF AttemptOf
  <2> QED
    BY <2>3, <2>4
<1> QED
  BY <1>1, <1>3 DEF AttemptInv

LEMMA AttemptStep == TypeInv /\ AttemptInv /\ [Next]_vars => AttemptInv'
<1> SUFFICES ASSUME TypeInv, AttemptInv, [Next]_vars PROVE AttemptInv'
  OBVIOUS
<1>1. ASSUME UNCHANGED <<pc, asked, cache, triedAt, herd, crowded>>, now' \in {now, now + 1} PROVE AttemptInv'
  <2>1. ASSUME NEW d \in Dealers PROVE AttemptOf(d)'
    BY <1>1, AttemptStill, DealerTypes DEF AttemptInv, OnItsWay
  <2> QED
    BY <1>1, <2>1 DEF AttemptInv
<1>2. CASE UNCHANGED vars
  BY <1>1, <1>2 DEF vars, handler, record
<1>3. ASSUME NEW r \in Requests, Serve(r) PROVE AttemptInv'
  BY <1>3, AttemptGate, AttemptMiss, AttemptCall, AttemptReturn DEF Serve
<1>4. ASSUME \/ \E d \in Dealers : \E s \in Settings : PutSettings(d, s)
             \/ \E k \in Keys : \E v \in Key : PatchKey(k, v)
             \/ \E d \in Dealers : Publish(d) \/ Outage(d) \/ Recovery(d)
             \/ Tick
      PROVE  AttemptInv'
  <2>1. UNCHANGED <<pc, asked, cache, triedAt, herd, crowded>> /\ now' \in {now, now + 1}
    BY <1>4 DEF PutSettings, PatchKey, Edit, Publish, Outage, Recovery, Tick, handler, record
  <2> QED
    BY <1>1, <2>1
<1> QED
  BY <1>2, <1>3, <1>4 DEF Next

\* The hub is asked for a dealer's content once within the TTL, a failure
\* remembered like an answer, unless two requests missed together.
THEOREM PortalOneAttempt == Spec => []OneAttempt
<1>1. AttemptInv => OneAttempt
  BY DEF AttemptInv, AttemptOf, OneAttempt
<1>2. Init => TypeInv /\ AttemptInv
  BY TypeInit, AttemptInit
<1>3. TypeInv /\ AttemptInv /\ [Next]_vars => (TypeInv /\ AttemptInv)'
  BY TypeStep, AttemptStep
<1> QED
  BY <1>1, <1>2, <1>3, PTL DEF Spec

\* What the cache promises holds together.
THEOREM PortalContent == Spec => []ContentJustified
  BY PortalOwnContent, PortalFresh, PortalFallback, PortalOneAttempt, PTL DEF ContentJustified

-----------------------------------------------------------------------------
(* Dashboard.  What a portal save under way carries: besides OwnPortal, the *)
(* inductive invariant says it is the values of the dealer it goes to.      *)

Fields == {"kind", "token", "view", "choice", "to", "of", "live", "button", "number"}
PutsOwn(calls) ==
  \A c \in calls : DOMAIN c = Fields /\ (c.kind = "put" /\ c.view = "portal" => c.of = {c.choice})
PortalFields == DOMAIN stored = {"portal", "settings"} /\ DOMAIN stored["portal"] = Orgs
OwnInv == PutsOwn(pending) /\ PortalFields /\ OwnPortal

-----------------------------------------------------------------------------
(* How calls are made and kept.                                            *)

\* Asking for something is not a save.
LEMMA AskIsNoPut ==
  ASSUME NEW kind, kind # "put", NEW token, NEW view, NEW choice
  PROVE  PutsOwn({Ask(kind, token, view, choice)})
  BY DEF PutsOwn, Fields, Ask

\* Calls taken together.
LEMMA PutsOwnUnion ==
  ASSUME NEW A, NEW B, PutsOwn(A), PutsOwn(B)
  PROVE  PutsOwn(A \cup B)
  BY DEF PutsOwn

\* An answer that came.
LEMMA PutsOwnLess ==
  ASSUME NEW A, PutsOwn(A), NEW c
  PROVE  PutsOwn(A \ {c})
  BY DEF PutsOwn

\* Leaving a page changes no save under way.
LEMMA PutsOwnLeave ==
  ASSUME NEW A, PutsOwn(A)
  PROVE  PutsOwn(Leave(A))
<1>1. ASSUME NEW c \in A, NEW live, NEW to
      PROVE  PutsOwn({[c EXCEPT !.live = live, !.to = to]})
  BY DEF PutsOwn, Fields
<1>2. ASSUME NEW d \in Leave(A) PROVE PutsOwn({d})
  <2>1. PICK c \in A : d = [c EXCEPT !.live = c.kind = "create" /\ c.live,
                                    !.to = IF c.kind = "current" /\ c.live THEN page.choice ELSE c.to]
    BY Zenon DEF Leave
  <2> QED
    BY <1>1, <2>1, Zenon
<1> QED
  BY <1>2, Zenon DEF PutsOwn

\* Nor do new fields, or a dialog that is closed.
LEMMA PutsOwnRenewed ==
  ASSUME NEW A, PutsOwn(A)
  PROVE  PutsOwn(Renewed(A))
  BY DEF PutsOwn, Fields, Renewed

\* The router neither makes nor changes a save.
LEMMA RouteOwn ==
  ASSUME NEW v, NEW calls, PutsOwn(calls), Route(v, calls)
  PROVE  PutsOwn(pending')
<1>1. CASE RenderLogin(calls)
  BY <1>1, PutsOwnLeave DEF RenderLogin
<1>2. CASE Lay(v, calls)
  BY <1>2, PutsOwnLeave, AskIsNoPut, PutsOwnUnion DEF Lay
<1>3. CASE pending' = calls \cup {Ask("orgs", session', v, "all")}
  BY <1>3, AskIsNoPut, PutsOwnUnion
<1> QED
  BY <1>1, <1>2, <1>3 DEF Route

\* A save of the portal page that arrives.
LEMMA StoredOwn ==
  ASSUME OwnInv, NEW c \in pending, c.kind = "put",
         stored' = [stored EXCEPT ![c.view][c.choice] = c.of]
  PROVE  PortalFields' /\ OwnPortal'
<1>1. CASE c.view = "portal"
  <2>1. c.of = {c.choice}
    BY <1>1 DEF OwnInv, PutsOwn
  <2>2. stored'["portal"] = [stored["portal"] EXCEPT ![c.choice] = {c.choice}]
    BY <1>1, <2>1 DEF OwnInv, PortalFields
  <2>3. DOMAIN stored' = {"portal", "settings"}
    BY DEF OwnInv, PortalFields
  <2> QED
    BY <2>2, <2>3 DEF OwnInv, PortalFields, OwnPortal
<1>2. CASE c.view # "portal"
  <2>1. stored'["portal"] = stored["portal"] /\ DOMAIN stored' = DOMAIN stored
    BY <1>2 DEF OwnInv, PortalFields
  <2> QED
    BY <2>1 DEF OwnInv, PortalFields, OwnPortal
<1> QED
  BY <1>1, <1>2

-----------------------------------------------------------------------------
(* The theorem.                                                            *)

\* At the start every organization has its own settings.
LEMMA OwnInit == UiInit => OwnInv
<1> SUFFICES ASSUME UiInit PROVE OwnInv
  OBVIOUS
<1>1. PutsOwn(pending)
  <2>1. PutsOwn({})
    BY DEF PutsOwn
  <2> QED
    BY <2>1, AskIsNoPut DEF UiInit
<1>2. PortalFields /\ OwnPortal
  BY DEF UiInit, PortalFields, OwnPortal
<1> QED
  BY <1>1, <1>2 DEF OwnInv

\* What the operator does.
LEMMA OwnClicked ==
  ASSUME OwnInv, Clicked
  PROVE  OwnInv'
<1> PutsOwn(pending)
  BY DEF OwnInv
<1>1. PutsOwn(pending') /\ UNCHANGED stored
  <2>1. ASSUME NEW t \in Tokens, SignIn(t) PROVE PutsOwn(pending') /\ UNCHANGED stored
    BY <2>1, AskIsNoPut, PutsOwnUnion DEF SignIn, data
  <2>2. ASSUME NEW t \in Tokens, Rotate(t) PROVE PutsOwn(pending') /\ UNCHANGED stored
    BY <2>2 DEF Rotate, data
  <2>3. CASE SignOut
    BY <2>3, PutsOwnLeave DEF SignOut, RenderLogin, data
  <2>4. ASSUME NEW v \in Visited, HashChange(v) PROVE PutsOwn(pending') /\ UNCHANGED stored
    BY <2>4, RouteOwn DEF HashChange, data
  <2>5. ASSUME NEW choice \in Choices, Choose(choice) PROVE PutsOwn(pending') /\ UNCHANGED stored
    BY <2>5, AskIsNoPut, PutsOwnUnion DEF Choose, Reload, data
  <2>6. ASSUME NEW next \in {"route", "reload"}, Act(next) PROVE PutsOwn(pending') /\ UNCHANGED stored
    BY <2>6, AskIsNoPut, PutsOwnUnion DEF Act, data
  <2>7. CASE Save
    <3>1. PutsOwn({[Ask("put", session, "portal", DealerId) EXCEPT !.of = {page.body}]})
      BY DEF PutsOwn, Fields, Ask, DealerId
    <3>2. PutsOwn({[Ask("current", session, "settings", page.choice) EXCEPT !.of = {page.body}]})
      BY DEF PutsOwn, Fields, Ask
    <3> QED
      BY <2>7, <3>1, <3>2, PutsOwnUnion DEF Save, data
  <2>8. CASE CreateClient
    BY <2>8 DEF CreateClient, data
  <2>9. CASE Create
    <3>1. ASSUME NEW number PROVE PutsOwn({[Ask("create", session, "clients", "all") EXCEPT !.number = number]})
      BY DEF PutsOwn, Fields, Ask
    <3> QED
      BY <2>9, <3>1, PutsOwnUnion DEF Create, data
  <2>10. CASE Dismiss
    <3>1. PutsOwn({[c EXCEPT !.live = c.live /\ c.kind # "create"] : c \in pending})
      BY DEF PutsOwn, Fields
    <3> QED
      BY <2>10, <3>1 DEF Dismiss
  <2>11. CASE Done
    BY <2>11, RouteOwn DEF Done
  <2> QED
    BY <2>1, <2>2, <2>3, <2>4, <2>5, <2>6, <2>7, <2>8, <2>9, <2>10, <2>11, Zenon DEF Clicked
<1> QED
  BY <1>1 DEF OwnInv, PortalFields, OwnPortal

\* What an answer does.
LEMMA OwnAnswered ==
  ASSUME OwnInv, NEW c \in pending,
         \/ Refused(c) \/ SignedIn(c) \/ OrgsCame(c) \/ Rendered(c) \/ Loaded(c) \/ Acted(c)
         \/ CurrentCame(c) \/ Saved(c) \/ Created(c) \/ Failed(c)
  PROVE  OwnInv'
<1> PutsOwn(pending)
  BY DEF OwnInv
<1>0. PutsOwn(pending \ {c})
  BY PutsOwnLess
<1>1. PutsOwn(pending')
  <2>1. CASE Refused(c)
    BY <1>0, <2>1, PutsOwnLeave DEF Refused, RenderLogin
  <2>2. CASE SignedIn(c)
    BY <1>0, <2>2, RouteOwn DEF SignedIn
  <2>3. CASE OrgsCame(c)
    BY <1>0, <2>3, PutsOwnLeave, AskIsNoPut, PutsOwnUnion DEF OrgsCame, Lay
  <2>4. CASE Rendered(c)
    BY <1>0, <2>4 DEF Rendered
  <2>5. CASE Loaded(c)
    BY <1>0, <2>5, PutsOwnRenewed DEF Loaded
  <2>6. CASE Acted(c)
    <3>1. CASE Route(address, pending \ {c})
      BY <1>0, <3>1, RouteOwn
    <3>2. CASE pending' = (pending \ {c}) \cup IF c.live THEN Reload(page.choice) ELSE {}
      BY <1>0, <3>2, AskIsNoPut, PutsOwnUnion DEF Reload
    <3> QED
      BY <2>6, <3>1, <3>2 DEF Acted
  <2>7. CASE CurrentCame(c)
    <3>1. ASSUME NEW choice, NEW of, NEW live, NEW button
          PROVE  PutsOwn({[Ask("put", session, "settings", choice) EXCEPT
                             !.of = of, !.live = live, !.button = button]})
      BY DEF PutsOwn, Fields, Ask
    <3> QED
      BY <1>0, <2>7, <3>1, PutsOwnUnion DEF CurrentCame
  <2>8. CASE Saved(c)
    BY <1>0, <2>8, AskIsNoPut, PutsOwnUnion DEF Saved, Reload
  <2>9. CASE Created(c)
    BY <1>0, <2>9 DEF Created
  <2>10. CASE Failed(c)
    BY <1>0, <2>10 DEF Failed
  <2> QED
    BY <2>1, <2>2, <2>3, <2>4, <2>5, <2>6, <2>7, <2>8, <2>9, <2>10
<1>2. \/ UNCHANGED stored
      \/ c.kind = "put" /\ stored' = [stored EXCEPT ![c.view][c.choice] = c.of]
  BY DEF Refused, SignedIn, OrgsCame, Rendered, Loaded, Acted, CurrentCame, Saved, Created, Failed, data
<1>3. PortalFields' /\ OwnPortal'
  <2>1. CASE UNCHANGED stored
    BY <2>1 DEF OwnInv, PortalFields, OwnPortal
  <2> QED
    BY <1>2, <2>1, StoredOwn
<1> QED
  BY <1>1, <1>3 DEF OwnInv

\* Whatever the operator chooses, saves and leaves, in whatever order the
\* answers come and whichever calls fail, the portal settings the gateway
\* has for a dealer are those that were shown as that dealer's.
THEOREM DashboardOwnPortal == UiSpec => []OwnPortal
<1>1. OwnInv /\ [UiNext]_uiVars => OwnInv'
  <2> SUFFICES ASSUME OwnInv, [UiNext]_uiVars PROVE OwnInv'
    OBVIOUS
  <2>1. CASE UNCHANGED uiVars
    BY <2>1 DEF uiVars, data, OwnInv, PortalFields, OwnPortal
  <2>2. CASE Clicked
    BY <2>2, OwnClicked
  <2>3. CASE Answered
    BY <2>3, OwnAnswered DEF Answered
  <2> QED
    BY <2>1, <2>2, <2>3 DEF UiNext
<1>2. OwnInv => OwnPortal
  BY DEF OwnInv
<1> QED
  BY <1>1, <1>2, OwnInit, PTL DEF UiSpec

-----------------------------------------------------------------------------
(* The dashboard's types.  A call that still finds its page is of that       *)
(* page's view, and a save goes to an organization.                        *)

OfPage == {"render", "load", "reload", "current", "put"}
CallOK(c) ==
  /\ c \in Calls
  /\ c.live /\ c.kind \in OfPage => page.view = c.view
  /\ c.kind \in {"render", "load"} => c.choice \in View[c.view].choices
  /\ c.kind \in {"current", "put"} => c.choice \in Orgs /\ c.view \in {"portal", "settings"}
  /\ c.kind = "current" => c.view = "settings" /\ (~c.live => c.to \in Orgs)
  /\ c.kind = "create" => c.view = "clients"
CallsOK == \A c \in pending : CallOK(c)

Few(A) == IsFiniteSet(A) /\ Cardinality(A) <= MaxCalls
Small(A) == IsFiniteSet(A) /\ Cardinality(A) <= MaxCalls + 1

PageOK ==
  \/ page \in {Bare, Blank}
  \/ /\ page \in Pages /\ page.shows \in {page.view, "loading", "failed"}
     /\ page.choice \in View[page.view].choices /\ page.body \in View[page.view].choices
DialogOK ==
  /\ dialog \in [at : {"closed", "open", "busy", "shows"}, key : 0..issued]
  /\ dialog.at # "closed" => "clients" \in Visited
  /\ dialog.at = "shows" => dialog.key # 0
RestOK ==
  /\ address \in Visited /\ session \in Tokens \cup {"none"} /\ accepted \in Tokens /\ orgList \in BOOLEAN
  /\ stored \in [{"portal", "settings"} -> [Orgs -> SUBSET Orgs]]
  /\ issued \in 0..MaxIssued /\ noted \subseteq 1..issued
  /\ hasty \in BOOLEAN /\ together \in BOOLEAN /\ abandoned \in BOOLEAN /\ failures \in 0..MaxFailures
UiTypeInv == CallsOK /\ Small(pending) /\ PageOK /\ DialogOK /\ RestOK

LEMMA ViewIs ==
  /\ "login" \notin Visited /\ "blank" \notin Visited /\ "loading" \notin Visited /\ "failed" \notin Visited
  /\ \A v \in Visited : First(v) \in View[v].choices /\ View[v].choices \subseteq Choices
  /\ View["portal"].choices = Orgs /\ View["settings"].choices = Orgs
  /\ "all" \in Choices /\ Orgs \subseteq Choices
<1>1. /\ DOMAIN View = {"overview", "clients", "partners", "messages", "endpoints", "hub", "portal",
                        "preview", "settings", "logs"}
      /\ Visited \subseteq DOMAIN View
  BY DashboardAssumption DEF View
<1>2. /\ View["overview"] = ViewOverview /\ View["clients"] = ViewClients /\ View["partners"] = ViewPartners
      /\ View["messages"] = ViewMessages /\ View["endpoints"] = ViewEndpoints /\ View["hub"] = ViewHub
      /\ View["portal"] = ViewPortal /\ View["preview"] = ViewPreview /\ View["settings"] = ViewSettings
      /\ View["logs"] = ViewLogs
  BY DEF View
<1>3. \A v \in DOMAIN View : View[v].choices \subseteq Choices
  BY DEF Choices
<1>4. View["portal"].choices = Orgs /\ View["settings"].choices = Orgs /\ "all" \in View["clients"].choices
  BY <1>2 DEF ViewPortal, ViewSettings, ViewClients, PerOrg, Only
<1>5. \A v \in DOMAIN View : View[v].first \in View[v].choices
  BY <1>1, <1>2, DashboardAssumption
     DEF ViewOverview, ViewClients, ViewPartners, ViewMessages, ViewEndpoints, ViewHub, ViewPortal, ViewPreview,
         ViewSettings, ViewLogs, Only, PerOrg
<1>6. "login" \notin DOMAIN View /\ "blank" \notin DOMAIN View /\ "loading" \notin DOMAIN View /\ "failed" \notin DOMAIN View
  BY <1>1
<1> QED
  BY <1>1, <1>3, <1>4, <1>5, <1>6 DEF First

\* What the window shows.
LEMMA PageIs ==
  ASSUME PageOK
  PROVE  /\ page.choice \in Choices /\ page.body \in Choices
         /\ page.view \in Visited => page.choice \in View[page.view].choices /\ page.body \in View[page.view].choices
                                     /\ page.shows \in {page.view, "loading", "failed"} /\ page \in Pages
         /\ Ready => page.view \in Visited
         /\ page.view \notin Visited => page \in {Bare, Blank}
<1>1. CASE page \in {Bare, Blank}
  BY <1>1, ViewIs DEF Bare, Blank, Ready
<1>2. CASE page \in Pages
  BY <1>2, ViewIs DEF Pages, PageOK, Ready, Bare, Blank
<1> QED
  BY <1>1, <1>2 DEF PageOK

-----------------------------------------------------------------------------
(* How calls are made, kept and counted.                                   *)

Like(c, d) ==
  /\ d.kind = c.kind /\ d.token = c.token /\ d.view = c.view /\ d.choice = c.choice
  /\ d.of = c.of /\ d.number = c.number

LEMMA AskIs ==
  ASSUME NEW kind \in {"signin", "orgs", "render", "load", "route", "reload"}, NEW token \in Tokens \cup {"none"},
         NEW v \in Visited, NEW choice \in Choices
  PROVE  LET c == Ask(kind, token, v, choice)
         IN  /\ c \in Calls /\ c.kind = kind /\ c.token = token /\ c.view = v /\ c.choice = choice
             /\ c.live = TRUE /\ c.of = {}
  BY DEF Ask, Calls

\* A call whose page or button is left is the same call.
LEMMA LeaveIs ==
  ASSUME PageOK, NEW A, A \subseteq Calls, NEW d \in Leave(A)
  PROVE  \E c \in A : /\ d \in Calls /\ Like(c, d) /\ (d.live <=> c.kind = "create" /\ c.live) /\ d.button = c.button
                      /\ d.to = IF c.kind = "current" /\ c.live THEN page.choice ELSE c.to
<1>1. PICK c \in A : d = [c EXCEPT !.live = c.kind = "create" /\ c.live,
                                  !.to = IF c.kind = "current" /\ c.live THEN page.choice ELSE c.to]
  BY Zenon DEF Leave
<1> DEFINE l == c.kind = "create" /\ c.live
           to == IF c.kind = "current" /\ c.live THEN page.choice ELSE c.to
<1>2. c \in Calls /\ l \in BOOLEAN /\ to \in Choices
  BY PageIs DEF Calls
<1>3. d = [c EXCEPT !.live = l, !.to = to]
  BY <1>1
<1> HIDE DEF l, to
<1>4. d \in Calls /\ Like(c, d) /\ d.live = l /\ d.to = to /\ d.button = c.button
  BY <1>2, <1>3 DEF Calls, Like
<1> QED
  BY <1>4 DEF l, to

LEMMA RenewedIs ==
  ASSUME NEW A, A \subseteq Calls, NEW d \in Renewed(A)
  PROVE  \E c \in A : /\ d \in Calls /\ Like(c, d) /\ d.live = c.live /\ d.to = c.to
                      /\ c.kind = "create" => d.button = c.button
<1>1. PICK c \in A : d = [c EXCEPT !.button = c.button /\ c.kind \notin {"current", "put"}]
  BY Zenon DEF Renewed
<1> DEFINE b == c.button /\ c.kind \notin {"current", "put"}
<1>2. c \in Calls /\ b \in BOOLEAN /\ c.button \in BOOLEAN
  BY DEF Calls
<1>3. d = [c EXCEPT !.button = b]
  BY <1>1
<1> HIDE DEF b
<1>4. d \in Calls /\ Like(c, d) /\ d.live = c.live /\ d.to = c.to /\ d.button = b
  BY <1>2, <1>3 DEF Calls, Like
<1>5. c.kind = "create" => b = c.button
  BY <1>2 DEF b
<1> QED
  BY <1>4, <1>5

\* The calls when the dialog is closed.
Dismissed(A) == {[c EXCEPT !.live = c.live /\ c.kind # "create"] : c \in A}

LEMMA DismissedIs ==
  ASSUME NEW A, A \subseteq Calls, NEW d \in Dismissed(A)
  PROVE  \E c \in A : /\ d \in Calls /\ Like(c, d) /\ (d.live <=> c.live /\ c.kind # "create") /\ d.to = c.to
<1>1. PICK c \in A : d = [c EXCEPT !.live = c.live /\ c.kind # "create"]
  BY Zenon DEF Dismissed
<1> DEFINE l == c.live /\ c.kind # "create"
<1>2. c \in Calls /\ l \in BOOLEAN
  BY DEF Calls
<1>3. d = [c EXCEPT !.live = l]
  BY <1>1
<1> HIDE DEF l
<1>4. d \in Calls /\ Like(c, d) /\ d.live = l /\ d.to = c.to
  BY <1>2, <1>3 DEF Calls, Like
<1> QED
  BY <1>4 DEF l

\* The answers are awaited of a bounded number of calls.
LEMMA ImageSmall ==
  ASSUME NEW A, NEW B, NEW f \in [A -> B], \A b \in B : \E a \in A : f[a] = b, IsFiniteSet(A)
  PROVE  IsFiniteSet(B) /\ Cardinality(B) <= Cardinality(A)
<1>1. f \in Surjection(A, B)
  BY DEF Surjection
<1> QED
  BY <1>1, FS_Surjection

LEMMA SmallFacts ==
  ASSUME NEW A
  PROVE  /\ Few(A) => Small(A) /\ \A x : Small(A \cup {x})
         /\ Small(A) => \A x \in A : Few(A \ {x})
         /\ IsFiniteSet(A) /\ Cardinality(A) < MaxCalls => Few(A)
<1>0. MaxCalls \in Nat
  BY DashboardAssumption
<1>1. IsFiniteSet(A) => Cardinality(A) \in Nat
  BY FS_CardinalityType
<1>2. ASSUME Few(A), NEW x PROVE Small(A \cup {x})
  <2>1. IsFiniteSet(A) /\ Cardinality(A) \in Nat
    BY <1>1, <1>2 DEF Few
  <2>2. IsFiniteSet(A \cup {x}) /\ (Cardinality(A \cup {x}) = Cardinality(A) \/ Cardinality(A \cup {x}) = Cardinality(A) + 1)
    BY <2>1, FS_AddElement
  <2> QED
    BY <1>0, <1>2, <2>1, <2>2 DEF Few, Small
<1>3. ASSUME Small(A), NEW x \in A PROVE Few(A \ {x})
  <2>1. IsFiniteSet(A) /\ Cardinality(A) \in Nat
    BY <1>1, <1>3 DEF Small
  <2>2. IsFiniteSet(A \ {x}) /\ Cardinality(A \ {x}) = Cardinality(A) - 1
    BY <1>3, <2>1, FS_RemoveElement
  <2> QED
    BY <1>0, <1>3, <2>1, <2>2 DEF Few, Small
<1>4. Few(A) => Small(A)
  BY <1>0, <1>1 DEF Few, Small
<1>5. IsFiniteSet(A) /\ Cardinality(A) < MaxCalls => Few(A)
  BY <1>0, <1>1 DEF Few
<1> QED
  BY <1>2, <1>3, <1>4, <1>5

LEMMA ImagesSmall ==
  ASSUME NEW A, IsFiniteSet(A)
  PROVE  /\ IsFiniteSet(Leave(A)) /\ Cardinality(Leave(A)) <= Cardinality(A)
         /\ IsFiniteSet(Renewed(A)) /\ Cardinality(Renewed(A)) <= Cardinality(A)
         /\ IsFiniteSet(Dismissed(A)) /\ Cardinality(Dismissed(A)) <= Cardinality(A)
<1>1. IsFiniteSet(Leave(A)) /\ Cardinality(Leave(A)) <= Cardinality(A)
  <2> DEFINE f == [c \in A |-> [c EXCEPT !.live = c.kind = "create" /\ c.live,
                                        !.to = IF c.kind = "current" /\ c.live THEN page.choice ELSE c.to]]
  <2>1. f \in [A -> Leave(A)] /\ \A b \in Leave(A) : \E a \in A : f[a] = b
    BY Zenon DEF Leave
  <2> HIDE DEF f
  <2> QED
    BY <2>1, ImageSmall
<1>2. IsFiniteSet(Renewed(A)) /\ Cardinality(Renewed(A)) <= Cardinality(A)
  <2> DEFINE f == [c \in A |-> [c EXCEPT !.button = c.button /\ c.kind \notin {"current", "put"}]]
  <2>1. f \in [A -> Renewed(A)] /\ \A b \in Renewed(A) : \E a \in A : f[a] = b
    BY Zenon DEF Renewed
  <2> HIDE DEF f
  <2> QED
    BY <2>1, ImageSmall
<1>3. IsFiniteSet(Dismissed(A)) /\ Cardinality(Dismissed(A)) <= Cardinality(A)
  <2> DEFINE f == [c \in A |-> [c EXCEPT !.live = c.live /\ c.kind # "create"]]
  <2>1. f \in [A -> Dismissed(A)] /\ \A b \in Dismissed(A) : \E a \in A : f[a] = b
    BY Zenon DEF Dismissed
  <2> HIDE DEF f
  <2> QED
    BY <2>1, ImageSmall
<1> QED
  BY <1>1, <1>2, <1>3

-----------------------------------------------------------------------------
(* Every step keeps the dashboard's types.                                 *)

Fine(A) == \A c \in A : CallOK(c)

LEMMA LeaveFine ==
  ASSUME PageOK, NEW A, Fine(A)
  PROVE  \A d \in Leave(A) : CallOK(d)'
<1> SUFFICES ASSUME NEW d \in Leave(A) PROVE CallOK(d)'
  OBVIOUS
<1>1. A \subseteq Calls
  BY DEF Fine, CallOK
<1>2. PICK c \in A : /\ d \in Calls /\ Like(c, d) /\ (d.live <=> c.kind = "create" /\ c.live)
                     /\ d.to = IF c.kind = "current" /\ c.live THEN page.choice ELSE c.to
  BY <1>1, LeaveIs
<1>3. CallOK(c) /\ c.view \in Visited
  BY <1>1 DEF Fine, Calls
<1>4. ASSUME d.kind = "current" PROVE d.to \in Orgs
  <2>1. c.kind = "current" /\ c.view = "settings"
    BY <1>2, <1>3, <1>4 DEF Like, CallOK
  <2>2. c.live => page.choice \in Orgs
    BY <1>3, <2>1, PageIs, ViewIs DEF CallOK, OfPage
  <2> QED
    BY <1>2, <1>3, <2>1, <2>2 DEF CallOK
<1> QED
  BY <1>2, <1>3, <1>4 DEF CallOK, Like, OfPage

LEMMA CallStays ==
  ASSUME NEW c, NEW d, CallOK(c), page'.view = page.view, d \in Calls, Like(c, d), d.live => c.live, d.to = c.to,
         c.kind = "current" /\ c.live => d.live
  PROVE  CallOK(d)'
  BY DEF CallOK, Like

LEMMA SameFine ==
  ASSUME NEW A, Fine(A), page'.view = page.view
  PROVE  \A c \in A : CallOK(c)'
  BY DEF Fine, CallOK

LEMMA RenewedFine ==
  ASSUME NEW A, Fine(A), page'.view = page.view
  PROVE  \A d \in Renewed(A) : CallOK(d)'
<1> SUFFICES ASSUME NEW d \in Renewed(A) PROVE CallOK(d)'
  OBVIOUS
<1>1. A \subseteq Calls
  BY DEF Fine, CallOK
<1>2. PICK c \in A : d \in Calls /\ Like(c, d) /\ d.live = c.live /\ d.to = c.to
  BY <1>1, RenewedIs
<1> QED
  BY <1>2, CallStays DEF Fine

LEMMA DismissedFine ==
  ASSUME NEW A, Fine(A), page'.view = page.view
  PROVE  \A d \in Dismissed(A) : CallOK(d)'
<1> SUFFICES ASSUME NEW d \in Dismissed(A) PROVE CallOK(d)'
  OBVIOUS
<1>1. A \subseteq Calls
  BY DEF Fine, CallOK
<1>2. PICK c \in A : d \in Calls /\ Like(c, d) /\ (d.live <=> c.live /\ c.kind # "create") /\ d.to = c.to
  BY <1>1, DismissedIs
<1> QED
  BY <1>2, CallStays DEF Fine

\* A call for the page there is.
LEMMA AskFine ==
  ASSUME NEW kind \in {"signin", "orgs", "render", "load", "route", "reload"}, NEW token \in Tokens \cup {"none"},
         NEW v \in Visited, NEW choice \in Choices, NEW c, c = Ask(kind, token, v, choice),
         kind \in {"render", "load"} => choice \in View[v].choices,
         kind \in OfPage => page'.view = v
  PROVE  CallOK(c)'
<1>1. c \in Calls /\ c.kind = kind /\ c.view = v /\ c.choice = choice
  BY DEF Ask, Calls
<1> QED
  BY <1>1 DEF CallOK

\* What is left and what is new.
Shown == PageOK' /\ CallsOK' /\ Small(pending)'

LEMMA LoginTypes ==
  ASSUME UiTypeInv, NEW A, Fine(A), Small(A), RenderLogin(A)
  PROVE  Shown
<1>1. pending' = Leave(A) /\ page' = Bare
  BY DEF RenderLogin
<1>2. CallsOK'
  BY <1>1, LeaveFine DEF CallsOK, UiTypeInv
<1>3. Small(pending)'
  <2>1. IsFiniteSet(A) /\ Cardinality(A) <= MaxCalls + 1 /\ Cardinality(A) \in Nat /\ MaxCalls \in Nat
    BY FS_CardinalityType, DashboardAssumption DEF Small
  <2>2. IsFiniteSet(Leave(A)) /\ Cardinality(Leave(A)) <= Cardinality(A) /\ Cardinality(Leave(A)) \in Nat
    BY <2>1, ImagesSmall, FS_CardinalityType
  <2> QED
    BY <1>1, <2>1, <2>2 DEF Small
<1> QED
  BY <1>1, <1>2, <1>3 DEF Shown, PageOK

LEMMA LayTypes ==
  ASSUME UiTypeInv, NEW v \in Visited, NEW A, Fine(A), Few(A), Lay(v, A)
  PROVE  Shown /\ page'.view = v /\ page'.shows = "loading" /\ page'.choice = First(v)
<1>0. PICK c : c = Ask("render", session, v, First(v))
  OBVIOUS
<1>1. /\ page' = [view |-> v, shows |-> "loading", choice |-> First(v), body |-> First(v)]
      /\ pending' = Leave(A) \cup {c}
  BY <1>0 DEF Lay
<1>2. First(v) \in View[v].choices /\ First(v) \in Choices
  BY ViewIs
<1>3. page'.view = v /\ page'.shows = "loading" /\ page'.choice = First(v) /\ page' \in Pages /\ PageOK'
  BY <1>1, <1>2 DEF PageOK, Pages
<1>4. CallOK(c)'
  BY <1>0, <1>2, <1>3, AskFine DEF UiTypeInv, RestOK
<1>5. CallsOK'
  BY <1>1, <1>4, LeaveFine DEF CallsOK, UiTypeInv
<1>6. Few(Leave(A))
  <2>1. IsFiniteSet(A) /\ Cardinality(A) <= MaxCalls /\ Cardinality(A) \in Nat /\ MaxCalls \in Nat
    BY FS_CardinalityType, DashboardAssumption DEF Few
  <2>2. IsFiniteSet(Leave(A)) /\ Cardinality(Leave(A)) <= Cardinality(A) /\ Cardinality(Leave(A)) \in Nat
    BY <2>1, ImagesSmall, FS_CardinalityType
  <2> QED
    BY <2>1, <2>2 DEF Few
<1>7. Small(pending)'
  <2>1. Small(Leave(A) \cup {c})
    BY <1>6, SmallFacts
  <2> QED
    BY <1>1, <2>1 DEF Small
<1> QED
  BY <1>3, <1>5, <1>7 DEF Shown

\* A call is added, or answered by another one, and the page stays what it is of.
LEMMA AddTypes ==
  ASSUME UiTypeInv, NEW A, Fine(A), Few(A), NEW c, CallOK(c)', pending' = A \cup {c}, page'.view = page.view
  PROVE  CallsOK' /\ Small(pending)'
<1>1. CallsOK'
  BY SameFine DEF CallsOK
<1>2. Small(A \cup {c})
  BY SmallFacts
<1> QED
  BY <1>1, <1>2 DEF Small

LEMMA LessTypes ==
  ASSUME UiTypeInv, NEW A, Fine(A), Small(A), pending' = A, page'.view = page.view
  PROVE  CallsOK' /\ Small(pending)'
  BY SameFine DEF CallsOK, Small

LEMMA RouteTypes ==
  ASSUME UiTypeInv, NEW v \in Visited, NEW A, Fine(A), Few(A), UNCHANGED session, Route(v, A)
  PROVE  Shown /\ together' \in BOOLEAN
<1>1. together' \in BOOLEAN
  BY DEF Route, UiTypeInv, RestOK
<1>2. CASE RenderLogin(A)
  BY <1>1, <1>2, LoginTypes, SmallFacts
<1>3. CASE Lay(v, A)
  BY <1>1, <1>3, LayTypes
<1>4. CASE pending' = A \cup {Ask("orgs", session', v, "all")} /\ UNCHANGED page
  <2>1. PICK c : c = Ask("orgs", session, v, "all")
    OBVIOUS
  <2>2. CallOK(c)'
    BY <2>1, ViewIs, AskFine DEF UiTypeInv, RestOK, OfPage
  <2>3. CallsOK' /\ Small(pending)'
    BY <1>4, <2>1, <2>2, AddTypes
  <2> QED
    BY <1>1, <1>4, <2>3 DEF Shown, UiTypeInv, PageOK
<1> QED
  BY <1>2, <1>3, <1>4 DEF Route

\* What is not in the window.
LEMMA RestStays ==
  ASSUME UiTypeInv, UNCHANGED <<stored, issued, noted, abandoned, failures>>, dialog' = dialog,
         address' \in Visited, session' \in Tokens \cup {"none"}, accepted' \in Tokens, orgList' \in BOOLEAN,
         hasty' \in BOOLEAN, together' \in BOOLEAN
  PROVE  RestOK' /\ DialogOK'
  BY DEF UiTypeInv, RestOK, DialogOK

LEMMA UiTypeClicked ==
  ASSUME UiTypeInv, Clicked
  PROVE  UiTypeInv'
<1>0. /\ Fine(pending) /\ Small(pending) /\ PageOK /\ DialogOK /\ RestOK /\ IsFiniteSet(pending)
      /\ Room => Few(pending)
      /\ Ready => page.view \in Visited /\ page \in Pages
  BY SmallFacts, PageIs DEF UiTypeInv, CallsOK, Fine, Small, Room
<1>1. ASSUME NEW t \in Tokens, SignIn(t) PROVE UiTypeInv'
  <2>1. PICK c : c = Ask("signin", t, address, "all")
    OBVIOUS
  <2>2. CallOK(c)'
    BY <1>0, <2>1, AskFine, ViewIs DEF RestOK, OfPage
  <2>3. CallsOK' /\ Small(pending)'
    BY <1>0, <1>1, <2>1, <2>2, AddTypes DEF SignIn
  <2>4. RestOK' /\ DialogOK' /\ PageOK'
    BY <1>0, <1>1, RestStays DEF SignIn, data, trace, RestOK, PageOK
  <2> QED
    BY <2>3, <2>4 DEF UiTypeInv
<1>2. ASSUME NEW t \in Tokens, Rotate(t) PROVE UiTypeInv'
  <2>1. CallsOK' /\ Small(pending)'
    BY <1>0, <1>2, LessTypes DEF Rotate
  <2>2. failures' \in 0..MaxFailures
    BY <1>0, <1>2, DashboardAssumption DEF Rotate, RestOK
  <2>3. RestOK' /\ DialogOK' /\ PageOK'
    BY <1>0, <1>2, <2>2 DEF Rotate, data, trace, RestOK, DialogOK, PageOK
  <2> QED
    BY <2>1, <2>3 DEF UiTypeInv
<1>3. CASE SignOut
  <2>1. Shown
    BY <1>0, <1>3, LoginTypes DEF SignOut
  <2>2. RestOK' /\ DialogOK'
    BY <1>0, <1>3, RestStays DEF SignOut, data, trace, RestOK
  <2> QED
    BY <2>1, <2>2 DEF UiTypeInv, Shown
<1>4. ASSUME NEW v \in Visited, HashChange(v) PROVE UiTypeInv'
  <2>1. Shown /\ together' \in BOOLEAN
    BY <1>0, <1>4, RouteTypes DEF HashChange
  <2>2. RestOK' /\ DialogOK'
    BY <1>0, <1>4, <2>1, RestStays DEF HashChange, data, RestOK
  <2> QED
    BY <2>1, <2>2 DEF UiTypeInv, Shown
<1>5. ASSUME NEW choice \in Choices, Choose(choice) PROVE UiTypeInv'
  <2>0. /\ Ready /\ choice \in View[page.view].choices /\ page' = [page EXCEPT !.choice = choice]
        /\ pending' = pending \cup {Ask("load", session, page.view, choice)} /\ Room
    BY <1>5 DEF Choose, Reload
  <2>1. PICK c : c = Ask("load", session, page.view, choice)
    OBVIOUS
  <2>2. page'.view = page.view /\ PageOK'
    BY <1>0, <2>0, PageIs DEF PageOK, Pages
  <2>3. PICK v : v = page.view
    OBVIOUS
  <2>4. CallOK(c)'
    BY <1>0, <2>0, <2>1, <2>2, <2>3, AskFine DEF RestOK
  <2>5. CallsOK' /\ Small(pending)'
    BY <1>0, <2>0, <2>1, <2>2, <2>4, AddTypes
  <2>6. RestOK' /\ DialogOK'
    BY <1>0, <1>5, RestStays DEF Choose, data, RestOK
  <2> QED
    BY <2>2, <2>5, <2>6 DEF UiTypeInv
<1>6. ASSUME NEW next \in {"route", "reload"}, Act(next) PROVE UiTypeInv'
  <2>0. /\ Ready /\ Room /\ UNCHANGED page
        /\ pending' = pending \cup {Ask(next, session, page.view, page.choice)}
    BY <1>6 DEF Act
  <2>1. PICK c : c = Ask(next, session, page.view, page.choice)
    OBVIOUS
  <2>2. CallOK(c)'
    BY <1>0, <2>0, <2>1, PageIs, AskFine DEF RestOK
  <2>3. CallsOK' /\ Small(pending)'
    BY <1>0, <2>0, <2>1, <2>2, AddTypes
  <2>4. RestOK' /\ DialogOK' /\ PageOK'
    BY <1>0, <1>6, RestStays DEF Act, data, trace, RestOK, PageOK
  <2> QED
    BY <2>3, <2>4 DEF UiTypeInv
<1>7. CASE Save
  <2>0. /\ Ready /\ Room /\ page.view \in {"portal", "settings"} /\ UNCHANGED page
        /\ page.choice \in Orgs /\ page.body \in Orgs /\ page.choice \in Choices /\ page.body \in Choices
    BY <1>0, <1>7, PageIs, ViewIs DEF Save
  <2>1. PICK c : c = IF page.view = "portal"
                       THEN [Ask("put", session, "portal", DealerId) EXCEPT !.of = {page.body}]
                       ELSE [Ask("current", session, "settings", page.choice) EXCEPT !.of = {page.body}]
    OBVIOUS
  <2>2. pending' = pending \cup {c}
    BY <1>7, <2>1 DEF Save
  <2>3. /\ c \in Calls /\ c.view = page.view /\ c.choice \in Orgs /\ c.live = TRUE
        /\ c.kind = (IF page.view = "portal" THEN "put" ELSE "current")
    BY <1>0, <2>0, <2>1 DEF Ask, DealerId, Calls, RestOK
  <2>4. CallOK(c)'
    BY <2>0, <2>3 DEF CallOK
  <2>5. CallsOK' /\ Small(pending)'
    BY <1>0, <2>0, <2>2, <2>4, AddTypes
  <2>6. RestOK' /\ DialogOK' /\ PageOK'
    BY <1>0, <1>7, RestStays DEF Save, data, RestOK, PageOK
  <2> QED
    BY <2>5, <2>6 DEF UiTypeInv
<1>8. CASE CreateClient
  <2>1. CallsOK' /\ Small(pending)'
    BY <1>0, <1>8, LessTypes DEF CreateClient
  <2>2. RestOK' /\ DialogOK' /\ PageOK'
    BY <1>0, <1>8 DEF CreateClient, data, trace, RestOK, DialogOK, PageOK
  <2> QED
    BY <2>1, <2>2 DEF UiTypeInv
<1>9. CASE Create
  <2>1. PICK c : c = [Ask("create", session, "clients", "all") EXCEPT
                        !.number = Cardinality({d \in pending : d.kind = "create"})]
    OBVIOUS
  <2>2. pending' = pending \cup {c} /\ Room /\ UNCHANGED page
    BY <1>9, <2>1 DEF Create
  <2>3. Cardinality({d \in pending : d.kind = "create"}) \in Nat
    BY <1>0, FS_Subset, FS_CardinalityType
  <2>4. c \in Calls /\ c.kind = "create" /\ c.view = "clients"
    BY <1>0, <1>9, <2>1, <2>3, ViewIs DEF Create, Ask, Calls, RestOK, DialogOK
  <2>5. CallOK(c)'
    BY <2>4 DEF CallOK, OfPage
  <2>6. CallsOK' /\ Small(pending)'
    BY <1>0, <2>2, <2>5, AddTypes
  <2>7. RestOK' /\ DialogOK' /\ PageOK'
    BY <1>0, <1>9 DEF Create, data, trace, RestOK, DialogOK, PageOK
  <2> QED
    BY <2>6, <2>7 DEF UiTypeInv
<1>10. ASSUME dialog.at = "shows" => dialog.key # 0, Close, Note, UNCHANGED issued
       PROVE  DialogOK' /\ noted' \subseteq 1..issued'
  <2>1. dialog.at \in {"closed", "open", "busy", "shows"} /\ dialog.key \in 0..issued /\ issued \in Nat
    BY <1>0 DEF DialogOK, RestOK
  <2>2. dialog' = [at |-> "closed", key |-> 0] /\ 0 \in 0..issued'
    BY <1>10, <2>1 DEF Close
  <2>3. DialogOK'
    BY <2>2 DEF DialogOK
  <2>4. noted \subseteq 1..issued /\ (dialog.at = "shows" => dialog.key \in 1..issued)
    BY <1>0, <1>10, <2>1 DEF RestOK
  <2> QED
    BY <1>10, <2>3, <2>4 DEF Note
<1>11. CASE Dismiss
  <2>1. pending' = Dismissed(pending) /\ UNCHANGED page
    BY <1>11 DEF Dismiss, Dismissed
  <2>2. CallsOK'
    BY <1>0, <2>1, DismissedFine DEF CallsOK
  <2>3. Small(pending)'
    <3>1. /\ IsFiniteSet(pending) /\ Cardinality(pending) <= MaxCalls + 1 /\ Cardinality(pending) \in Nat
          /\ MaxCalls \in Nat
      BY <1>0, FS_CardinalityType, DashboardAssumption DEF Small
    <3>2. /\ IsFiniteSet(Dismissed(pending)) /\ Cardinality(Dismissed(pending)) <= Cardinality(pending)
          /\ Cardinality(Dismissed(pending)) \in Nat
      BY <3>1, ImagesSmall, FS_CardinalityType
    <3> QED
      BY <2>1, <3>1, <3>2 DEF Small
  <2>4. DialogOK' /\ RestOK' /\ PageOK'
    <3>1. DialogOK' /\ noted' \subseteq 1..issued'
      BY <1>0, <1>10, <1>11 DEF Dismiss, DialogOK
    <3> QED
      BY <1>0, <1>11, <3>1 DEF Dismiss, RestOK, PageOK
  <2> QED
    BY <2>2, <2>3, <2>4 DEF UiTypeInv
<1>12. CASE Done
  <2>1. Shown /\ together' \in BOOLEAN
    BY <1>0, <1>12, RouteTypes DEF Done, RestOK
  <2>2. DialogOK' /\ noted' \subseteq 1..issued'
    BY <1>0, <1>10, <1>12 DEF Done, DialogOK
  <2>3. RestOK'
    BY <1>0, <1>12, <2>1, <2>2 DEF Done, RestOK
  <2> QED
    BY <2>1, <2>2, <2>3 DEF UiTypeInv, Shown
<1> QED
  BY <1>1, <1>2, <1>3, <1>4, <1>5, <1>6, <1>7, <1>8, <1>9, <1>11, <1>12, Zenon DEF Clicked

LEMMA UiTypeAnswered ==
  ASSUME UiTypeInv, NEW c \in pending,
         \/ Refused(c) \/ SignedIn(c) \/ OrgsCame(c) \/ Rendered(c) \/ Loaded(c) \/ Acted(c)
         \/ CurrentCame(c) \/ Saved(c) \/ Created(c) \/ Failed(c)
  PROVE  UiTypeInv'
<1> DEFINE P == pending \ {c}
<1>0. /\ Fine(P) /\ Few(P) /\ Small(P) /\ PageOK /\ DialogOK /\ RestOK
      /\ CallOK(c) /\ c \in Calls /\ c.view \in Visited /\ c.choice \in Choices /\ c.live \in BOOLEAN
      /\ MaxCalls \in Nat
  <2>1. Fine(P) /\ PageOK /\ DialogOK /\ RestOK /\ CallOK(c) /\ Few(P)
    BY SmallFacts DEF UiTypeInv, CallsOK, Fine
  <2> QED
    BY <2>1, SmallFacts, DashboardAssumption DEF CallOK, Calls
<1>13. ASSUME dialog' = dialog \/ (c.kind = "create" /\ dialog' = [dialog EXCEPT !.at = "open"]),
              issued \in 0..issued', issued' \in Nat
       PROVE  DialogOK'
  <2>1. dialog.at \in {"closed", "open", "busy", "shows"} /\ dialog.key \in 0..issued' /\ issued \in Nat
    BY <1>0, <1>13 DEF DialogOK, RestOK
  <2>2. c.kind = "create" => "clients" \in Visited
    BY <1>0 DEF CallOK
  <2>3. CASE dialog' = dialog
    BY <1>0, <2>1, <2>3 DEF DialogOK
  <2>4. CASE c.kind = "create" /\ dialog' = [dialog EXCEPT !.at = "open"]
    BY <1>0, <2>1, <2>2, <2>4 DEF DialogOK
  <2> QED
    BY <1>13, <2>3, <2>4
<1>1. CASE Refused(c)
  <2>1. Shown
    BY <1>0, <1>1, LoginTypes DEF Refused
  <2>2. dialog' = dialog \/ (c.kind = "create" /\ dialog' = [dialog EXCEPT !.at = "open"])
    BY <1>1 DEF Refused
  <2>3. DialogOK'
    <3>1. issued \in 0..issued' /\ issued' \in Nat
      BY <1>0, <1>1 DEF Refused, data, RestOK
    <3> QED
      BY <1>13, <2>2, <3>1
  <2>4. RestOK'
    BY <1>0, <1>1 DEF Refused, data, trace, RestOK
  <2> QED
    BY <2>1, <2>3, <2>4 DEF UiTypeInv, Shown
<1>2. CASE SignedIn(c)
  <2>1. Shown /\ together' \in BOOLEAN
    BY <1>0, <1>2, RouteTypes DEF SignedIn, RestOK
  <2>2. RestOK' /\ DialogOK'
    BY <1>0, <1>2, <2>1, RestStays DEF SignedIn, data, RestOK
  <2> QED
    BY <2>1, <2>2 DEF UiTypeInv, Shown
<1>3. CASE OrgsCame(c)
  <2>1. Shown
    BY <1>0, <1>3, LayTypes DEF OrgsCame
  <2>2. RestOK' /\ DialogOK'
    BY <1>0, <1>3, RestStays DEF OrgsCame, data, trace, RestOK
  <2> QED
    BY <2>1, <2>2 DEF UiTypeInv, Shown
<1>4. CASE Rendered(c)
  <2>1. page'.view = page.view /\ PageOK'
    <3>1. CASE c.live
      <4>1. /\ c.kind = "render" /\ page' = [page EXCEPT !.shows = c.view, !.body = c.choice]
            /\ page.view = c.view /\ c.choice \in View[c.view].choices
        BY <1>0, <1>4, <3>1 DEF Rendered, CallOK, OfPage
      <4>2. page \in Pages /\ page.choice \in View[page.view].choices
        BY <1>0, <4>1, PageIs
      <4> QED
        BY <1>0, <4>1, <4>2 DEF PageOK, Pages
    <3>2. CASE ~c.live
      BY <1>0, <1>4, <3>2 DEF Rendered, PageOK
    <3> QED
      BY <3>1, <3>2
  <2>2. CallsOK' /\ Small(pending)'
    BY <1>0, <1>4, <2>1, LessTypes DEF Rendered
  <2>3. RestOK' /\ DialogOK'
    BY <1>0, <1>4, RestStays DEF Rendered, data, trace, RestOK
  <2> QED
    BY <2>1, <2>2, <2>3 DEF UiTypeInv
<1>5. CASE Loaded(c)
  <2>1. page'.view = page.view /\ PageOK'
    <3>1. CASE c.live
      <4>1. /\ c.kind = "load" /\ page' = [page EXCEPT !.body = c.choice]
            /\ page.view = c.view /\ c.choice \in View[c.view].choices
        BY <1>0, <1>5, <3>1 DEF Loaded, CallOK, OfPage
      <4>2. /\ page \in Pages /\ page.choice \in View[page.view].choices
            /\ page.shows \in {page.view, "loading", "failed"}
        BY <1>0, <4>1, PageIs
      <4> QED
        BY <1>0, <4>1, <4>2 DEF PageOK, Pages
    <3>2. CASE ~c.live
      BY <1>0, <1>5, <3>2 DEF Loaded, PageOK
    <3> QED
      BY <3>1, <3>2
  <2>2. CallsOK' /\ Small(pending)'
    <3>1. CASE pending' = P
      BY <1>0, <2>1, <3>1, LessTypes
    <3>2. CASE pending' = Renewed(P)
      <4>1. CallsOK'
        BY <1>0, <2>1, <3>2, RenewedFine DEF CallsOK
      <4>2. /\ IsFiniteSet(P) /\ Cardinality(P) <= MaxCalls /\ Cardinality(P) \in Nat
        BY <1>0, FS_CardinalityType DEF Few
      <4>3. /\ IsFiniteSet(Renewed(P)) /\ Cardinality(Renewed(P)) <= Cardinality(P)
            /\ Cardinality(Renewed(P)) \in Nat
        BY <4>2, ImagesSmall, FS_CardinalityType
      <4> QED
        BY <1>0, <3>2, <4>1, <4>2, <4>3 DEF Small
    <3> QED
      BY <1>5, <3>1, <3>2 DEF Loaded
  <2>3. RestOK' /\ DialogOK'
    BY <1>0, <1>5, RestStays DEF Loaded, data, trace, RestOK
  <2> QED
    BY <2>1, <2>2, <2>3 DEF UiTypeInv
<1>6. ASSUME c.live, c.kind \in OfPage, pending' = P \cup Reload(page.choice), UNCHANGED page
      PROVE  CallsOK' /\ Small(pending)'
  <2>1. PICK d : d = Ask("load", session, page.view, page.choice)
    OBVIOUS
  <2>2. page.view \in Visited /\ page.choice \in View[page.view].choices /\ page.choice \in Choices
    BY <1>0, <1>6, PageIs DEF CallOK
  <2>3. CallOK(d)'
    BY <1>0, <1>6, <2>1, <2>2, AskFine DEF RestOK
  <2>4. pending' = P \cup {d}
    BY <1>6, <2>1 DEF Reload
  <2> QED
    BY <1>0, <1>6, <2>3, <2>4, AddTypes
<1>7. CASE Acted(c)
  <2>1. CASE Route(address, P)
    <3>1. Shown /\ together' \in BOOLEAN
      BY <1>0, <1>7, <2>1, RouteTypes DEF Acted, RestOK
    <3>2. RestOK' /\ DialogOK'
      BY <1>0, <1>7, <3>1, RestStays DEF Acted, data, RestOK
    <3> QED
      BY <3>1, <3>2 DEF UiTypeInv, Shown
  <2>2. CASE /\ c.kind = "reload" /\ pending' = P \cup IF c.live THEN Reload(page.choice) ELSE {}
             /\ UNCHANGED <<page, together>>
    <3>1. CallsOK' /\ Small(pending)'
      <4>1. CASE c.live
        BY <1>6, <2>2, <4>1 DEF OfPage
      <4>2. CASE ~c.live
        BY <1>0, <2>2, <4>2, LessTypes
      <4> QED
        BY <4>1, <4>2
    <3>2. RestOK' /\ DialogOK' /\ PageOK'
      BY <1>0, <1>7, <2>2, RestStays DEF Acted, data, RestOK, PageOK
    <3> QED
      BY <3>1, <3>2 DEF UiTypeInv
  <2> QED
    BY <1>7, <2>1, <2>2 DEF Acted
<1>8. CASE CurrentCame(c)
  <2>1. /\ c.kind = "current" /\ c.choice \in Orgs /\ c.view = "settings" /\ c.of \subseteq Orgs
        /\ (c.live => page.view = "settings" /\ page.choice \in Orgs) /\ (~c.live => c.to \in Orgs)
        /\ c.button \in BOOLEAN
    <3>1. c.kind = "current"
      BY <1>8 DEF CurrentCame
    <3> QED
      BY <1>0, <3>1, PageIs, ViewIs DEF CallOK, OfPage, Calls
  <2>2. PICK o \in Orgs : o = IF c.live THEN page.choice ELSE c.to
    BY <2>1
  <2>3. PICK d : d = [Ask("put", session, "settings", o) EXCEPT
                        !.of = c.of \cup stored["settings"][c.choice], !.live = c.live, !.button = c.button]
    OBVIOUS
  <2>4. pending' = P \cup {d} /\ UNCHANGED page
    BY <1>8, <2>2, <2>3 DEF CurrentCame
  <2>5. stored["settings"][c.choice] \subseteq Orgs
    BY <1>0, <2>1 DEF RestOK
  <2>6. d \in Calls /\ d.kind = "put" /\ d.view = "settings" /\ d.choice \in Orgs /\ d.live = c.live
    <3>1. o \in Choices /\ session \in Tokens \cup {"none"} /\ "settings" \in Visited
      BY <1>0, <2>1, ViewIs DEF RestOK
    <3> QED
      BY <1>0, <2>1, <2>3, <2>5, <3>1 DEF Ask, Calls
  <2>7. CallOK(d)'
    BY <1>0, <2>1, <2>4, <2>6 DEF CallOK
  <2>8. CallsOK' /\ Small(pending)'
    BY <1>0, <2>4, <2>7, AddTypes
  <2>9. RestOK' /\ DialogOK' /\ PageOK'
    BY <1>0, <1>8, RestStays DEF CurrentCame, data, trace, RestOK, PageOK
  <2> QED
    BY <2>8, <2>9 DEF UiTypeInv
<1>9. ASSUME c.kind = "put", stored' = [stored EXCEPT ![c.view][c.choice] = c.of]
      PROVE  stored' \in [{"portal", "settings"} -> [Orgs -> SUBSET Orgs]]
  <2>1. c.view \in {"portal", "settings"} /\ c.choice \in Orgs /\ c.of \in SUBSET Orgs
    BY <1>0, <1>9 DEF CallOK, Calls
  <2> QED
    BY <1>0, <1>9, <2>1 DEF RestOK
<1>10. CASE Saved(c)
  <2>1. CallsOK' /\ Small(pending)'
    <3>1. CASE c.live /\ c.view = "portal"
      BY <1>6, <1>10, <3>1 DEF Saved, OfPage
    <3>2. CASE ~(c.live /\ c.view = "portal")
      BY <1>0, <1>10, <3>2, LessTypes DEF Saved
    <3> QED
      BY <3>1, <3>2
  <2>2. RestOK' /\ DialogOK' /\ PageOK'
    BY <1>0, <1>9, <1>10 DEF Saved, trace, RestOK, DialogOK, PageOK
  <2> QED
    BY <2>1, <2>2 DEF UiTypeInv
<1>11. CASE Created(c)
  <2>1. CallsOK' /\ Small(pending)'
    BY <1>0, <1>11, LessTypes DEF Created
  <2>2. issued \in 0..MaxIssued /\ MaxIssued \in Nat /\ issued' = issued + 1 /\ issued' \in 0..MaxIssued
    BY <1>0, <1>11, DashboardAssumption DEF Created, RestOK
  <2>3. RestOK' /\ PageOK'
    BY <1>0, <1>11, <2>2 DEF Created, trace, RestOK, PageOK
  <2>4. DialogOK'
    <3>1. CASE c.live
      <4>1. dialog' = [at |-> "shows", key |-> issued + 1] /\ c.kind = "create" /\ issued + 1 \in 0..issued' /\ issued + 1 # 0
        BY <1>11, <2>2, <3>1 DEF Created
      <4>2. "clients" \in Visited
        BY <1>0, <4>1 DEF CallOK
      <4> QED
        BY <4>1, <4>2 DEF DialogOK
    <3>2. CASE ~c.live
      BY <1>0, <1>11, <2>2, <3>2 DEF Created, DialogOK
    <3> QED
      BY <3>1, <3>2
  <2> QED
    BY <2>1, <2>3, <2>4 DEF UiTypeInv
<1>12. CASE Failed(c)
  <2>1. page'.view = page.view /\ PageOK'
    <3>1. CASE c.kind = "render" /\ c.live
      <4>1. page.view \in Visited /\ page' = [page EXCEPT !.shows = "failed"]
        BY <1>0, <1>12, <3>1 DEF Failed, CallOK, OfPage
      <4>2. page \in Pages /\ page.choice \in View[page.view].choices /\ page.body \in View[page.view].choices
        BY <1>0, <4>1, PageIs
      <4> QED
        BY <4>1, <4>2 DEF PageOK, Pages
    <3>2. CASE ~(c.kind = "render" /\ c.live)
      BY <1>0, <1>12, <3>2 DEF Failed, PageOK
    <3> QED
      BY <3>1, <3>2
  <2>2. CallsOK' /\ Small(pending)'
    BY <1>0, <1>12, <2>1, LessTypes DEF Failed
  <2>3. stored' \in [{"portal", "settings"} -> [Orgs -> SUBSET Orgs]]
    BY <1>0, <1>9, <1>12 DEF Failed, data, RestOK
  <2>4. issued \in 0..issued' /\ issued' \in 0..MaxIssued /\ UNCHANGED noted
    BY <1>0, <1>12, DashboardAssumption DEF Failed, data, RestOK
  <2>5. failures' \in 0..MaxFailures /\ hasty' \in BOOLEAN
    BY <1>0, <1>12, DashboardAssumption DEF Failed, RestOK
  <2>6. UNCHANGED <<address, session, accepted, orgList, together, abandoned>>
    BY <1>12 DEF Failed
  <2>7. RestOK'
    BY <1>0, <2>3, <2>4, <2>5, <2>6 DEF RestOK
  <2>8. dialog' = dialog \/ (c.kind = "create" /\ dialog' = [dialog EXCEPT !.at = "open"])
    BY <1>12 DEF Failed
  <2>9. DialogOK'
    BY <1>0, <1>13, <2>4, <2>8
  <2> QED
    BY <2>1, <2>2, <2>7, <2>9 DEF UiTypeInv
<1> QED
  BY <1>1, <1>2, <1>3, <1>4, <1>5, <1>7, <1>8, <1>10, <1>11, <1>12

LEMMA UiTypeInit == UiInit => UiTypeInv
<1> SUFFICES ASSUME UiInit PROVE UiTypeInv
  OBVIOUS
<1>0. /\ MaxCalls \in Nat /\ MaxIssued \in Nat /\ MaxFailures \in Nat
      /\ address \in Visited /\ session \in Tokens \cup {"none"}
  BY DashboardAssumption DEF UiInit
<1>1. PICK c : c = Ask("orgs", session, address, "all")
  OBVIOUS
<1>2. c \in Calls /\ c.kind = "orgs"
  BY <1>0, <1>1, ViewIs DEF Ask, Calls
<1>3. CallOK(c)
  BY <1>2 DEF CallOK, OfPage
<1>4. pending = {} \/ pending = {c}
  BY <1>1 DEF UiInit
<1>5. CallsOK
  BY <1>3, <1>4 DEF CallsOK
<1>6. Small(pending)
  <2>1. Few({}) /\ {} \cup {c} = {c}
    BY <1>0, FS_EmptySet DEF Few
  <2>2. Small({}) /\ Small({c})
    BY <2>1, SmallFacts
  <2> QED
    BY <1>4, <2>2
<1>7. PageOK /\ DialogOK
  BY DEF UiInit, PageOK, DialogOK
<1>8. RestOK
  <2>1. stored \in [{"portal", "settings"} -> [Orgs -> SUBSET Orgs]]
    BY DEF UiInit
  <2>2. issued \in 0..MaxIssued /\ noted \subseteq 1..issued /\ failures \in 0..MaxFailures
    BY <1>0 DEF UiInit
  <2>3. orgList \in BOOLEAN /\ hasty \in BOOLEAN /\ together \in BOOLEAN /\ abandoned \in BOOLEAN
    BY DEF UiInit
  <2>4. address \in Visited /\ session \in Tokens \cup {"none"} /\ accepted \in Tokens
    BY DEF UiInit
  <2> QED
    BY <2>1, <2>2, <2>3, <2>4 DEF RestOK
<1> QED
  BY <1>5, <1>6, <1>7, <1>8 DEF UiTypeInv

LEMMA UiTypeStep == UiTypeInv /\ [UiNext]_uiVars => UiTypeInv'
<1> SUFFICES ASSUME UiTypeInv, [UiNext]_uiVars PROVE UiTypeInv'
  OBVIOUS
<1>1. CASE UNCHANGED uiVars
  BY <1>1 DEF uiVars, data, trace, UiTypeInv, CallsOK, CallOK, Small, PageOK, DialogOK, RestOK
<1>2. CASE Clicked
  BY <1>2, UiTypeClicked
<1>3. CASE Answered
  BY <1>3, UiTypeAnswered DEF Answered
<1> QED
  BY <1>1, <1>2, <1>3 DEF UiNext

LEMMA UiTypeIsEnough == UiTypeInv => UiTypeOK
<1> SUFFICES ASSUME UiTypeInv PROVE UiTypeOK
  OBVIOUS
<1>1. pending \subseteq Calls /\ Cardinality(pending) <= MaxCalls + 1
  BY DEF UiTypeInv, CallsOK, CallOK, Small
<1>2. page \in Pages \cup {Bare, Blank} /\ (page \in Pages => page.choice \in View[page.view].choices)
  <2>1. page \in Pages => page.view \in Visited
    BY DEF Pages
  <2> QED
    BY <2>1, PageIs DEF UiTypeInv, PageOK
<1>3. <<hasty, together, abandoned>> \in BOOLEAN \X BOOLEAN \X BOOLEAN
  BY DEF UiTypeInv, RestOK
<1> QED
  BY <1>1, <1>2, <1>3 DEF UiTypeOK, UiTypeInv, DialogOK, RestOK

-----------------------------------------------------------------------------
(* The view of the address.  A page that is shown was routed to with a        *)
(* token, or for a call that will be refused; what is not shown yet is on   *)
(* its way.                                                                *)

Drawing(c) == c.live /\ c.kind = "render"
Tokened == session # "none" \/ \E c \in pending : c.token = "none"
Coming == \E c \in pending : c.kind \in {"signin", "orgs"}
ViewInv ==
  /\ page.view \in Visited => orgList /\ Tokened
  /\ ~together => /\ page.view \in Visited => page.view = address
                  /\ \A c \in pending : c.kind = "orgs" => c.view = address
  /\ page.view \in Visited /\ page.shows = "loading" => \E c \in pending : Drawing(c)
  /\ page.view \notin Visited => session = "none" \/ failures > 0 \/ Coming

\* The calls under way are the ones there were and others, and the page is
\* of the same view.
LEMMA ViewStays ==
  ASSUME UiTypeInv, ViewInv, UNCHANGED <<address, session, orgList, together>>, page'.view = page.view,
         page'.shows = page.shows \/ page'.shows # "loading",
         \A c \in pending : \/ \E d \in pending' : /\ d.kind = c.kind /\ d.token = c.token
                                                   /\ (d.kind # "create" => d.live = c.live)
                            \/ /\ c.token # "none" /\ c.kind \notin {"signin", "orgs"}
                               /\ Drawing(c) => page'.shows # "loading",
         \A d \in pending' : \/ \E c \in pending : d.kind = c.kind /\ d.view = c.view
                             \/ d.kind # "orgs",
         failures' \in {failures, failures + 1}
  PROVE  ViewInv'
<1>1. Tokened => Tokened'
  BY DEF Tokened
<1>2. Coming => Coming'
  BY DEF Coming
<1>3. page.shows = "loading" /\ (\E c \in pending : Drawing(c)) /\ page'.shows = "loading" => \E c \in pending' : Drawing(c)
  BY DEF Drawing
<1>4. failures \in Nat /\ failures' \in {failures, failures + 1}
  BY DEF UiTypeInv, RestOK
<1>5. ASSUME ~together PROVE \A d \in pending' : d.kind = "orgs" => d.view = address'
  BY <1>5 DEF ViewInv
<1>6. page'.view \in Visited => orgList' /\ Tokened'
  BY <1>1 DEF ViewInv
<1>7. ~together' => /\ page'.view \in Visited => page'.view = address'
                   /\ \A c \in pending' : c.kind = "orgs" => c.view = address'
  BY <1>5 DEF ViewInv
<1>8. page'.view \in Visited /\ page'.shows = "loading" => \E c \in pending' : Drawing(c)
  BY <1>3 DEF ViewInv
<1>9. failures > 0 => failures' > 0
  BY <1>4
<1>10. page'.view \notin Visited => session' = "none" \/ failures' > 0 \/ Coming'
  BY <1>2, <1>9 DEF ViewInv
<1> QED
  BY <1>6, <1>7, <1>8, <1>10 DEF ViewInv

LEMMA ViewInit == UiInit => ViewInv
<1> SUFFICES ASSUME UiInit PROVE ViewInv
  OBVIOUS
<1>1. page.view \notin Visited
  BY ViewIs DEF UiInit, Bare, Blank
<1>2. CASE session = "none"
  BY <1>1, <1>2 DEF UiInit, ViewInv
<1>3. CASE session # "none"
  <2>1. PICK c : c = Ask("orgs", session, address, "all")
    OBVIOUS
  <2>2. pending = {c} /\ c.kind = "orgs" /\ c.view = address
    BY <1>3, <2>1 DEF UiInit, Ask
  <2> QED
    BY <1>1, <2>2 DEF ViewInv, Coming
<1> QED
  BY <1>2, <1>3

\* A refusal, or no token: the login.
LEMMA ViewLogin ==
  ASSUME UiTypeInv, NEW A, A \subseteq pending, RenderLogin(A), session' = "none",
         ~together' => \A c \in A : c.kind = "orgs" => c.view = address'
  PROVE  ViewInv'
<1>1. A \subseteq Calls /\ PageOK
  BY DEF UiTypeInv, CallsOK, CallOK
<1>2. pending' = Leave(A) /\ page' = Bare
  BY DEF RenderLogin
<1>3. page'.view \notin Visited
  BY <1>2, ViewIs DEF Bare
<1>4. ASSUME ~together', NEW d \in pending', d.kind = "orgs" PROVE d.view = address'
  <2>1. PICK c \in A : Like(c, d)
    BY <1>1, <1>2, LeaveIs
  <2> QED
    BY <1>4, <2>1 DEF Like
<1> QED
  BY <1>3, <1>4 DEF ViewInv

\* A new page asks with the token there is.
LEMMA ViewLaid ==
  ASSUME UiTypeInv, NEW A, A \subseteq pending, NEW v \in Visited, Lay(v, A), UNCHANGED session, orgList' = TRUE,
         ~together' => v = address' /\ \A c \in A : c.kind = "orgs" => c.view = address'
  PROVE  ViewInv'
<1>1. A \subseteq Calls /\ PageOK
  BY DEF UiTypeInv, CallsOK, CallOK
<1>2. PICK r : r = Ask("render", session, v, First(v))
  OBVIOUS
<1>3. pending' = Leave(A) \cup {r} /\ page'.view = v
  BY <1>2 DEF Lay
<1>4. r \in pending' /\ r.kind = "render" /\ r.live = TRUE /\ r.token = session
  BY <1>2, <1>3 DEF Ask
<1>5. ASSUME ~together', NEW d \in pending', d.kind = "orgs" PROVE d.view = address'
  <2>1. d \in Leave(A)
    BY <1>3, <1>4, <1>5
  <2>2. PICK c \in A : Like(c, d)
    BY <1>1, <2>1, LeaveIs
  <2> QED
    BY <1>5, <2>2 DEF Like
<1>6. Tokened' /\ \E c \in pending' : Drawing(c)
  BY <1>4 DEF Tokened, Drawing
<1> QED
  BY <1>3, <1>5, <1>6 DEF ViewInv

LEMMA ViewRouted ==
  ASSUME UiTypeInv, ViewInv, NEW A, A \subseteq pending, Route(address', A), address' \in Visited,
         UNCHANGED <<session, orgList>>
  PROVE  ViewInv'
<1>1. ~together' => ~together /\ \A c \in A : c.kind # "orgs"
  BY DEF Route
<1>2. CASE session' = "none"
  BY <1>1, <1>2, ViewLogin DEF Route
<1>3. CASE session' # "none" /\ orgList
  <2>1. PICK v \in Visited : v = address'
    OBVIOUS
  <2>2. Lay(v, A)
    BY <1>3, <2>1 DEF Route
  <2> QED
    BY <1>1, <1>3, <2>1, <2>2, ViewLaid
<1>4. CASE session' # "none" /\ ~orgList
  <2>1. PICK r : r = Ask("orgs", session', address', "all")
    OBVIOUS
  <2>2. pending' = A \cup {r} /\ page' = page /\ r.kind = "orgs" /\ r.view = address'
    BY <1>4, <2>1 DEF Route, Ask
  <2>3. page'.view \notin Visited
    BY <1>4, <2>2 DEF ViewInv
  <2> QED
    BY <1>1, <2>2, <2>3 DEF ViewInv, Coming
<1> QED
  BY <1>2, <1>3, <1>4 DEF UiTypeInv, RestOK

LEMMA RenewedKeeps ==
  ASSUME NEW A, A \subseteq Calls, NEW c \in A
  PROVE  \E d \in Renewed(A) : Like(c, d) /\ d.live = c.live /\ d.to = c.to /\ (c.kind = "create" => d.button = c.button)
<1>1. PICK d : d = [c EXCEPT !.button = c.button /\ c.kind \notin {"current", "put"}]
  OBVIOUS
<1>2. d \in Renewed(A)
  BY <1>1, Zenon DEF Renewed
<1> DEFINE b == c.button /\ c.kind \notin {"current", "put"}
<1>3. c \in Calls /\ b \in BOOLEAN /\ c.button \in BOOLEAN /\ d = [c EXCEPT !.button = b]
  BY <1>1 DEF Calls
<1>4. c.kind = "create" => b = c.button
  BY <1>3 DEF b
<1> HIDE DEF b
<1>5. Like(c, d) /\ d.live = c.live /\ d.to = c.to /\ d.button = b
  BY <1>3 DEF Calls, Like
<1> QED
  BY <1>2, <1>4, <1>5

LEMMA DismissedKeeps ==
  ASSUME NEW A, A \subseteq Calls, NEW c \in A
  PROVE  \E d \in Dismissed(A) : Like(c, d) /\ d.to = c.to /\ (c.kind # "create" => d.live = c.live)
<1>1. PICK d : d = [c EXCEPT !.live = c.live /\ c.kind # "create"]
  OBVIOUS
<1>2. d \in Dismissed(A)
  BY <1>1, Zenon DEF Dismissed
<1> DEFINE l == c.live /\ c.kind # "create"
<1>3. c \in Calls /\ l \in BOOLEAN /\ c.live \in BOOLEAN /\ d = [c EXCEPT !.live = l]
  BY <1>1 DEF Calls
<1>4. c.kind # "create" => l = c.live
  BY <1>3 DEF l
<1> HIDE DEF l
<1>5. Like(c, d) /\ d.live = l /\ d.to = c.to
  BY <1>3 DEF Calls, Like
<1> QED
  BY <1>2, <1>4, <1>5

LEMMA ViewClicked ==
  ASSUME UiTypeInv, ViewInv, Clicked
  PROVE  ViewInv'
<1>0. /\ address \in Visited /\ session \in Tokens \cup {"none"} /\ failures \in Nat /\ "none" \notin Tokens
      /\ pending \subseteq Calls /\ "login" \notin Visited
  BY ViewIs, DashboardAssumption DEF UiTypeInv, RestOK, CallsOK, CallOK
<1>1. ASSUME NEW t \in Tokens, SignIn(t) PROVE ViewInv'
  <2>1. PICK c : c = Ask("signin", t, address, "all")
    OBVIOUS
  <2>2. /\ pending' = pending \cup {c} /\ c.kind = "signin" /\ page.view = "login"
        /\ UNCHANGED <<address, page, together>>
    BY <1>1, <2>1 DEF SignIn, Ask, trace
  <2>3. page'.view \notin Visited
    BY <1>0, <2>2
  <2> QED
    BY <2>2, <2>3 DEF ViewInv, Coming
<1>2. ASSUME NEW t \in Tokens, Rotate(t) PROVE ViewInv'
  BY <1>2, ViewStays DEF Rotate, trace
<1>3. CASE SignOut
  BY <1>3, ViewLogin DEF SignOut, trace, ViewInv
<1>4. ASSUME NEW v \in Visited, HashChange(v) PROVE ViewInv'
  BY <1>4, ViewRouted DEF HashChange
<1>5. ASSUME NEW c, c.kind # "orgs", pending' = pending \cup {c}, page'.view = page.view, page'.shows = page.shows,
             UNCHANGED <<address, session, orgList, together, failures>>
      PROVE  ViewInv'
  BY <1>5, ViewStays
<1>6. ASSUME NEW choice \in Choices, Choose(choice) PROVE ViewInv'
  <2>1. PICK c : c = Ask("load", session, page.view, choice)
    OBVIOUS
  <2>2. pending' = pending \cup {c} /\ c.kind = "load"
    BY <1>6, <2>1 DEF Choose, Reload, Ask
  <2>3. page'.view = page.view /\ page'.shows = page.shows
    BY <1>6, ViewIs, PageIs DEF Choose, UiTypeInv, Pages
  <2> QED
    BY <1>5, <1>6, <2>2, <2>3 DEF Choose
<1>7. ASSUME NEW next \in {"route", "reload"}, Act(next) PROVE ViewInv'
  <2>1. PICK c : c = Ask(next, session, page.view, page.choice)
    OBVIOUS
  <2>2. pending' = pending \cup {c} /\ c.kind # "orgs"
    BY <1>7, <2>1 DEF Act, Ask
  <2> QED
    BY <1>5, <1>7, <2>2 DEF Act, trace
<1>8. CASE Save
  <2>1. PICK c : c = IF page.view = "portal"
                       THEN [Ask("put", session, "portal", DealerId) EXCEPT !.of = {page.body}]
                       ELSE [Ask("current", session, "settings", page.choice) EXCEPT !.of = {page.body}]
    OBVIOUS
  <2>2. pending' = pending \cup {c}
    BY <1>8, <2>1 DEF Save
  <2>3. c.kind # "orgs"
    BY <2>1 DEF Ask
  <2> QED
    BY <1>5, <1>8, <2>2, <2>3 DEF Save
<1>9. CASE CreateClient
  BY <1>9, ViewStays DEF CreateClient, trace
<1>10. CASE Create
  <2>1. PICK c : c = [Ask("create", session, "clients", "all") EXCEPT
                        !.number = Cardinality({d \in pending : d.kind = "create"})]
    OBVIOUS
  <2>2. pending' = pending \cup {c}
    BY <1>10, <2>1 DEF Create
  <2>3. c.kind # "orgs"
    BY <2>1 DEF Ask
  <2> QED
    BY <1>5, <1>10, <2>2, <2>3 DEF Create, trace
<1>11. CASE Dismiss
  <2>1. pending' = Dismissed(pending) /\ UNCHANGED <<address, session, orgList, page, together, failures>>
    BY <1>11 DEF Dismiss, Dismissed
  <2>2. \A c \in pending : \E d \in pending' : d.kind = c.kind /\ d.token = c.token /\ (d.kind # "create" => d.live = c.live)
    BY <1>0, <2>1, DismissedKeeps DEF Like
  <2>3. \A d \in pending' : \E c \in pending : d.kind = c.kind /\ d.view = c.view
    BY <1>0, <2>1, DismissedIs DEF Like
  <2> QED
    BY <2>1, <2>2, <2>3, ViewStays
<1>12. CASE Done
  BY <1>0, <1>12, ViewRouted DEF Done
<1> QED
  BY <1>1, <1>2, <1>3, <1>4, <1>6, <1>7, <1>8, <1>9, <1>10, <1>11, <1>12, Zenon DEF Clicked

LEMMA ViewAnswered ==
  ASSUME UiTypeInv, ViewInv, NEW c \in pending,
         \/ Refused(c) \/ SignedIn(c) \/ OrgsCame(c) \/ Rendered(c) \/ Loaded(c) \/ Acted(c)
         \/ CurrentCame(c) \/ Saved(c) \/ Created(c) \/ Failed(c)
  PROVE  ViewInv'
<1> DEFINE P == pending \ {c}
<1>0. /\ address \in Visited /\ accepted \in Tokens /\ failures \in Nat /\ "none" \notin Tokens
      /\ pending \subseteq Calls /\ PageOK /\ CallOK(c) /\ c.view \in Visited /\ c.live \in BOOLEAN
      /\ "loading" \notin Visited /\ P \subseteq pending
  BY ViewIs, DashboardAssumption DEF UiTypeInv, RestOK, CallsOK, CallOK, Calls
<1>1. CASE Refused(c)
  BY <1>0, <1>1, ViewLogin DEF Refused, trace, ViewInv
<1>2. CASE SignedIn(c)
  BY <1>0, <1>2, ViewRouted DEF SignedIn
<1>3. CASE OrgsCame(c)
  <2>1. PICK v \in Visited : v = c.view
    BY <1>0
  <2>2. Lay(v, P) /\ c.kind = "orgs" /\ orgList' = TRUE /\ UNCHANGED <<address, session, together>>
    BY <1>3, <2>1 DEF OrgsCame, trace
  <2>3. ~together' => v = address' /\ \A d \in P : d.kind = "orgs" => d.view = address'
    BY <1>0, <2>1, <2>2 DEF ViewInv
  <2> QED
    BY <1>0, <2>2, <2>3, ViewLaid
<1>4. ASSUME Taken(c), c.kind \notin {"signin", "orgs"}, page'.view = page.view,
             page'.shows = page.shows \/ page'.shows # "loading", Drawing(c) => page'.shows # "loading",
             P \subseteq pending', \A d \in pending' : d \in P \/ d.kind # "orgs",
             UNCHANGED <<address, session, orgList, together, failures>>
      PROVE  ViewInv'
  <2>1. c.token # "none"
    BY <1>0, <1>4 DEF Taken
  <2> QED
    BY <1>4, <2>1, ViewStays
<1>5. CASE Rendered(c)
  <2>1. /\ c.kind = "render" /\ pending' = P /\ UNCHANGED <<address, session, orgList, together, failures>>
        /\ page' = IF c.live THEN [page EXCEPT !.shows = c.view, !.body = c.choice] ELSE page
    BY <1>5 DEF Rendered, trace
  <2>2. c.live => page \in Pages /\ page.view = c.view
    BY <1>0, <2>1, PageIs DEF CallOK, OfPage
  <2>3. page'.view = page.view /\ (c.live => page'.shows = c.view) /\ (~c.live => page'.shows = page.shows)
    BY <2>1, <2>2 DEF Pages
  <2> QED
    BY <1>0, <1>4, <1>5, <2>1, <2>3 DEF Drawing, Rendered
<1>6. CASE Loaded(c)
  <2>1. /\ c.kind = "load" /\ UNCHANGED <<address, session, orgList, together, failures>>
        /\ page' = IF c.live THEN [page EXCEPT !.body = c.choice] ELSE page
        /\ pending' = IF c.live THEN Renewed(P) ELSE P
    BY <1>6 DEF Loaded, trace
  <2>2. c.live => page \in Pages
    BY <1>0, <2>1, PageIs DEF CallOK, OfPage
  <2>3. page'.view = page.view /\ page'.shows = page.shows
    BY <2>1, <2>2 DEF Pages
  <2>4. CASE ~c.live
    BY <1>4, <1>6, <2>1, <2>3, <2>4 DEF Drawing, Loaded
  <2>5. CASE c.live
    <3>1. P \subseteq Calls /\ pending' = Renewed(P)
      BY <1>0, <2>1, <2>5
    <3>2. \A d \in P : \E e \in pending' : e.kind = d.kind /\ e.token = d.token /\ e.live = d.live
      BY <3>1, RenewedKeeps DEF Like
    <3>3. \A e \in pending' : \E d \in P : e.kind = d.kind /\ e.view = d.view
      BY <3>1, RenewedIs DEF Like
    <3>4. c.token # "none" /\ ~Drawing(c)
      BY <1>0, <1>6, <2>1 DEF Taken, Loaded, Drawing
    <3>5. ASSUME NEW d \in pending
          PROVE  \/ \E e \in pending' : /\ e.kind = d.kind /\ e.token = d.token
                                        /\ (e.kind # "create" => e.live = d.live)
                 \/ /\ d.token # "none" /\ d.kind \notin {"signin", "orgs"}
                    /\ Drawing(d) => page'.shows # "loading"
      <4>1. CASE d \in P
        BY <3>2, <4>1
      <4>2. CASE d = c
        BY <2>1, <3>4, <4>2
      <4> QED
        BY <4>1, <4>2
    <3>6. \A e \in pending' : \/ \E d \in pending : e.kind = d.kind /\ e.view = d.view
                              \/ e.kind # "orgs"
      BY <3>3
    <3> QED
      BY <2>1, <2>3, <3>5, <3>6, ViewStays
  <2> QED
    BY <1>0, <2>4, <2>5
<1>7. CASE Acted(c)
  <2>1. CASE c.kind = "route"
    BY <1>0, <1>7, <2>1, ViewRouted DEF Acted
  <2>2. CASE c.kind = "reload"
    <3>1. PICK d : d = Ask("load", session, page.view, page.choice)
      OBVIOUS
    <3>2. /\ pending' = P \cup IF c.live THEN {d} ELSE {}
          /\ UNCHANGED <<address, session, orgList, together, failures, page>>
      BY <1>7, <2>2, <3>1 DEF Acted, Reload
    <3>3. d.kind = "load"
      BY <3>1 DEF Ask
    <3> QED
      BY <1>4, <1>7, <2>2, <3>2, <3>3 DEF Drawing, Acted
  <2> QED
    BY <1>7, <2>1, <2>2 DEF Acted
<1>8. CASE CurrentCame(c)
  <2>1. PICK put : put = [Ask("put", session, "settings", IF c.live THEN page.choice ELSE c.to) EXCEPT
                            !.of = c.of \cup stored["settings"][c.choice], !.live = c.live, !.button = c.button]
    OBVIOUS
  <2>2. pending' = P \cup {put} /\ c.kind = "current" /\ UNCHANGED <<address, session, orgList, together, failures, page>>
    BY <1>8, <2>1 DEF CurrentCame, trace
  <2>3. put.kind = "put"
    BY <2>1 DEF Ask
  <2> QED
    BY <1>4, <1>8, <2>2, <2>3 DEF Drawing, CurrentCame
<1>9. CASE Saved(c)
  <2>1. PICK d : d = Ask("load", session, page.view, page.choice)
    OBVIOUS
  <2>2. /\ pending' = P \cup IF c.live /\ c.view = "portal" THEN {d} ELSE {}
        /\ c.kind = "put" /\ UNCHANGED <<address, session, orgList, together, failures, page>>
    BY <1>9, <2>1 DEF Saved, Reload, trace
  <2>3. d.kind = "load"
    BY <2>1 DEF Ask
  <2> QED
    BY <1>4, <1>9, <2>2, <2>3 DEF Drawing, Saved
<1>10. CASE Created(c)
  BY <1>4, <1>10 DEF Created, Drawing, trace
<1>11. CASE Failed(c)
  <2>1. /\ Taken(c) /\ pending' = P /\ UNCHANGED <<address, session, orgList, together>> /\ failures' = failures + 1
        /\ page' = IF c.kind = "render" /\ c.live THEN [page EXCEPT !.shows = "failed"] ELSE page
    BY <1>11 DEF Failed
  <2>2. c.kind = "render" /\ c.live => page \in Pages
    BY <1>0, PageIs DEF CallOK, OfPage
  <2>3. /\ page'.view = page.view /\ (page'.shows = page.shows \/ page'.shows = "failed")
        /\ Drawing(c) => page'.shows = "failed"
    BY <2>1, <2>2 DEF Pages, Drawing
  <2>4. c.token # "none" /\ failures' > 0
    BY <1>0, <2>1 DEF Taken
  <2>5. Tokened => Tokened'
    BY <2>1, <2>4 DEF Tokened
  <2>6. page'.shows = "loading" /\ (\E d \in pending : Drawing(d)) => \E d \in pending' : Drawing(d)
    BY <2>1, <2>3
  <2> QED
    BY <2>1, <2>3, <2>4, <2>5, <2>6 DEF ViewInv
<1> QED
  BY <1>1, <1>2, <1>3, <1>5, <1>6, <1>7, <1>8, <1>9, <1>10, <1>11

LEMMA ViewStep == UiTypeInv /\ ViewInv /\ [UiNext]_uiVars => ViewInv'
<1> SUFFICES ASSUME UiTypeInv, ViewInv, [UiNext]_uiVars PROVE ViewInv'
  OBVIOUS
<1>1. CASE UNCHANGED uiVars
  BY <1>1 DEF uiVars, data, trace, ViewInv, Tokened, Coming
<1>2. CASE Clicked
  BY <1>2, ViewClicked
<1>3. CASE Answered
  BY <1>3, ViewAnswered DEF Answered
<1> QED
  BY <1>1, <1>2, <1>3 DEF UiNext

LEMMA ViewIsEnough == UiTypeInv /\ ViewInv => ViewShown
<1> SUFFICES ASSUME UiTypeInv, ViewInv, pending = {}, ~together
             PROVE  /\ page.view \in Visited => session # "none" /\ page.view = address /\ page.shows \in {address, "failed"}
                    /\ page.view \notin Visited => session = "none" \/ failures > 0
  BY DEF ViewShown
<1>1. page.view \in Visited => page.shows \in {page.view, "loading", "failed"}
  BY PageIs DEF UiTypeInv
<1> QED
  BY <1>1 DEF ViewInv, Tokened, Coming

-----------------------------------------------------------------------------
(* The keys that were issued.  Leaving a page and its buttons does not touch *)
(* the dialog's call; there is one at a time, and the dialog waits for it,  *)
(* unless it was closed before the answer or a call failed.                 *)

Held == IF dialog.at = "shows" THEN {dialog.key} ELSE {}
Creating == {c \in pending : c.kind = "create"}
KeysInv ==
  ~abandoned /\ failures = 0 =>
    /\ 1..issued \subseteq noted \cup Held
    /\ \A c \in Creating : c.live /\ c.button /\ dialog.at = "busy"
    /\ \A c, d \in Creating : c = d

LEMMA LeaveCreating ==
  ASSUME PageOK, NEW A, A \subseteq Calls, NEW d \in Leave(A), d.kind = "create"
  PROVE  d \in A
<1>1. PICK c \in A : /\ d \in Calls /\ Like(c, d) /\ (d.live <=> c.kind = "create" /\ c.live) /\ d.button = c.button
                     /\ d.to = IF c.kind = "current" /\ c.live THEN page.choice ELSE c.to
  BY LeaveIs
<1>2. c \in Calls /\ d \in Calls /\ Like(c, d) /\ (d.live <=> c.live) /\ d.button = c.button /\ d.to = c.to
  BY <1>1 DEF Like
<1>3. d.live = c.live
  BY <1>2 DEF Calls
<1> QED
  BY <1>2, <1>3 DEF Calls, Like

LEMMA RenewedOther ==
  ASSUME NEW A, A \subseteq Calls, NEW d \in Renewed(A), d.kind \notin {"current", "put"}
  PROVE  d \in A
<1>1. PICK c \in A : d = [c EXCEPT !.button = c.button /\ c.kind \notin {"current", "put"}]
  BY Zenon DEF Renewed
<1> DEFINE b == c.button /\ c.kind \notin {"current", "put"}
<1>2. c \in Calls /\ c.button \in BOOLEAN /\ d = [c EXCEPT !.button = b]
  BY <1>1 DEF Calls
<1>3. d.kind = c.kind
  BY <1>1, <1>2 DEF Calls
<1>4. b = c.button
  BY <1>2, <1>3
<1> HIDE DEF b
<1> QED
  BY <1>2, <1>4 DEF Calls

LEMMA RouteCreating ==
  ASSUME PageOK, NEW A, A \subseteq Calls, NEW v, Route(v, A), NEW d \in pending', d.kind = "create"
  PROVE  d \in A
<1>1. CASE RenderLogin(A)
  BY <1>1, LeaveCreating DEF RenderLogin
<1>2. CASE Lay(v, A)
  <2>1. PICK r : r = Ask("render", session, v, First(v))
    OBVIOUS
  <2>2. pending' = Leave(A) \cup {r} /\ r.kind = "render"
    BY <1>2, <2>1 DEF Lay, Ask
  <2> QED
    BY <2>2, LeaveCreating
<1>3. CASE pending' = A \cup {Ask("orgs", session', v, "all")}
  <2>1. PICK r : r = Ask("orgs", session', v, "all")
    OBVIOUS
  <2>2. pending' = A \cup {r} /\ r.kind = "orgs"
    BY <1>3, <2>1 DEF Ask
  <2> QED
    BY <2>2
<1> QED
  BY <1>1, <1>2, <1>3 DEF Route

LEMMA KeysStay ==
  ASSUME KeysInv, UNCHANGED <<issued, noted, dialog, abandoned, failures>>,
         \A d \in pending' : d.kind = "create" => d \in pending
  PROVE  KeysInv'
<1>1. Creating' \subseteq Creating
  BY DEF Creating
<1> QED
  BY <1>1 DEF KeysInv, Held

LEMMA KeysInit == UiInit => KeysInv
<1> SUFFICES ASSUME UiInit PROVE KeysInv
  OBVIOUS
<1>1. PICK c : c = Ask("orgs", session, address, "all")
  OBVIOUS
<1>2. c.kind = "orgs" /\ pending \subseteq {c} /\ issued = 0
  BY <1>1 DEF UiInit, Ask
<1>3. Creating = {} /\ 1..issued = {}
  BY <1>2 DEF Creating
<1> QED
  BY <1>3 DEF KeysInv

LEMMA KeysClicked ==
  ASSUME UiTypeInv, KeysInv, Clicked
  PROVE  KeysInv'
<1>0. PageOK /\ pending \subseteq Calls /\ failures \in Nat
  BY DEF UiTypeInv, CallsOK, CallOK, RestOK
<1>1. ASSUME NEW c, c.kind # "create", pending' = pending \cup {c}, UNCHANGED <<issued, noted, dialog, abandoned, failures>>
      PROVE  KeysInv'
  BY <1>1, KeysStay
<1>2. ASSUME NEW t \in Tokens, SignIn(t) PROVE KeysInv'
  <2>1. PICK c : c = Ask("signin", t, address, "all")
    OBVIOUS
  <2> QED
    BY <1>1, <1>2, <2>1 DEF SignIn, Ask, data, trace
<1>3. ASSUME NEW t \in Tokens, Rotate(t) PROVE KeysInv'
  <2>1. failures' # 0
    BY <1>0, <1>3 DEF Rotate
  <2> QED
    BY <2>1 DEF KeysInv
<1>4. CASE SignOut
  BY <1>0, <1>4, LeaveCreating, KeysStay DEF SignOut, RenderLogin, data, trace
<1>5. ASSUME NEW v \in Visited, HashChange(v) PROVE KeysInv'
  BY <1>0, <1>5, RouteCreating, KeysStay DEF HashChange, data
<1>6. ASSUME NEW choice \in Choices, Choose(choice) PROVE KeysInv'
  <2>1. PICK c : c = Ask("load", session, page.view, choice)
    OBVIOUS
  <2>2. pending' = pending \cup {c} /\ c.kind = "load"
    BY <1>6, <2>1 DEF Choose, Reload, Ask
  <2> QED
    BY <1>1, <1>6, <2>2 DEF Choose, data
<1>7. ASSUME NEW next \in {"route", "reload"}, Act(next) PROVE KeysInv'
  <2>1. PICK c : c = Ask(next, session, page.view, page.choice)
    OBVIOUS
  <2>2. pending' = pending \cup {c} /\ c.kind # "create"
    BY <1>7, <2>1 DEF Act, Ask
  <2> QED
    BY <1>1, <1>7, <2>2 DEF Act, data, trace
<1>8. CASE Save
  <2>1. PICK c : c = IF page.view = "portal"
                       THEN [Ask("put", session, "portal", DealerId) EXCEPT !.of = {page.body}]
                       ELSE [Ask("current", session, "settings", page.choice) EXCEPT !.of = {page.body}]
    OBVIOUS
  <2>2. pending' = pending \cup {c}
    BY <1>8, <2>1 DEF Save
  <2>3. c.kind # "create"
    BY <2>1 DEF Ask
  <2> QED
    BY <1>1, <1>8, <2>2, <2>3 DEF Save, data
<1>9. CASE CreateClient
  <2>1. /\ dialog.at = "closed" /\ Creating' = Creating /\ UNCHANGED <<issued, noted, abandoned, failures>>
    BY <1>9 DEF CreateClient, Creating, data, trace
  <2>2. Held = {} /\ Held' \subseteq Held' /\ (dialog.at = "busy" => FALSE)
    BY <2>1 DEF Held
  <2> QED
    BY <2>1, <2>2 DEF KeysInv
<1>10. CASE Create
  <2>1. PICK c : c = [Ask("create", session, "clients", "all") EXCEPT
                        !.number = Cardinality({d \in pending : d.kind = "create"})]
    OBVIOUS
  <2>2. pending' = pending \cup {c}
    BY <1>10, <2>1 DEF Create
  <2>3. c.live = TRUE /\ c.button = TRUE /\ c.kind = "create"
    BY <2>1 DEF Ask
  <2>4. /\ dialog.at \in {"open", "busy"} /\ dialog' = [dialog EXCEPT !.at = "busy"]
        /\ UNCHANGED <<issued, noted, abandoned, failures>>
        /\ ~\E d \in pending : d.live /\ d.button /\ d.kind = "create"
    BY <1>10 DEF Create, Enabled, data, trace
  <2>5. dialog'.at = "busy"
    BY <2>4 DEF UiTypeInv, DialogOK
  <2>6. Creating' = Creating \cup {c}
    BY <2>2, <2>3 DEF Creating
  <2>7. ~abandoned /\ failures = 0 => Creating = {}
    BY <2>4 DEF KeysInv, Creating
  <2>8. Held = {} /\ Held' = {}
    BY <2>4, <2>5 DEF Held
  <2> QED
    BY <2>3, <2>4, <2>5, <2>6, <2>7, <2>8 DEF KeysInv
<1>11. ASSUME Close, Note PROVE noted' = noted \cup Held /\ Held' = {}
  BY <1>11 DEF Close, Note, Held
<1>12. CASE Dismiss
  <2>1. /\ pending' = Dismissed(pending) /\ UNCHANGED <<issued, failures>> /\ Close /\ Note
        /\ abandoned' = (abandoned \/ On({"create"}))
    BY <1>12 DEF Dismiss, Dismissed
  <2>2. ASSUME ~abandoned', failures' = 0 PROVE Creating' = {} /\ 1..issued' \subseteq noted'
    <3>1. ~abandoned /\ failures = 0 /\ ~On({"create"})
      BY <2>1, <2>2
    <3>2. \A c \in pending : c.kind # "create"
      BY <3>1 DEF KeysInv, On, Creating
    <3>3. \A d \in pending' : d.kind # "create"
      BY <1>0, <2>1, <3>2, DismissedIs DEF Like
    <3> QED
      BY <1>11, <2>1, <3>1, <3>3 DEF KeysInv, Creating
  <2> QED
    BY <2>2 DEF KeysInv
<1>13. CASE Done
  <2>1. /\ dialog.at = "shows" /\ Close /\ Note /\ Route(address, pending) /\ UNCHANGED <<issued, abandoned, failures>>
    BY <1>13 DEF Done
  <2>2. Creating' \subseteq Creating
    BY <1>0, <2>1, RouteCreating DEF Creating
  <2>3. ~abandoned /\ failures = 0 => Creating = {}
    BY <2>1 DEF KeysInv
  <2> QED
    BY <1>11, <2>1, <2>2, <2>3 DEF KeysInv
<1> QED
  BY <1>2, <1>3, <1>4, <1>5, <1>6, <1>7, <1>8, <1>9, <1>10, <1>12, <1>13, Zenon DEF Clicked

LEMMA KeysAnswered ==
  ASSUME UiTypeInv, KeysInv, NEW c \in pending,
         \/ Refused(c) \/ SignedIn(c) \/ OrgsCame(c) \/ Rendered(c) \/ Loaded(c) \/ Acted(c)
         \/ CurrentCame(c) \/ Saved(c) \/ Created(c) \/ Failed(c)
  PROVE  KeysInv'
<1> DEFINE P == pending \ {c}
<1>0. PageOK /\ P \subseteq Calls /\ failures \in Nat /\ P \subseteq pending /\ issued \in Nat
  BY DEF UiTypeInv, CallsOK, CallOK, RestOK
\* The dialog's call is answered, and there is no other.
<1>1. ASSUME c.kind = "create", ~abandoned, failures = 0
      PROVE  c.live /\ dialog.at = "busy" /\ Held = {} /\ 1..issued \subseteq noted /\ \A d \in P : d.kind # "create"
  <2>1. c \in Creating
    BY <1>1 DEF Creating
  <2> QED
    BY <1>1, <2>1 DEF KeysInv, Held, Creating
<1>2. CASE Refused(c)
  <2>1. /\ pending' = Leave(P) /\ UNCHANGED <<issued, noted, abandoned, failures>>
        /\ dialog' = IF c.kind = "create" /\ c.live THEN [dialog EXCEPT !.at = "open"] ELSE dialog
    BY <1>2 DEF Refused, RenderLogin, data, trace
  <2>2. \A d \in pending' : d.kind = "create" => d \in P
    BY <1>0, <2>1, LeaveCreating
  <2>3. CASE c.kind = "create"
    <3>1. ~abandoned /\ failures = 0 => Creating' = {} /\ 1..issued \subseteq noted
      BY <1>1, <2>2, <2>3 DEF Creating
    <3> QED
      BY <2>1, <3>1 DEF KeysInv
  <2>4. CASE c.kind # "create"
    BY <2>1, <2>2, <2>4, KeysStay
  <2> QED
    BY <2>3, <2>4
<1>3. CASE SignedIn(c)
  BY <1>0, <1>3, RouteCreating, KeysStay DEF SignedIn, data
<1>4. CASE OrgsCame(c)
  <2>1. PICK r : r = Ask("render", session, c.view, First(c.view))
    OBVIOUS
  <2>2. pending' = Leave(P) \cup {r} /\ r.kind = "render" /\ UNCHANGED <<issued, noted, dialog, abandoned, failures>>
    BY <1>4, <2>1 DEF OrgsCame, Lay, Ask, data, trace
  <2> QED
    BY <1>0, <2>2, LeaveCreating, KeysStay
<1>5. CASE Rendered(c)
  BY <1>5, KeysStay DEF Rendered, data, trace
<1>6. CASE Loaded(c)
  <2>1. /\ pending' = IF c.live THEN Renewed(P) ELSE P
        /\ UNCHANGED <<issued, noted, dialog, abandoned, failures>>
    BY <1>6 DEF Loaded, data, trace
  <2>2. \A d \in Renewed(P) : d.kind = "create" => d \in P
    BY <1>0, RenewedOther
  <2> QED
    BY <1>0, <2>1, <2>2, KeysStay
<1>7. CASE Acted(c)
  <2>1. UNCHANGED <<issued, noted, dialog, abandoned, failures>>
    BY <1>7 DEF Acted, data
  <2>2. CASE c.kind = "route"
    BY <1>0, <1>7, <2>1, <2>2, RouteCreating, KeysStay DEF Acted
  <2>3. CASE c.kind # "route"
    <3>1. PICK d : d = Ask("load", session, page.view, page.choice)
      OBVIOUS
    <3>2. pending' \subseteq P \cup {d} /\ d.kind = "load"
      BY <1>7, <2>3, <3>1 DEF Acted, Reload, Ask
    <3> QED
      BY <2>1, <3>2, KeysStay
  <2> QED
    BY <2>2, <2>3
<1>8. CASE CurrentCame(c)
  <2>1. PICK put : put = [Ask("put", session, "settings", IF c.live THEN page.choice ELSE c.to) EXCEPT
                            !.of = c.of \cup stored["settings"][c.choice], !.live = c.live, !.button = c.button]
    OBVIOUS
  <2>2. pending' = P \cup {put} /\ UNCHANGED <<issued, noted, dialog, abandoned, failures>>
    BY <1>8, <2>1 DEF CurrentCame, data, trace
  <2>3. put.kind = "put"
    BY <2>1 DEF Ask
  <2> QED
    BY <2>2, <2>3, KeysStay
<1>9. CASE Saved(c)
  <2>1. PICK d : d = Ask("load", session, page.view, page.choice)
    OBVIOUS
  <2>2. pending' \subseteq P \cup {d} /\ d.kind = "load" /\ UNCHANGED <<issued, noted, dialog, abandoned, failures>>
    BY <1>9, <2>1 DEF Saved, Reload, Ask, trace
  <2> QED
    BY <2>2, KeysStay
<1>10. CASE Created(c)
  <2>1. /\ c.kind = "create" /\ issued' = issued + 1 /\ pending' = P /\ UNCHANGED <<noted, abandoned, failures>>
        /\ dialog' = IF c.live THEN [at |-> "shows", key |-> issued + 1] ELSE dialog
    BY <1>10 DEF Created, trace
  <2>2. ASSUME ~abandoned', failures' = 0 PROVE Creating' = {} /\ 1..issued' \subseteq noted' \cup Held'
    <3>1. c.live /\ 1..issued \subseteq noted /\ \A d \in P : d.kind # "create"
      BY <1>1, <2>1, <2>2
    <3>2. Held' = {issued + 1} /\ 1..issued' \subseteq (1..issued) \cup {issued + 1}
      BY <1>0, <2>1, <3>1 DEF Held
    <3> QED
      BY <2>1, <3>1, <3>2 DEF Creating
  <2> QED
    BY <2>2 DEF KeysInv
<1>11. CASE Failed(c)
  <2>1. failures' # 0
    BY <1>0, <1>11 DEF Failed
  <2> QED
    BY <2>1 DEF KeysInv
<1> QED
  BY <1>2, <1>3, <1>4, <1>5, <1>6, <1>7, <1>8, <1>9, <1>10, <1>11

LEMMA KeysStep == UiTypeInv /\ KeysInv /\ [UiNext]_uiVars => KeysInv'
<1> SUFFICES ASSUME UiTypeInv, KeysInv, [UiNext]_uiVars PROVE KeysInv'
  OBVIOUS
<1>1. CASE UNCHANGED uiVars
  BY <1>1, KeysStay DEF uiVars, data, trace
<1>2. CASE Clicked
  BY <1>2, KeysClicked
<1>3. CASE Answered
  BY <1>3, KeysAnswered DEF Answered
<1> QED
  BY <1>1, <1>2, <1>3 DEF UiNext

LEMMA KeysIsEnough == KeysInv => KeysNoted
  BY DEF KeysInv, KeysNoted, Held

-----------------------------------------------------------------------------
(* The choice of the control.  One call draws the page, for the choice where *)
(* the control starts.  For an operator who waits, what is on its way is for *)
(* the choice there is: a load carries it, and a save of Org Settings asks  *)
(* for what is stored, and sends it, for the one organization.              *)

Loading(c) == c.live /\ c.kind = "load"
Waits(c) ==
  /\ Loading(c) => c.choice = page.choice
  /\ c.kind = "current" => c.of = {c.choice} /\ (IF c.live THEN page.choice ELSE c.to) = c.choice
  /\ c.kind = "put" /\ c.view = "settings" => c.of = {c.choice}
Draws(c) == Drawing(c) => page.shows = "loading" /\ c.choice = page.choice
OwnStored == \A o \in Orgs : stored["settings"][o] = {o}
Current == Ready => page.body = page.choice \/ \E c \in pending : Loading(c)
ChoiceInv ==
  /\ \A c, d \in pending : Drawing(c) /\ Drawing(d) => c = d
  /\ \A c \in pending : Draws(c)
  /\ ~hasty => (\A c \in pending : Waits(c)) /\ Current /\ OwnStored

\* The control stays, and the new calls are for its choice.
LEMMA ChoiceKept ==
  ASSUME ChoiceInv, page'.choice = page.choice, ~hasty' => ~hasty,
         \A d \in pending' : d \in pending \/ (d.kind # "render" /\ (~hasty' => Waits(d)')),
         page'.shows = page.shows \/ \A d \in pending' : ~Drawing(d),
         ~hasty' => Current' /\ OwnStored'
  PROVE  ChoiceInv'
<1>1. \A c, d \in pending' : Drawing(c) /\ Drawing(d) => c = d
  BY DEF ChoiceInv, Drawing
<1>2. \A c \in pending' : Draws(c)'
  BY DEF ChoiceInv, Draws, Drawing
<1>3. ASSUME ~hasty', NEW c \in pending' PROVE Waits(c)'
  BY <1>3 DEF ChoiceInv, Waits
<1> QED
  BY <1>1, <1>2, <1>3 DEF ChoiceInv

LEMMA ChoiceStays ==
  ASSUME ChoiceInv, UNCHANGED page, ~hasty' => ~hasty,
         \A d \in pending' : d \in pending \/ (d.kind # "render" /\ (~hasty' => Waits(d))),
         ~hasty' => \A c \in pending : Loading(c) => \E d \in pending' : Loading(d),
         ~hasty' => OwnStored'
  PROVE  ChoiceInv'
<1>1. ASSUME ~hasty' PROVE Current'
  <2>1. Current
    BY <1>1 DEF ChoiceInv
  <2> QED
    BY <1>1, <2>1 DEF Current, Ready
<1>2. \A d : Waits(d) => Waits(d)'
  BY DEF Waits
<1> QED
  BY <1>1, <1>2, ChoiceKept

LEMMA LeaveWaits ==
  ASSUME PageOK, NEW A, A \subseteq Calls, NEW d \in Leave(A)
  PROVE  ~Drawing(d) /\ ((\A c \in A : Waits(c)) => Waits(d)')
<1>1. PICK c \in A : /\ d \in Calls /\ Like(c, d) /\ (d.live <=> c.kind = "create" /\ c.live)
                     /\ d.to = IF c.kind = "current" /\ c.live THEN page.choice ELSE c.to
  BY LeaveIs
<1>2. ~Drawing(d) /\ ~Loading(d) /\ (d.kind = "current" => ~d.live)
  BY <1>1 DEF Drawing, Loading, Like
<1>3. ASSUME Waits(c) PROVE Waits(d)'
  <2>1. d.kind = "current" => d.of = {d.choice} /\ d.to = d.choice
    BY <1>1, <1>3 DEF Waits, Like
  <2>2. d.kind = "put" /\ d.view = "settings" => d.of = {d.choice}
    BY <1>1, <1>3 DEF Waits, Like
  <2> QED
    BY <1>2, <2>1, <2>2 DEF Waits
<1> QED
  BY <1>2, <1>3

LEMMA ChoiceLogin ==
  ASSUME UiTypeInv, ChoiceInv, NEW A, A \subseteq pending, RenderLogin(A), UNCHANGED <<hasty, stored>>
  PROVE  ChoiceInv'
<1>1. A \subseteq Calls /\ PageOK /\ pending' = Leave(A) /\ page' = Bare
  BY DEF UiTypeInv, CallsOK, CallOK, RenderLogin
<1>2. \A d \in pending' : ~Drawing(d)
  BY <1>1, LeaveWaits
<1>3. ASSUME ~hasty' PROVE \A d \in pending' : Waits(d)'
  <2>1. \A c \in A : Waits(c)
    BY <1>3 DEF ChoiceInv
  <2> QED
    BY <1>1, <2>1, LeaveWaits
<1>4. Current'
  BY <1>1 DEF Current, Ready, Bare
<1>5. ~hasty' => OwnStored'
  BY DEF ChoiceInv, OwnStored
<1> QED
  BY <1>2, <1>3, <1>4, <1>5 DEF ChoiceInv, Draws

LEMMA ChoiceLaid ==
  ASSUME UiTypeInv, ChoiceInv, NEW A, A \subseteq pending, NEW v \in Visited, Lay(v, A), UNCHANGED <<hasty, stored>>
  PROVE  ChoiceInv'
<1>1. PICK r : r = Ask("render", session, v, First(v))
  OBVIOUS
<1>2. /\ A \subseteq Calls /\ PageOK /\ pending' = Leave(A) \cup {r} /\ r.kind = "render" /\ r.choice = First(v)
      /\ page'.shows = "loading" /\ page'.choice = First(v) /\ page'.view = v
  BY <1>1 DEF UiTypeInv, CallsOK, CallOK, Lay, Ask
<1>3. \A d \in Leave(A) : ~Drawing(d)
  BY <1>2, LeaveWaits
<1>4. ASSUME ~hasty' PROVE \A d \in pending' : Waits(d)'
  <2>1. \A c \in A : Waits(c)
    BY <1>4 DEF ChoiceInv
  <2>2. Waits(r)'
    BY <1>2 DEF Waits, Loading
  <2> QED
    BY <1>2, <2>1, <2>2, LeaveWaits
<1>5. Current'
  BY <1>2, ViewIs DEF Current, Ready
<1>6. ~hasty' => OwnStored'
  BY DEF ChoiceInv, OwnStored
<1>7. \A d \in pending' : Draws(d)'
  BY <1>2, <1>3 DEF Draws
<1> QED
  BY <1>2, <1>3, <1>4, <1>5, <1>6, <1>7 DEF ChoiceInv

LEMMA ChoiceRouted ==
  ASSUME UiTypeInv, ChoiceInv, NEW A, A \subseteq pending, NEW v \in Visited, Route(v, A), UNCHANGED <<hasty, stored>>,
         \A c \in pending : Loading(c) => c \in A
  PROVE  ChoiceInv'
<1>1. CASE RenderLogin(A)
  BY <1>1, ChoiceLogin
<1>2. CASE Lay(v, A)
  BY <1>2, ChoiceLaid
<1>3. CASE pending' = A \cup {Ask("orgs", session', v, "all")} /\ UNCHANGED page
  <2>1. PICK r : r = Ask("orgs", session', v, "all")
    OBVIOUS
  <2>2. pending' = A \cup {r} /\ r.kind = "orgs"
    BY <1>3, <2>1 DEF Ask
  <2>3. Waits(r)
    BY <2>2 DEF Waits, Loading
  <2>4. ~hasty' => OwnStored'
    BY DEF ChoiceInv, OwnStored
  <2> QED
    BY <1>3, <2>2, <2>3, <2>4, ChoiceStays
<1> QED
  BY <1>1, <1>2, <1>3 DEF Route

LEMMA DismissedOther ==
  ASSUME NEW A, A \subseteq Calls, NEW d \in Dismissed(A), d.kind # "create"
  PROVE  d \in A
<1>1. PICK c \in A : d = [c EXCEPT !.live = c.live /\ c.kind # "create"]
  BY Zenon DEF Dismissed
<1> DEFINE l == c.live /\ c.kind # "create"
<1>2. c \in Calls /\ c.live \in BOOLEAN /\ d = [c EXCEPT !.live = l]
  BY <1>1 DEF Calls
<1>3. d.kind = c.kind
  BY <1>1, <1>2 DEF Calls
<1>4. l = c.live
  BY <1>2, <1>3
<1> HIDE DEF l
<1> QED
  BY <1>2, <1>4 DEF Calls

LEMMA ChoiceInit == UiInit => ChoiceInv
<1> SUFFICES ASSUME UiInit PROVE ChoiceInv
  OBVIOUS
<1>1. PICK c : c = Ask("orgs", session, address, "all")
  OBVIOUS
<1>2. c.kind = "orgs" /\ pending \subseteq {c}
  BY <1>1 DEF UiInit, Ask
<1>3. ~Ready
  BY DEF UiInit, Ready, Bare, Blank
<1>4. OwnStored
  BY DEF UiInit, OwnStored
<1> QED
  BY <1>2, <1>3, <1>4 DEF ChoiceInv, Drawing, Draws, Waits, Loading, Current

LEMMA ChoiceClicked ==
  ASSUME UiTypeInv, ChoiceInv, Clicked
  PROVE  ChoiceInv'
<1>0. PageOK /\ pending \subseteq Calls /\ address \in Visited /\ hasty \in BOOLEAN
  BY DEF UiTypeInv, CallsOK, CallOK, RestOK
<1>1. ASSUME NEW c, c.kind # "render", pending' = pending \cup {c}, ~hasty' => ~hasty /\ Waits(c), UNCHANGED <<page, stored>>
      PROVE  ChoiceInv'
  <2>1. ~hasty' => OwnStored'
    BY <1>1 DEF ChoiceInv, OwnStored
  <2> QED
    BY <1>1, <2>1, ChoiceStays
<1>2. ASSUME NEW t \in Tokens, SignIn(t) PROVE ChoiceInv'
  <2>1. PICK c : c = Ask("signin", t, address, "all")
    OBVIOUS
  <2>2. /\ pending' = pending \cup {c} /\ c.kind = "signin" /\ UNCHANGED <<page, stored, hasty>>
    BY <1>2, <2>1 DEF SignIn, Ask, data, trace
  <2>3. Waits(c)
    BY <2>2 DEF Waits, Loading
  <2> QED
    BY <1>1, <2>2, <2>3
<1>3. ASSUME UNCHANGED <<pending, page, stored, hasty>> PROVE ChoiceInv'
  <2>1. ~hasty' => OwnStored'
    BY <1>3 DEF ChoiceInv, OwnStored
  <2> QED
    BY <1>3, <2>1, ChoiceStays
<1>4. ASSUME NEW t \in Tokens, Rotate(t) PROVE ChoiceInv'
  BY <1>3, <1>4 DEF Rotate, data, trace
<1>5. CASE SignOut
  BY <1>5, ChoiceLogin DEF SignOut, data, trace
<1>6. ASSUME NEW v \in Visited, HashChange(v) PROVE ChoiceInv'
  BY <1>6, ChoiceRouted DEF HashChange, data
<1>7. ASSUME NEW choice \in Choices, Choose(choice) PROVE ChoiceInv'
  <2>1. PICK c : c = Ask("load", session, page.view, choice)
    OBVIOUS
  <2>2. /\ pending' = pending \cup {c} /\ c.kind = "load" /\ c.choice = choice /\ c.live = TRUE
        /\ Ready /\ page' = [page EXCEPT !.choice = choice] /\ hasty' = (hasty \/ On({"load", "current", "put"}))
        /\ UNCHANGED stored
    BY <1>7, <2>1 DEF Choose, Reload, Ask, data
  <2>3. page \in Pages /\ page.view \in Visited /\ page.shows # "loading"
    BY <1>0, <2>2, PageIs, ViewIs DEF Ready
  <2>4. page'.choice = choice /\ page'.shows = page.shows
    BY <2>2, <2>3 DEF Pages
  <2>5. \A d \in pending' : ~Drawing(d)
    BY <2>2, <2>3 DEF ChoiceInv, Draws, Drawing
  <2>6. ASSUME ~hasty' PROVE (\A d \in pending' : Waits(d)') /\ Current' /\ OwnStored'
    <3>1. ~hasty /\ \A d \in pending : d.live => d.kind \notin {"load", "current", "put"}
      BY <2>2, <2>6 DEF On
    <3>2. ASSUME NEW d \in pending PROVE Waits(d)'
      <4>1. Waits(d)
        BY <3>1 DEF ChoiceInv
      <4>2. ~Loading(d) /\ (d.kind = "current" => ~d.live)
        BY <3>1 DEF Loading
      <4> QED
        BY <4>1, <4>2 DEF Waits
    <3>3. Waits(c)'
      BY <2>2, <2>4 DEF Waits
    <3>4. Current'
      BY <2>2 DEF Current, Loading
    <3>5. OwnStored'
      BY <2>2, <3>1 DEF ChoiceInv, OwnStored
    <3> QED
      BY <2>2, <3>2, <3>3, <3>4, <3>5
  <2> QED
    BY <2>5, <2>6 DEF ChoiceInv, Draws
<1>8. ASSUME NEW next \in {"route", "reload"}, Act(next) PROVE ChoiceInv'
  <2>1. PICK c : c = Ask(next, session, page.view, page.choice)
    OBVIOUS
  <2>2. pending' = pending \cup {c} /\ c.kind = next /\ UNCHANGED <<page, stored, hasty>>
    BY <1>8, <2>1 DEF Act, Ask, data, trace
  <2>3. Waits(c)
    BY <2>2 DEF Waits, Loading
  <2> QED
    BY <1>1, <2>2, <2>3
<1>9. CASE Save
  <2>0. Ready /\ hasty' = (hasty \/ On({"load"})) /\ UNCHANGED <<page, stored>>
    BY <1>9 DEF Save, data
  <2>1. PICK c : c = IF page.view = "portal"
                       THEN [Ask("put", session, "portal", DealerId) EXCEPT !.of = {page.body}]
                       ELSE [Ask("current", session, "settings", page.choice) EXCEPT !.of = {page.body}]
    OBVIOUS
  <2>2. pending' = pending \cup {c}
    BY <1>9, <2>1 DEF Save
  <2>3. \/ c.kind = "put" /\ c.view = "portal"
        \/ c.kind = "current" /\ c.live = TRUE /\ c.choice = page.choice /\ c.of = {page.body}
    BY <2>1 DEF Ask
  <2>4. ASSUME ~hasty' PROVE ~hasty /\ page.body = page.choice
    <3>1. ~hasty /\ ~\E d \in pending : Loading(d)
      BY <2>0, <2>4 DEF On, Loading
    <3> QED
      BY <2>0, <3>1 DEF ChoiceInv, Current
  <2>5. ~hasty' => Waits(c)
    BY <2>3, <2>4 DEF Waits, Loading
  <2>6. c.kind # "render"
    BY <2>3
  <2> QED
    BY <1>1, <2>0, <2>2, <2>4, <2>5, <2>6
<1>10. CASE CreateClient
  BY <1>3, <1>10 DEF CreateClient, data, trace
<1>11. CASE Create
  <2>1. PICK c : c = [Ask("create", session, "clients", "all") EXCEPT
                        !.number = Cardinality({d \in pending : d.kind = "create"})]
    OBVIOUS
  <2>2. pending' = pending \cup {c} /\ UNCHANGED <<page, stored, hasty>>
    BY <1>11, <2>1 DEF Create, data, trace
  <2>3. c.kind = "create"
    BY <2>1 DEF Ask
  <2>4. Waits(c)
    BY <2>3 DEF Waits, Loading
  <2> QED
    BY <1>1, <2>2, <2>3, <2>4
<1>12. CASE Dismiss
  <2>1. pending' = Dismissed(pending) /\ UNCHANGED <<page, stored, hasty>>
    BY <1>12 DEF Dismiss, Dismissed
  <2>2. ASSUME NEW d \in pending' PROVE d \in pending \/ (d.kind # "render" /\ Waits(d))
    <3>1. d.kind # "create" => d \in pending
      BY <1>0, <2>1, DismissedOther
    <3>2. d.kind = "create" => Waits(d)
      BY DEF Waits, Loading
    <3> QED
      BY <3>1, <3>2
  <2>3. \A c \in pending : Loading(c) => \E d \in pending' : Loading(d)
    BY <1>0, <2>1, DismissedKeeps DEF Loading, Like
  <2>4. ~hasty' => OwnStored'
    BY <2>1 DEF ChoiceInv, OwnStored
  <2> QED
    BY <2>1, <2>2, <2>3, <2>4, ChoiceStays
<1>13. CASE Done
  BY <1>0, <1>13, ChoiceRouted DEF Done
<1> QED
  BY <1>2, <1>4, <1>5, <1>6, <1>7, <1>8, <1>9, <1>10, <1>11, <1>12, <1>13, Zenon DEF Clicked

LEMMA ChoiceAnswered ==
  ASSUME UiTypeInv, ChoiceInv, NEW c \in pending,
         \/ Refused(c) \/ SignedIn(c) \/ OrgsCame(c) \/ Rendered(c) \/ Loaded(c) \/ Acted(c)
         \/ CurrentCame(c) \/ Saved(c) \/ Created(c) \/ Failed(c)
  PROVE  ChoiceInv'
<1> DEFINE P == pending \ {c}
<1>0. /\ PageOK /\ P \subseteq Calls /\ P \subseteq pending /\ CallOK(c) /\ c.view \in Visited /\ c.live \in BOOLEAN
      /\ address \in Visited /\ hasty \in BOOLEAN /\ "loading" \notin Visited /\ "failed" \notin Visited
  BY ViewIs DEF UiTypeInv, CallsOK, CallOK, Calls, RestOK
\* The page stays, and the answer leaves no call or one.
<1>1. ASSUME UNCHANGED page, hasty' = hasty, ~hasty => OwnStored', ~Loading(c), P \subseteq pending',
             \A d \in pending' : d \in P \/ (d.kind # "render" /\ (~hasty => Waits(d)))
      PROVE  ChoiceInv'
  <2>1. \A d \in pending : Loading(d) => d \in pending'
    BY <1>1
  <2>2. \A d \in pending' : d \in pending \/ (d.kind # "render" /\ (~hasty' => Waits(d)))
    BY <1>1
  <2> QED
    BY <1>1, <2>1, <2>2, ChoiceStays
<1>2. ASSUME UNCHANGED stored PROVE ~hasty => OwnStored'
  BY <1>2 DEF ChoiceInv, OwnStored
<1>3. CASE Refused(c)
  BY <1>0, <1>3, ChoiceLogin DEF Refused, data, trace
<1>4. CASE SignedIn(c)
  BY <1>0, <1>4, ChoiceRouted DEF SignedIn, data, Loading
<1>5. CASE OrgsCame(c)
  BY <1>0, <1>5, ChoiceLaid DEF OrgsCame, data, trace
<1>6. CASE Rendered(c)
  <2>1. /\ c.kind = "render" /\ pending' = P /\ UNCHANGED <<stored, hasty>>
        /\ page' = IF c.live THEN [page EXCEPT !.shows = c.view, !.body = c.choice] ELSE page
    BY <1>6 DEF Rendered, data, trace
  <2>2. CASE ~c.live
    BY <1>1, <1>2, <2>1, <2>2 DEF Loading
  <2>3. CASE c.live
    <3>1. page \in Pages /\ Drawing(c)
      BY <1>0, <2>1, <2>3, PageIs DEF CallOK, OfPage, Drawing
    <3>2. page'.choice = page.choice /\ page'.body = c.choice
      BY <2>1, <2>3, <3>1 DEF Pages
    <3>3. c.choice = page.choice /\ \A d \in pending' : ~Drawing(d)
      BY <2>1, <3>1 DEF ChoiceInv, Draws
    <3>4. Current'
      BY <3>2, <3>3 DEF Current
    <3> QED
      BY <1>2, <2>1, <3>2, <3>3, <3>4, ChoiceKept
  <2> QED
    BY <1>0, <2>2, <2>3
<1>7. CASE Loaded(c)
  <2>1. /\ c.kind = "load" /\ UNCHANGED <<stored, hasty>>
        /\ page' = IF c.live THEN [page EXCEPT !.body = c.choice] ELSE page
        /\ pending' = IF c.live THEN Renewed(P) ELSE P
    BY <1>7 DEF Loaded, data, trace
  <2>2. CASE ~c.live
    BY <1>1, <1>2, <2>1, <2>2 DEF Loading
  <2>3. CASE c.live
    <3>1. page \in Pages /\ Loading(c) /\ pending' = Renewed(P)
      BY <1>0, <2>1, <2>3, PageIs DEF CallOK, OfPage, Loading
    <3>2. page'.choice = page.choice /\ page'.body = c.choice /\ page'.shows = page.shows
      BY <2>1, <2>3, <3>1 DEF Pages
    <3>3. ASSUME ~hasty' PROVE Current'
      <4>1. c.choice = page.choice
        BY <2>1, <3>1, <3>3 DEF ChoiceInv, Waits
      <4> QED
        BY <3>2, <4>1 DEF Current
    <3>4. ASSUME NEW d \in pending' PROVE d \in pending \/ (d.kind # "render" /\ (~hasty' => Waits(d)'))
      <4>1. CASE d.kind \notin {"current", "put"}
        BY <1>0, <3>1, <4>1, RenewedOther
      <4>2. CASE d.kind \in {"current", "put"}
        <5>1. PICK e \in P : Like(e, d) /\ d.live = e.live /\ d.to = e.to
          BY <1>0, <3>1, RenewedIs
        <5>2. ~hasty => Waits(e)
          BY <5>1 DEF ChoiceInv
        <5>3. Waits(e) => Waits(d)'
          BY <3>2, <4>2, <5>1 DEF Waits, Like, Loading
        <5> QED
          BY <2>1, <4>2, <5>2, <5>3
      <4> QED
        BY <4>1, <4>2
    <3> QED
      BY <1>2, <2>1, <3>2, <3>3, <3>4, ChoiceKept
  <2> QED
    BY <1>0, <2>2, <2>3
<1>8. CASE Acted(c)
  <2>1. CASE c.kind = "route"
    BY <1>0, <1>8, <2>1, ChoiceRouted DEF Acted, data, Loading
  <2>2. CASE c.kind = "reload"
    <3>1. PICK d : d = Ask("load", session, page.view, page.choice)
      OBVIOUS
    <3>2. /\ pending' = P \cup IF c.live THEN {d} ELSE {}
          /\ UNCHANGED <<page, hasty, stored>>
      BY <1>8, <2>2, <3>1 DEF Acted, Reload, data
    <3>3. d.kind = "load" /\ d.choice = page.choice
      BY <3>1 DEF Ask
    <3>4. Waits(d)
      BY <3>3 DEF Waits
    <3> QED
      BY <1>1, <1>2, <2>2, <3>2, <3>3, <3>4 DEF Loading
  <2> QED
    BY <1>8, <2>1, <2>2 DEF Acted
<1>9. CASE CurrentCame(c)
  <2>1. PICK put : put = [Ask("put", session, "settings", IF c.live THEN page.choice ELSE c.to) EXCEPT
                            !.of = c.of \cup stored["settings"][c.choice], !.live = c.live, !.button = c.button]
    OBVIOUS
  <2>2. pending' = P \cup {put} /\ c.kind = "current" /\ UNCHANGED <<page, hasty, stored>>
    BY <1>9, <2>1 DEF CurrentCame, data, trace
  <2>3. /\ put.kind = "put" /\ put.choice = (IF c.live THEN page.choice ELSE c.to)
        /\ put.of = c.of \cup stored["settings"][c.choice]
    BY <2>1 DEF Ask
  <2>4. ASSUME ~hasty PROVE Waits(put)
    <3>1. c.of = {c.choice} /\ put.choice = c.choice
      BY <2>2, <2>3, <2>4 DEF ChoiceInv, Waits
    <3>2. c.choice \in Orgs
      BY <1>0, <2>2 DEF CallOK
    <3>3. stored["settings"][c.choice] = {c.choice}
      BY <2>4, <3>2 DEF ChoiceInv, OwnStored
    <3>4. put.of = {put.choice}
      BY <2>3, <3>1, <3>3
    <3> QED
      BY <2>3, <3>4 DEF Waits, Loading
  <2> QED
    BY <1>1, <1>2, <2>2, <2>3, <2>4 DEF Loading
\* What is saved for an organization is its own.
<1>10. ASSUME c.kind = "put", stored' = [stored EXCEPT ![c.view][c.choice] = c.of], ~hasty PROVE OwnStored'
  <2>1. OwnStored /\ Waits(c) /\ stored \in [{"portal", "settings"} -> [Orgs -> SUBSET Orgs]]
    BY <1>10 DEF ChoiceInv, UiTypeInv, RestOK
  <2>2. CASE c.view = "settings"
    <3>1. c.of = {c.choice} /\ stored' = [stored EXCEPT !["settings"] = [stored["settings"] EXCEPT ![c.choice] = c.of]]
      BY <1>10, <2>1, <2>2 DEF Waits
    <3>2. stored'["settings"] = [stored["settings"] EXCEPT ![c.choice] = c.of] /\ stored["settings"] \in [Orgs -> SUBSET Orgs]
      BY <2>1, <3>1
    <3> QED
      BY <2>1, <3>1, <3>2 DEF OwnStored
  <2>3. CASE c.view # "settings"
    <3>1. stored'["settings"] = stored["settings"]
      BY <1>10, <2>1, <2>3
    <3> QED
      BY <2>1, <3>1 DEF OwnStored
  <2> QED
    BY <2>2, <2>3
<1>11. CASE Saved(c)
  <2>1. PICK d : d = Ask("load", session, page.view, page.choice)
    OBVIOUS
  <2>2. /\ pending' = P \cup IF c.live /\ c.view = "portal" THEN {d} ELSE {}
        /\ c.kind = "put" /\ UNCHANGED <<page, hasty>> /\ stored' = [stored EXCEPT ![c.view][c.choice] = c.of]
    BY <1>11, <2>1 DEF Saved, Reload, trace
  <2>3. d.kind = "load" /\ d.choice = page.choice
    BY <2>1 DEF Ask
  <2>4. Waits(d)
    BY <2>3 DEF Waits
  <2>5. ~hasty => OwnStored'
    BY <1>10, <2>2
  <2> QED
    BY <1>1, <2>2, <2>3, <2>4, <2>5 DEF Loading
<1>12. CASE Created(c)
  BY <1>1, <1>2, <1>12 DEF Created, Loading, trace
<1>13. CASE Failed(c)
  <2>1. /\ pending' = P /\ hasty' = (hasty \/ Loading(c))
        /\ page' = IF Drawing(c) THEN [page EXCEPT !.shows = "failed"] ELSE page
        /\ UNCHANGED stored \/ (c.kind = "put" /\ stored' = [stored EXCEPT ![c.view][c.choice] = c.of])
    BY <1>13 DEF Failed, data, Loading, Drawing
  <2>2. ~hasty => OwnStored'
    BY <1>2, <1>10, <2>1
  <2>3. CASE Drawing(c)
    <3>1. page \in Pages
      BY <1>0, <2>3, PageIs DEF CallOK, OfPage, Drawing
    <3>2. page'.choice = page.choice /\ page'.shows = "failed" /\ page'.view \in Visited
      BY <2>1, <2>3, <3>1 DEF Pages
    <3>3. \A d \in pending' : ~Drawing(d)
      BY <2>1, <2>3 DEF ChoiceInv
    <3>4. Current'
      BY <1>0, <3>2 DEF Current, Ready
    <3> QED
      BY <2>1, <2>2, <3>2, <3>3, <3>4, ChoiceKept
  <2>4. CASE ~Drawing(c)
    <3>1. ASSUME ~hasty' PROVE \A d \in pending : Loading(d) => d \in pending'
      BY <2>1, <3>1
    <3> QED
      BY <2>1, <2>2, <2>4, <3>1, ChoiceStays
  <2> QED
    BY <2>3, <2>4
<1> QED
  BY <1>3, <1>4, <1>5, <1>6, <1>7, <1>8, <1>9, <1>11, <1>12, <1>13

LEMMA ChoiceStep == UiTypeInv /\ ChoiceInv /\ [UiNext]_uiVars => ChoiceInv'
<1> SUFFICES ASSUME UiTypeInv, ChoiceInv, [UiNext]_uiVars PROVE ChoiceInv'
  OBVIOUS
<1>1. CASE UNCHANGED uiVars
  <2>1. UNCHANGED <<pending, page, stored, hasty>>
    BY <1>1 DEF uiVars, data, trace
  <2>2. ~hasty' => OwnStored'
    BY <2>1 DEF ChoiceInv, OwnStored
  <2> QED
    BY <2>1, <2>2, ChoiceStays
<1>2. CASE Clicked
  BY <1>2, ChoiceClicked
<1>3. CASE Answered
  BY <1>3, ChoiceAnswered DEF Answered
<1> QED
  BY <1>1, <1>2, <1>3 DEF UiNext

LEMMA ChoiceIsEnough == ChoiceInv => ChoiceShown /\ OwnSettings
  BY DEF ChoiceInv, ChoiceShown, OwnSettings, Current, OwnStored, Ready

-----------------------------------------------------------------------------
(* The theorems.                                                           *)

\* In every state of the dashboard the window, the calls and the dialog are
\* of their types; and when nothing is under way, the window shows the view
\* of its address to an operator with a token and the login to one without,
\* and a page's body is of the choice of its control, for an operator who
\* waits (route(), api() and the pages' load() of app.js).
THEOREM DashboardPageShown == UiSpec => []PageShown
<1> DEFINE Inv == UiTypeInv /\ ViewInv /\ ChoiceInv
<1>1. UiInit => Inv
  BY UiTypeInit, ViewInit, ChoiceInit
<1>2. Inv /\ [UiNext]_uiVars => Inv'
  BY UiTypeStep, ViewStep, ChoiceStep
<1>3. Inv => PageShown
  BY UiTypeIsEnough, ViewIsEnough, ChoiceIsEnough DEF PageShown
<1> QED
  BY <1>1, <1>2, <1>3, PTL DEF UiSpec

\* For an operator who waits, an organization's settings are its own: what
\* Org Settings asks for before it sends (viewSettings' save) is of the
\* organization it then sends them to.
THEOREM DashboardOwnSettings == UiSpec => []OwnSettings
<1> DEFINE Inv == UiTypeInv /\ ChoiceInv
<1>1. UiInit => Inv
  BY UiTypeInit, ChoiceInit
<1>2. Inv /\ [UiNext]_uiVars => Inv'
  BY UiTypeStep, ChoiceStep
<1>3. Inv => OwnSettings
  BY ChoiceIsEnough
<1> QED
  BY <1>1, <1>2, <1>3, PTL DEF UiSpec

\* Every key that was issued was shown until the operator closed its dialog,
\* unless a dialog was closed while its call was under way or a call failed.
THEOREM DashboardKeysNoted == UiSpec => []KeysNoted
<1> DEFINE Inv == UiTypeInv /\ KeysInv
<1>1. UiInit => Inv
  BY UiTypeInit, KeysInit
<1>2. Inv /\ [UiNext]_uiVars => Inv'
  BY UiTypeStep, KeysStep
<1>3. Inv => KeysNoted
  BY KeysIsEnough
<1> QED
  BY <1>1, <1>2, <1>3, PTL DEF UiSpec
=============================================================================
