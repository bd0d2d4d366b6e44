------------------------------- MODULE Portal -------------------------------
(***************************************************************************)
(* The headless portal's reads (routes/portal.ts, portal/service.ts): the  *)
(* gate, which reads the dealer's settings and then the key in two calls   *)
(* while an admin edits both, and the content behind it, fetched from the  *)
(* hub and cached in memory, failures included.  What a portal POST does   *)
(* behind the gate is in Staging; the rate limits are in RateLimiter.      *)
(***************************************************************************)
EXTENDS Integers, FiniteSets

CONSTANTS
  Dealers, Keys,
  Origins,       (* origins that dealers and keys can list                *)
  Local,         (* origins on localhost or 127.0.0.1                     *)
  Modules,       (* modules a dealer and a key can have; "events" is every dealer's *)
  Owner,         (* the dealer a key was issued for                       *)
  Requests,      (* handlers that serve requests at the same time         *)
  TTL,           (* CONTENT_TTL_MS                                        *)
  Timeout,       (* callHub's AbortSignal.timeout                         *)
  MaxVersion,    (* bound: contents a dealer's hub publishes              *)
  MaxEdits,      (* bound: admin edits                                    *)
  MaxFaults,     (* bound: failed database calls and hub outages          *)
  MaxTime        (* bound: the clock                                      *)

ASSUME PortalAssumption ==
  /\ Dealers # {} /\ Keys # {} /\ "events" \notin Modules /\ "none" \notin Origins \cup Local
  /\ Owner \in [Keys -> Dealers]
  /\ TTL \in Nat \ {0} /\ Timeout \in Nat
  /\ MaxVersion \in Nat /\ MaxEdits \in Nat /\ MaxFaults \in Nat /\ MaxTime \in Nat

VARIABLES
  settings,    \* dealer_portal_settings
  keys,        \* portal_api_keys
  hub,         \* the hub's content of each dealer: version, and whether it answers
  cache,       \* contentCache
  pc, asked,   \* each handler's step and the request it serves
  seen,        \* the settings it read
  since,       \* when its call to the hub began
  fetched,     \* the hub's answer on its way back
  answer,      \* its last answer: status, content and time
  steady,      \* no edit and no failed call since its request came
  now,
  gone,        \* when a version stopped being the hub's content
  failedAt,    \* when a dealer's content last could not be had
  triedAt,     \* when it was last asked for
  crowded,     \* it was asked for twice within TTL
  herd,        \* two handlers were on their way to ask for it
  edits, faults

gate == <<settings, keys>>
call == <<since, fetched>>
handler == <<pc, asked, seen, call>>
reply == <<answer, steady>>
record == <<gone, failedAt, triedAt, crowded, herd>>
vars == <<gate, hub, cache, handler, reply, now, record, edits, faults>>

Settings == [on : BOOLEAN, modules : SUBSET Modules, origins : SUBSET Origins]
Key == [active : BOOLEAN, modules : SUBSET Modules, origins : SUBSET Origins]
NoOrigin == "none"        \* no Origin header, or one that is no URL
Request == [dealer : Dealers, key : Keys, module : Modules \cup {"events"},
            origin : Origins \cup Local \cup {NoOrigin}]
Nothing == {}             \* no live content: the local profile is served
Content == [dealer : Dealers, version : 0..MaxVersion]
Live == {{c} : c \in Content} \cup {Nothing}
Times == 0..MaxTime
Never == 0 - TTL          \* long enough ago
Later == MaxTime + 1      \* not yet
Answers == [status : {0, 200, 401, 403, 404, 429, 500}, live : Live, at : Times]

TypeOK ==
  /\ settings \in [Dealers -> Settings] /\ keys \in [Keys -> Key]
  /\ hub \in [Dealers -> [version : 0..MaxVersion, up : BOOLEAN]]
  /\ cache \in [Dealers -> [live : Live, at : Times \cup {Never}]]
  /\ pc \in [Requests -> {"idle", "settings", "key", "content", "miss", "calling", "back"}]
  /\ asked \in [Requests -> Request] /\ seen \in [Requests -> Settings]
  /\ since \in [Requests -> Times]
  /\ fetched \in [Requests -> Live]
  /\ answer \in [Requests -> Answers] /\ steady \in [Requests -> BOOLEAN]
  /\ now \in Times
  /\ edits \in 0..MaxEdits /\ faults \in 0..MaxFaults

Open == [on |-> TRUE, modules |-> Modules, origins |-> Origins]

Init ==
  /\ settings = [d \in Dealers |-> Open]
  /\ keys = [k \in Keys |-> [active |-> TRUE, modules |-> Modules, origins |-> {}]]
  /\ hub = [d \in Dealers |-> [version |-> 0, up |-> TRUE]]
  /\ cache = [d \in Dealers |-> [live |-> Nothing, at |-> Never]]
  /\ pc = [r \in Requests |-> "idle"]
  /\ asked = [r \in Requests |-> CHOOSE q \in Request : TRUE]
  /\ seen = [r \in Requests |-> Open]
  /\ since = [r \in Requests |-> 0]
  /\ fetched = [r \in Requests |-> Nothing]
  /\ answer = [r \in Requests |-> [status |-> 0, live |-> Nothing, at |-> 0]]
  /\ steady = [r \in Requests |-> TRUE]
  /\ now = 0
  /\ gone = [d \in Dealers |-> [v \in 0..MaxVersion |-> Later]]
  /\ failedAt = [d \in Dealers |-> Never] /\ triedAt = [d \in Dealers |-> Never]
  /\ crowded = {} /\ herd = {}
  /\ edits = 0 /\ faults = 0

-----------------------------------------------------------------------------
(* The gate: validatePortalAccess.                                         *)

Goto(r, step) == pc' = [pc EXCEPT ![r] = step]

\* The handler's locals go with it.
Answer(r, status, live) ==
  /\ Goto(r, "idle")
  /\ seen' = [seen EXCEPT ![r] = Open]
  /\ since' = [since EXCEPT ![r] = 0]
  /\ fetched' = [fetched EXCEPT ![r] = Nothing]
  /\ answer' = [answer EXCEPT ![r] = [status |-> status, live |-> live, at |-> now]]

Arrive(r, q) ==
  /\ pc[r] = "idle"
  /\ Goto(r, "settings")
  /\ asked' = [asked EXCEPT ![r] = q]
  /\ answer' = [answer EXCEPT ![r] = [status |-> 0, live |-> Nothing, at |-> now]]
  /\ steady' = [steady EXCEPT ![r] = TRUE]
  /\ UNCHANGED <<gate, hub, cache, seen, since, fetched, now, record, edits, faults>>

ReadSettings(r) ==
  LET s == settings[asked[r].dealer] IN
  /\ pc[r] = "settings"
  /\ IF s.on THEN /\ Goto(r, "key")
                  /\ seen' = [seen EXCEPT ![r] = s]
                  /\ UNCHANGED <<call, answer>>
             ELSE Answer(r, 404, Nothing)
  /\ UNCHANGED <<gate, hub, cache, asked, steady, now, record, edits, faults>>

\* MODULE_FLAG: the events module goes with the portal itself.
ModuleOn(s, m) == m = "events" \/ m \in s.modules

\* Mutant: the key alone decides.
ModuleAllowedByKey(s, k, m) == m = "events" \/ m \in k.modules

ModuleAllowed(s, k, m) == ModuleOn(s, m) /\ (m = "events" \/ m \in k.modules)

\* Mutant: the dealer's origins are allowed as well.
OriginAllowedByEither(s, k, o) == o \in Local \cup k.origins \cup s.origins

\* Local development is always allowed; a key's own origins replace the dealer's.
OriginAllowed(s, k, o) == o \in Local \cup (IF k.origins # {} THEN k.origins ELSE s.origins)

\* A key of another dealer is treated like a key that is not there.
KeyFits(q, k) == k.active /\ Owner[q.key] = q.dealer

\* Two calls, each of the limits of its own: see RateLimiter.
ReadKey(r, withinLimits) ==
  LET q == asked[r]
      k == keys[q.key]
      status == IF ~KeyFits(q, k) THEN 401
                ELSE IF ~(ModuleAllowed(seen[r], k, q.module) /\ OriginAllowed(seen[r], k, q.origin)) THEN 403
                ELSE IF ~withinLimits THEN 429 ELSE 200 IN
  /\ pc[r] = "key"
  /\ IF status = 200 THEN Goto(r, "content") /\ UNCHANGED <<seen, call, answer>>
                     ELSE Answer(r, status, Nothing)
  /\ UNCHANGED <<gate, hub, cache, asked, steady, now, record, edits, faults>>

\* The settings' error is a 500; the key's is not looked at and is a 401.
GateFails(r) ==
  /\ pc[r] \in {"settings", "key"}
  /\ faults < MaxFaults
  /\ faults' = faults + 1
  /\ Answer(r, IF pc[r] = "settings" THEN 500 ELSE 401, Nothing)
  /\ steady' = [steady EXCEPT ![r] = FALSE]
  /\ UNCHANGED <<gate, hub, cache, asked, now, record, edits>>

-----------------------------------------------------------------------------
(* hubContent.                                                             *)

Entry(d) == cache[d]

\* Mutant: an entry as old as the TTL still counts.
CachedTooLong(d) == now - Entry(d).at <= TTL

Cached(d) == now - Entry(d).at < TTL

Hit(r) ==
  LET d == asked[r].dealer IN
  /\ pc[r] = "content" /\ Cached(d)
  /\ Answer(r, 200, Entry(d).live)
  /\ UNCHANGED <<gate, hub, cache, asked, steady, now, record, edits, faults>>

OnItsWay(r, d) == pc[r] \in {"miss", "calling", "back"} /\ asked[r].dealer = d

Miss(r) ==
  LET d == asked[r].dealer IN
  /\ pc[r] = "content" /\ ~Cached(d)
  /\ Goto(r, "miss")
  /\ herd' = IF \E p \in Requests : OnItsWay(p, d) THEN herd \cup {d} ELSE herd
  /\ UNCHANGED <<gate, hub, cache, asked, seen, call, reply, now, gone, failedAt, triedAt, crowded,
                 edits, faults>>

\* getHubConnection, then the call.
Call(r) ==
  LET d == asked[r].dealer IN
  /\ pc[r] = "miss"
  /\ Goto(r, "calling")
  /\ since' = [since EXCEPT ![r] = now]
  /\ triedAt' = [triedAt EXCEPT ![d] = now]
  /\ crowded' = IF now - triedAt[d] < TTL THEN crowded \cup {d} ELSE crowded
  /\ UNCHANGED <<gate, hub, cache, asked, seen, fetched, reply, now, gone, failedAt, herd, edits, faults>>

\* The hub reads its content; the answer takes its time.
HubReads(r) ==
  LET d == asked[r].dealer IN
  /\ pc[r] = "calling" /\ hub[d].up
  /\ Goto(r, "back")
  /\ fetched' = [fetched EXCEPT ![r] = {[dealer |-> d, version |-> hub[d].version]}]
  /\ UNCHANGED <<gate, hub, cache, asked, seen, since, reply, now, record, edits, faults>>

\* Failures are cached like answers.
Store(d, live) == cache' = [cache EXCEPT ![d] = [live |-> live, at |-> now]]

Returns(r) ==
  /\ pc[r] = "back"
  /\ Store(asked[r].dealer, fetched[r])
  /\ Answer(r, 200, fetched[r])
  /\ UNCHANGED <<gate, hub, asked, steady, now, record, edits, faults>>

\* No connection, the hub down or refusing, or the time-out, before or after
\* the hub has read: the dealer's local profile is served.
Fails(r) ==
  LET d == asked[r].dealer IN
  /\ pc[r] \in {"miss", "calling", "back"}
  /\ IF pc[r] = "calling" /\ ~hub[d].up THEN UNCHANGED faults
                                       ELSE faults < MaxFaults /\ faults' = faults + 1
  /\ Store(d, Nothing)
  /\ Answer(r, 200, Nothing)
  /\ failedAt' = [failedAt EXCEPT ![d] = now]
  /\ UNCHANGED <<gate, hub, asked, steady, now, gone, triedAt, crowded, herd, edits>>

-----------------------------------------------------------------------------
(* The admin, the hub and the clock.                                       *)

Disturb(touched) == steady' = [r \in Requests |-> steady[r] /\ r \notin touched]

Edit ==
  /\ edits < MaxEdits /\ edits' = edits + 1
  /\ UNCHANGED <<hub, cache, handler, answer, now, record, faults>>

\* PUT portal-settings: the fields of the body replace those of the row.
PutSettings(d, s) ==
  /\ Edit
  /\ settings' = [settings EXCEPT ![d] = s]
  /\ Disturb({r \in Requests : asked[r].dealer = d})
  /\ UNCHANGED keys

PatchKey(k, v) ==
  /\ Edit
  /\ keys' = [keys EXCEPT ![k] = v]
  /\ Disturb({r \in Requests : asked[r].key = k})
  /\ UNCHANGED settings

Publish(d) ==
  /\ hub[d].version < MaxVersion
  /\ hub' = [hub EXCEPT ![d].version = @ + 1]
  /\ gone' = [gone EXCEPT ![d][hub[d].version] = now]
  /\ UNCHANGED <<gate, cache, handler, reply, now, failedAt, triedAt, crowded, herd, edits, faults>>

Outage(d) ==
  /\ hub[d].up /\ faults < MaxFaults
  /\ faults' = faults + 1
  /\ hub' = [hub EXCEPT ![d].up = FALSE]
  /\ UNCHANGED <<gate, cache, handler, reply, now, record, edits>>

Recovery(d) ==
  /\ ~hub[d].up
  /\ hub' = [hub EXCEPT ![d].up = TRUE]
  /\ UNCHANGED <<gate, cache, handler, reply, now, record, edits, faults>>

\* A call lasts no longer than its time-out.
Tick ==
  /\ now < MaxTime
  /\ \A r \in Requests : pc[r] \in {"calling", "back"} => now - since[r] < Timeout
  /\ now' = now + 1
  /\ UNCHANGED <<gate, hub, cache, handler, reply, record, edits, faults>>

Serve(r) ==
  \/ \E q \in Request : Arrive(r, q)
  \/ ReadSettings(r)
  \/ \E withinLimits \in BOOLEAN : ReadKey(r, withinLimits)
  \/ GateFails(r)
  \/ Hit(r) \/ Miss(r) \/ Call(r) \/ HubReads(r) \/ Returns(r) \/ Fails(r)

Next ==
  \/ \E r \in Requests : Serve(r)
  \/ \E d \in Dealers : \E s \in Settings : PutSettings(d, s)
  \/ \E k \in Keys : \E v \in Key : PatchKey(k, v)
  \/ \E d \in Dealers : Publish(d) \/ Outage(d) \/ Recovery(d)
  \/ Tick

Spec == Init /\ [][Next]_vars

-----------------------------------------------------------------------------
(* Properties.                                                             *)

Passes(q) ==
  LET s == settings[q.dealer]
      k == keys[q.key]
  IN  /\ s.on /\ k.active /\ Owner[q.key] = q.dealer
      /\ q.module # "events" => q.module \in s.modules \cap k.modules
      /\ q.origin \notin Local =>
           q.origin \in (IF k.origins = {} THEN s.origins ELSE k.origins)

Admitted(r) == pc[r] \in {"content", "miss", "calling", "back"} \/ answer[r].status = 200

\* Whatever is edited before, and whoever else is being served: a request
\* nothing was edited under is answered by what the dealer and the key allow,
\* and by nothing else: an edit takes effect with the next request.  What they
\* allow is the code's rule: every local development origin (README.md:188,
\* test/portal.test.ts:161), and else the key's origins where it has some,
\* the dealer's where it has none; for the schema's rule, see KeyOnlyRestricts.
GateExact ==
  \A r \in Requests : steady[r] =>
    /\ Admitted(r) => Passes(asked[r])
    /\ answer[r].status \in {401, 403, 404} => ~Passes(asked[r])

\* supabase/migrations/20260707010000_portal.sql:40 on a key's origins: "extra
\* restriction on top of dealer origins; [] = inherit".  A request nothing was
\* edited under is let through only from the dealer's origins, or a local one.
KeyOnlyRestricts ==
  \A r \in Requests : steady[r] /\ Admitted(r) =>
    asked[r].origin \in Local \cup settings[asked[r].dealer].origins

\* Live content is the dealer's own.
OwnContent ==
  \A r \in Requests : \A c \in answer[r].live : c.dealer = asked[r].dealer

\* Live content is no older than the cache's TTL and one call to the hub.
Fresh ==
  \A r \in Requests : \A c \in answer[r].live :
    gone[c.dealer][c.version] > answer[r].at - TTL - Timeout

\* The local profile stands in only for content that could not be had within
\* the TTL: a failure is forgotten in time.
FallbackJustified ==
  \A r \in Requests : answer[r].status = 200 /\ answer[r].live = Nothing =>
    answer[r].at - failedAt[asked[r].dealer] < TTL

\* The hub is asked for a dealer's content once within the TTL, failures
\* included, unless two requests missed together.
OneAttempt == crowded \subseteq herd

\* portal/service.ts:171: "Failures ... are negative-cached for the same TTL
\* so an unreachable hub costs at most one attempt per dealer/resource per
\* minute."
AtMostOneAttempt == crowded = {}

\* What the cache promises together: live content is the dealer's own and
\* fresh, the fallback is justified, and the hub is asked no more than it must.
ContentJustified == OwnContent /\ Fresh /\ FallbackJustified /\ OneAttempt
=============================================================================
