---------------------------- MODULE RateLimiter ----------------------------
(***************************************************************************)
(* One SlidingWindowRateLimiter (auth/rateLimiter.ts) and its callers: the *)
(* API-key gate asks for a client, the portal gate for a portal key and    *)
(* then for the caller's address.  allow() runs to its end without an      *)
(* await, so a call is one step.  The limit is read from the database      *)
(* before the call and may have been edited between two calls.             *)
(***************************************************************************)
EXTENDS Integers, FiniteSets

CONSTANTS
  Clients,      (* API clients or portal keys                              *)
  Addresses,    (* IP addresses; they share the portal's limiter with keys *)
  Ceiling,      (* Ceiling[k]: the greatest limit k ever has               *)
  Window,       (* windowMs                                                *)
  Pruned,       (* TRUE: a timer calls prune (the API gate's limiter)      *)
  MaxTime,      (* bound: the clock                                        *)
  MaxCalls      (* bound: calls                                            *)

Keys == Clients \cup Addresses

ASSUME RateLimiterAssumption ==
  /\ Ceiling \in [Keys -> Nat]
  /\ Window \in Nat \ {0} /\ Pruned \in BOOLEAN

VARIABLES
  hits,     \* the Map: the admissions remembered per key; an absent key has none
  granted,  \* every admission of the key since the process started
  now,      \* Date.now()
  calls,    \* calls so far; numbers the admissions of one millisecond
  refusal   \* the last refusal, if any: key, time and limit

vars == <<hits, granted, now, calls, refusal>>

\* An admission: its timestamp and, since several may have the same, a number.
Hit == [at : Nat, id : Nat]

Refusal == [key : Keys, at : Nat, limit : Nat]

\* A key's list never outgrows the key's limit.
TypeOK ==
  /\ hits \in [Keys -> SUBSET Hit] /\ granted \in [Keys -> SUBSET Hit]
  /\ \A k \in Keys : IsFiniteSet(hits[k]) /\ Cardinality(hits[k]) <= Ceiling[k]
  /\ now \in Nat /\ calls \in Nat
  /\ refusal \subseteq Refusal

Init ==
  /\ hits = [k \in Keys |-> {}] /\ granted = [k \in Keys |-> {}]
  /\ now = 0 /\ calls = 0
  /\ refusal = {}

\* Mutant: one millisecond too many is dropped.
RecentTooShort(k) == {h \in hits[k] : h.at > now - Window + 1}

\* The filter of allow and prune.
Recent(k) == {h \in hits[k] : h.at > now - Window}

Admits(k, limit) == Cardinality(Recent(k)) < limit

\* allow(), for the key and, if it is asked at all, for the address.
Allow(asked, limit) ==
  LET admitted == {k \in asked : Admits(k, limit[k])}
      hit == [at |-> now, id |-> calls]
  IN /\ calls < MaxCalls /\ calls' = calls + 1
     /\ hits' = [k \in Keys |-> IF k \in admitted THEN Recent(k) \cup {hit}
                                ELSE IF k \in asked THEN Recent(k) ELSE hits[k]]
     /\ granted' = [k \in Keys |-> IF k \in admitted THEN granted[k] \cup {hit} ELSE granted[k]]
     /\ IF admitted = asked
          THEN UNCHANGED refusal
          ELSE \E k \in asked \ admitted : refusal' = {[key |-> k, at |-> now, limit |-> limit[k]]}
     /\ UNCHANGED now

ApiRequest(c) == \E n \in 0..Ceiling[c] : Allow({c}, [k \in {c} |-> n])

\* key || address: a refused key does not touch the address's budget, a
\* refused address has already cost the key one of its own.
PortalRequest(c, a) == \E n \in 0..Ceiling[c] :
  Allow(IF Admits(c, n) THEN {c, a} ELSE {c}, [k \in {c, a} |-> IF k = c THEN n ELSE Ceiling[a]])

\* Mutant: the filtered lists are computed and not stored.
PruneNever ==
  /\ Pruned
  /\ UNCHANGED vars

\* prune(), every five minutes.
Prune ==
  /\ Pruned
  /\ hits' = [k \in Keys |-> Recent(k)]
  /\ UNCHANGED <<granted, now, calls, refusal>>

Tick ==
  /\ now < MaxTime
  /\ now' = now + 1
  /\ UNCHANGED <<hits, granted, calls, refusal>>

\* The bounds are reached.
Done == now >= MaxTime /\ UNCHANGED vars

Next ==
  \/ \E c \in Clients : ApiRequest(c) \/ \E a \in Addresses : PortalRequest(c, a)
  \/ Prune
  \/ Tick
  \/ Done

Spec == Init /\ [][Next]_vars

\* The timer fires, the clock runs; nobody has to send requests.
FairSpec == Spec /\ WF_vars(Prune) /\ WF_vars(Tick)

-----------------------------------------------------------------------------
(* Properties.                                                             *)

\* The admissions of k in the window that ends at t.
InWindow(k, t) == {h \in granted[k] : h.at > t - Window /\ h.at <= t}

\* No window of windowMs, wherever it starts, holds more admissions of a key
\* than its limit; forgetting and pruning never make room early.
WindowRespected == \A k \in Keys : \A t \in 0..now : Cardinality(InWindow(k, t)) <= Ceiling[k]

\* A call is refused only while the key's limit is used up: an admission that
\* left the window is not held against it.
RefusalJustified == \A r \in refusal : Cardinality(InWindow(r.key, r.at)) >= r.limit

\* "Drop clients with no recent activity (called periodically)": nothing
\* outdated is kept for ever.
OutdatedDropped == \A k \in Keys : []<>(\A h \in hits[k] : h.at > now - Window)

\* The budget is exact: no window holds more than the limit, and no call is
\* refused that would have been within it.
LimitExact == WindowRespected /\ RefusalJustified
=============================================================================
