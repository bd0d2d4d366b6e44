----------------------------- MODULE MCGateway -----------------------------
(***************************************************************************)
(* Gateway for model checking, in casts: the limiter under calls of both   *)
(* gates; requests of one client whose row is edited; requests for a       *)
(* dynamic object whose declaration is edited; two windows editing the     *)
(* configuration; windows and polls creating its row while calls fail.     *)
(***************************************************************************)
EXTENDS Gateway

CONSTANTS c, a, r1, r2, w1, w2, p1, p2, partner
CONSTANTS Casts
VARIABLE cast

\* The key's limit is edited between 0 and 2; the address's budget is smaller
\* than what the key may ask, so that the second refusal is reached.
MCCeiling == [k \in {c, a} |-> IF k = c THEN 2 ELSE 1]

\* Not declared, read-only, writable with a scope of its own.
MCExposed == [v \in 0..MaxSaves |->
  CASE v = 0 -> {} [] v = 1 -> {[scope |-> "s1", writes |-> {}]} [] OTHER -> {[scope |-> "s1", writes |-> {"s2"}]}]

mcvars == <<allVars, cast>>

MCInit ==
  /\ GateInit /\ cast \in Casts
  /\ cast \in {"limits", "requests", "objects"} => unique
  /\ \A k \in Clients : clients[k] =
       [active |-> TRUE, scopes |-> {"s1"}, limit |-> IF cast = "requests" THEN 1 ELSE 2,
        expires |-> IF cast = "requests" THEN 1 ELSE MaxTime + 1]

NoOrg == UNCHANGED <<tables, context, runs, call, form, saves, polls, trace, doubled, orphans>>
NoRequests == UNCHANGED <<vars, gateVars>>

Plays ==
  /\ cast = "limits" => UNCHANGED <<orgVars, gateVars>>
  /\ cast \in {"requests", "objects"} => (calls' # calls => pc' # pc)
  /\ cast = "requests" =>
       /\ NoOrg /\ now' <= 1
       /\ \A r \in Handlers : \A q \in asked'[r] : q.route.kind # "object" /\ q.route.scope = "s1"
  /\ cast = "objects" =>
       /\ now' = 0 /\ arrived' <= 1 /\ saves' <= 2
       /\ trips' # trips => pc[r1] \in {"provider", "instance"}
       /\ \A k \in Clients : clients'[k].active /\ clients'[k].limit = 2 /\ clients'[k].expires > MaxTime
       /\ \A q \in asked'[r1] : q.key = c /\ q.route.kind = "object"
       /\ pc'[r2] = "idle" /\ call'[w2] = Idle /\ \A p \in Polls : call'[p] = Idle
       /\ form'[w1].of \in {"closed", "settings"} /\ \A i \in DOMAIN instances' : instances'[i].config[partner] = 0
  /\ cast = "windows" => NoRequests /\ trips' = 0 /\ polls' = 0 /\ saves' <= 2
  /\ cast = "creation" => NoRequests /\ call'[w2] = Idle /\ saves' = 0
  /\ UNCHANGED cast

MCNext == GateNext /\ Plays
MCSpec == /\ MCInit /\ [][MCNext]_mcvars
          /\ WF_mcvars(Prune /\ UNCHANGED <<orgVars, gateVars>> /\ Watch /\ Plays)
          /\ WF_mcvars(Tick /\ UNCHANGED <<orgVars, gateVars>> /\ Watch /\ Plays)
=============================================================================
