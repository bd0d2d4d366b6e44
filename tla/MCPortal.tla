------------------------------ MODULE MCPortal ------------------------------
(***************************************************************************)
(* Portal for model checking, in three casts: the gate, with an admin who  *)
(* edits settings and keys of two dealers while the clock stands; the      *)
(* content of one dealer, with two handlers and a hub that changes and     *)
(* fails; and two dealers' content at one moment.  And Dashboard in two:   *)
(* pages with choices and saves, and sessions with dialogs.                *)
(***************************************************************************)
EXTENDS Portal, Dashboard

CONSTANTS d1, d2, k1, k2, r1, r2
CONSTANTS Casts
VARIABLE cast

MCOwner == [k \in Keys |-> IF k = k1 THEN d1 ELSE d2]

PortalCasts == {"gate", "content", "tenants"}
mcvars == <<vars, uiVars, cast>>

\* Bounds.  The gate's requests end at the content and are served one by
\* one; requests for content all pass the gate.
PlaysPortal ==
  /\ cast = "gate" =>
       /\ now' = 0 /\ hub' = hub
       /\ \A r \in Requests : pc'[r] \in {"idle", "settings", "key", "content"}
       /\ \A r \in Requests \ {r1} : pc'[r] = "idle"
  /\ cast # "gate" =>
       /\ edits' = 0 /\ hub'[d2] = hub[d2]
       /\ \A r \in Requests :
            /\ answer'[r].status \in {0, 200}
            /\ pc'[r] # "idle" => /\ asked'[r].module = "events" /\ asked'[r].origin = "o1"
                                 /\ Owner[asked'[r].key] = asked'[r].dealer
                                 /\ (cast = "content" => asked'[r].dealer = d1)
  /\ cast = "tenants" => now' = 0

\* Bounds.  Pages are seen with one token, sessions without choices and saves.
PlaysDashboard ==
  /\ cast = "pages" => UNCHANGED <<dialog, accepted>> /\ session' # "t2" /\ address' # "clients"
  /\ cast = "sessions" =>
       /\ UNCHANGED stored /\ address' # "settings"
       /\ \A c \in pending' : c.kind \notin {"load", "reload", "current", "put"}

MCInit ==
  /\ cast \in Casts
  /\ Init /\ UiInit /\ accepted = "t1"
  /\ IF cast \in PortalCasts THEN session = "none" /\ address = "portal"
     ELSE IF cast = "pages" THEN session # "t2" /\ address # "clients" ELSE address # "settings"

MCNext ==
  /\ IF cast \in PortalCasts THEN Next /\ PlaysPortal /\ UNCHANGED uiVars
     ELSE UiNext /\ PlaysDashboard /\ UNCHANGED vars
  /\ UNCHANGED cast
MCSpec == MCInit /\ [][MCNext]_mcvars
=============================================================================
