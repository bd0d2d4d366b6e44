------------------------------ MODULE Dashboard ------------------------------
(***************************************************************************)
(* The operator's dashboard in one browser window (public/ui/app.js): the  *)
(* login, the router, pages with a choice of organization, tab or filter,  *)
(* saves, and the dialog that issues an API key.  Every call to the        *)
(* gateway is awaited while the operator goes on clicking; answers come    *)
(* in any order, and find the page they were asked for, another one, or    *)
(* the login.  A call takes effect when its answer comes.                  *)
(***************************************************************************)
EXTENDS Integers, FiniteSets

CONSTANTS
  Orgs, FirstOrg,   (* organizations, and the first of the list            *)
  Tokens,           (* admin tokens                                        *)
  Visited,          (* views the operator goes to                          *)
  MaxCalls,         (* bound: calls under way                              *)
  MaxIssued,        (* bound: API keys issued                              *)
  MaxFailures       (* bound: calls that fail, and changes of the token    *)

-----------------------------------------------------------------------------
(* Views: what can be chosen, where a choice starts, and what follows when *)
(* one of the buttons has done its work.                                   *)

Only == [choices |-> {"all"}, first |-> "all", next |-> {"route"}]
PerOrg == [choices |-> Orgs, first |-> FirstOrg, next |-> {"reload"}]

ViewOverview == [Only EXCEPT !.next = {}]
ViewClients == Only
ViewPartners == Only
ViewMessages == [choices |-> {"all", "inbound", "outbound"}, first |-> "all", next |-> {"reload"}]
ViewEndpoints == Only
ViewHub == [Only EXCEPT !.next = {"route", "reload"}]
ViewPortal == PerOrg
ViewPreview == [choices |-> {"nothing", "parsed", "fetched"}, first |-> "nothing", next |-> {}]
ViewSettings == [PerOrg EXCEPT !.next = {}]
ViewLogs == [choices |-> {"logs", "runs"}, first |-> "logs", next |-> {}]

View == [overview |-> ViewOverview, clients |-> ViewClients, partners |-> ViewPartners,
         messages |-> ViewMessages, endpoints |-> ViewEndpoints, hub |-> ViewHub, portal |-> ViewPortal,
         preview |-> ViewPreview, settings |-> ViewSettings, logs |-> ViewLogs]

ASSUME DashboardAssumption ==
  /\ FirstOrg \in Orgs /\ "none" \notin Tokens
  /\ Visited \subseteq DOMAIN View
  /\ MaxCalls \in Nat /\ MaxIssued \in Nat /\ MaxFailures \in Nat

VARIABLES
  address,    \* location.hash
  session,    \* sessionStorage's gw_token
  accepted,   \* the token the gateway takes
  orgList,    \* the organizations are loaded
  page,       \* what the window shows: the view in the frame, its content,
              \* the choice its control shows, the choice its body is of
  pending,    \* calls under way
  dialog,     \* "New API client"
  stored,     \* whose values the gateway has for an organization, by page
  issued,     \* API keys the gateway has made
  noted,      \* those the operator saw
  hasty,      \* the operator did not wait for a page's answer, or one failed
  together,   \* route() ran while another was waiting for the organizations
  abandoned,  \* a dialog was closed while its call was under way
  failures

data == <<stored, issued, noted>>
trace == <<hasty, together, abandoned>>
uiVars == <<address, session, accepted, orgList, page, pending, dialog, data, trace, failures>>

Choices == UNION {View[v].choices : v \in DOMAIN View}
Pages == [view : Visited, shows : Visited \cup {"loading", "failed"}, choice : Choices, body : Choices]
Bare == [view |-> "login", shows |-> "loading", choice |-> "all", body |-> "all"]
Blank == [Bare EXCEPT !.view = "blank"]

\* live: what the call was made for is still in the window; button: so is
\* the button that made it; of: whose values it carries; to: the choice of
\* the page it was made on; number: the how manieth of its dialog.
Calls == [kind : {"signin", "orgs", "render", "load", "route", "reload", "current", "put", "create"},
          token : Tokens \cup {"none"}, view : Visited, choice : Choices, to : Choices, of : SUBSET Orgs,
          live : BOOLEAN, button : BOOLEAN, number : Nat]

UiTypeOK ==
  /\ address \in Visited /\ session \in Tokens \cup {"none"} /\ accepted \in Tokens /\ orgList \in BOOLEAN
  /\ page \in Pages \cup {Bare, Blank} /\ page \in Pages => page.choice \in View[page.view].choices
  /\ pending \subseteq Calls /\ Cardinality(pending) <= MaxCalls + 1
  /\ dialog \in [at : {"closed", "open", "busy", "shows"}, key : 0..issued]
  /\ stored \in [{"portal", "settings"} -> [Orgs -> SUBSET Orgs]]
  /\ issued \in 0..MaxIssued /\ noted \subseteq 1..issued
  /\ <<hasty, together, abandoned>> \in BOOLEAN \X BOOLEAN \X BOOLEAN /\ failures \in 0..MaxFailures

-----------------------------------------------------------------------------
(* Frames.                                                                 *)

Ask(kind, token, view, choice) ==
  [kind |-> kind, token |-> token, view |-> view, choice |-> choice, to |-> choice, of |-> {},
   live |-> TRUE, button |-> TRUE, number |-> 0]

\* Mutant: what is under way goes on to fill the window.
LeaveNothing(calls) == calls

\* The nodes calls were made for are taken out of the window.  A save that
\* still reads keeps the choice its page had.
Leave(calls) ==
  {[c EXCEPT !.live = c.kind = "create" /\ c.live,
             !.to = IF c.kind = "current" /\ c.live THEN page.choice ELSE c.to] : c \in calls}

RenderLogin(calls) == page' = Bare /\ pending' = Leave(calls)

First(v) == View[v].first

\* route(), from where the organizations are there: the frame, and the
\* view's first call.
Lay(v, calls) ==
  /\ page' = [view |-> v, shows |-> "loading", choice |-> First(v), body |-> First(v)]
  /\ pending' = Leave(calls) \cup {Ask("render", session, v, First(v))}

Route(v, calls) ==
  /\ together' = (together \/ \E c \in calls : c.kind = "orgs")
  /\ IF session' = "none" THEN RenderLogin(calls)
     ELSE IF orgList THEN Lay(v, calls)
     ELSE pending' = calls \cup {Ask("orgs", session', v, "all")} /\ UNCHANGED page

-----------------------------------------------------------------------------
(* The operator.                                                           *)

UiInit ==
  /\ address \in Visited /\ session \in Tokens \cup {"none"} /\ accepted \in Tokens /\ orgList = FALSE
  /\ IF session = "none" THEN page = Bare /\ pending = {}
     ELSE page = Blank /\ pending = {Ask("orgs", session, address, "all")}
  /\ dialog = [at |-> "closed", key |-> 0]
  /\ stored = [p \in {"portal", "settings"} |-> [o \in Orgs |-> {o}]]
  /\ issued = 0 /\ noted = {}
  /\ hasty = FALSE /\ together = FALSE /\ abandoned = FALSE /\ failures = 0

Room == Cardinality(pending) < MaxCalls
Ready == page.shows = page.view
On(kinds) == \E c \in pending : c.live /\ c.kind \in kinds

SignIn(t) ==
  /\ page.view = "login" /\ Room
  /\ session' = t
  /\ pending' = pending \cup {Ask("signin", t, address, "all")}
  /\ UNCHANGED <<address, accepted, orgList, page, dialog, data, trace, failures>>

SignOut ==
  /\ page.view \in Visited
  /\ session' = "none"
  /\ RenderLogin(pending)
  /\ UNCHANGED <<address, accepted, orgList, dialog, data, trace, failures>>

HashChange(v) ==
  /\ Room /\ v # address
  /\ address' = v
  /\ UNCHANGED session /\ Route(v, pending)
  /\ UNCHANGED <<accepted, orgList, dialog, data, hasty, abandoned, failures>>

\* Mutant: another choice asks for nothing.
ReloadNever(choice) == {}

\* load(), of what is chosen now.
Reload(choice) == {Ask("load", session, page.view, choice)}

Choose(choice) ==
  /\ Ready /\ Room /\ choice \in View[page.view].choices \ {page.choice}
  /\ page' = [page EXCEPT !.choice = choice]
  /\ pending' = pending \cup Reload(choice)
  /\ hasty' = (hasty \/ On({"load", "current", "put"}))
  /\ UNCHANGED <<address, session, accepted, orgList, dialog, data, together, abandoned, failures>>

\* A button that changes something elsewhere.
Act(next) ==
  /\ Ready /\ Room /\ next \in View[page.view].next
  /\ pending' = pending \cup {Ask(next, session, page.view, page.choice)}
  /\ UNCHANGED <<address, session, accepted, orgList, page, dialog, data, trace, failures>>

\* Mutant: the organization in the control.
ControlOrg == page.choice

\* dealerId, from when the portal's settings were asked for.
DealerId == page.body

\* Mutant: a button can be clicked again.
EnabledAlways(kinds) == TRUE

\* A button is disabled until its call is done.
Enabled(kinds) == ~\E c \in pending : c.live /\ c.button /\ c.kind \in kinds

\* The portal page sends its fields.  Org Settings first asks for what is
\* stored, for the organization chosen now.
Save ==
  /\ Ready /\ Room /\ page.view \in {"portal", "settings"} /\ Enabled({"current", "put"})
  /\ pending' = pending \cup
       {IF page.view = "portal"
          THEN [Ask("put", session, "portal", DealerId) EXCEPT !.of = {page.body}]
          ELSE [Ask("current", session, "settings", page.choice) EXCEPT !.of = {page.body}]}
  /\ hasty' = (hasty \/ On({"load"}))
  /\ UNCHANGED <<address, session, accepted, orgList, page, dialog, data, together, abandoned, failures>>

CreateClient ==
  /\ page.view = "clients" /\ Ready /\ dialog.at = "closed"
  /\ dialog' = [dialog EXCEPT !.at = "open"]
  /\ UNCHANGED <<address, session, accepted, orgList, page, pending, data, trace, failures>>

Create ==
  /\ dialog.at \in {"open", "busy"} /\ Enabled({"create"}) /\ Room
  /\ LET number == Cardinality({c \in pending : c.kind = "create"})
     IN pending' = pending \cup {[Ask("create", session, "clients", "all") EXCEPT !.number = number]}
  /\ dialog' = [dialog EXCEPT !.at = "busy"]
  /\ UNCHANGED <<address, session, accepted, orgList, page, data, trace, failures>>

Close == dialog' = [at |-> "closed", key |-> 0]
Note == noted' = IF dialog.at = "shows" THEN noted \cup {dialog.key} ELSE noted

\* Cancel, or a click beside the dialog, at any time.
Dismiss ==
  /\ dialog.at # "closed"
  /\ Close /\ Note
  /\ pending' = {[c EXCEPT !.live = c.live /\ c.kind # "create"] : c \in pending}
  /\ abandoned' = (abandoned \/ On({"create"}))
  /\ UNCHANGED <<address, session, accepted, orgList, page, stored, issued, hasty, together, failures>>

\* "Done".
Done ==
  /\ dialog.at = "shows" /\ Room
  /\ Close /\ Note
  /\ UNCHANGED session /\ Route(address, pending)
  /\ UNCHANGED <<address, accepted, orgList, stored, issued, hasty, abandoned, failures>>

-----------------------------------------------------------------------------
(* Answers.                                                                *)

Taken(c) == c.token = accepted

\* api(): 401 ends the session, whichever token was refused.
Refused(c) ==
  /\ ~Taken(c)
  /\ session' = "none"
  /\ RenderLogin(pending \ {c})
  /\ dialog' = IF c.kind = "create" /\ c.live THEN [dialog EXCEPT !.at = "open"] ELSE dialog
  /\ UNCHANGED <<address, accepted, orgList, data, trace, failures>>

Renewed(calls) == {[c EXCEPT !.button = c.button /\ c.kind \notin {"current", "put"}] : c \in calls}

SignedIn(c) ==
  /\ c.kind = "signin" /\ Taken(c)
  /\ UNCHANGED session /\ Route(address, pending \ {c})
  /\ UNCHANGED <<address, accepted, orgList, dialog, data, hasty, abandoned, failures>>

\* The frame is that of the view route() was called for.
OrgsCame(c) ==
  /\ c.kind = "orgs" /\ Taken(c)
  /\ orgList' = TRUE
  /\ Lay(c.view, pending \ {c})
  /\ UNCHANGED <<address, session, accepted, dialog, data, trace, failures>>

Rendered(c) ==
  /\ c.kind = "render" /\ Taken(c)
  /\ page' = IF c.live THEN [page EXCEPT !.shows = c.view, !.body = c.choice] ELSE page
  /\ pending' = pending \ {c}
  /\ UNCHANGED <<address, session, accepted, orgList, dialog, data, trace, failures>>

\* New fields, with a button of their own.
Loaded(c) ==
  /\ c.kind = "load" /\ Taken(c)
  /\ page' = IF c.live THEN [page EXCEPT !.body = c.choice] ELSE page
  /\ pending' = IF c.live THEN Renewed(pending \ {c}) ELSE pending \ {c}
  /\ UNCHANGED <<address, session, accepted, orgList, dialog, data, trace, failures>>

Acted(c) ==
  /\ c.kind \in {"route", "reload"} /\ Taken(c)
  /\ UNCHANGED session
  /\ IF c.kind = "route" THEN Route(address, pending \ {c})
     ELSE /\ pending' = (pending \ {c}) \cup IF c.live THEN Reload(page.choice) ELSE {}
          /\ UNCHANGED <<page, together>>
  /\ UNCHANGED <<address, accepted, orgList, dialog, data, hasty, abandoned, failures>>

\* What is stored goes to the organization chosen by now, with the fields'
\* values over it.
CurrentCame(c) ==
  /\ c.kind = "current" /\ Taken(c)
  /\ LET put == [Ask("put", session, "settings", IF c.live THEN page.choice ELSE c.to) EXCEPT
                   !.of = c.of \cup stored["settings"][c.choice], !.live = c.live, !.button = c.button]
     IN pending' = (pending \ {c}) \cup {put}
  /\ UNCHANGED <<address, session, accepted, orgList, page, dialog, data, trace, failures>>

Saved(c) ==
  /\ c.kind = "put" /\ Taken(c)
  /\ stored' = [stored EXCEPT ![c.view][c.choice] = c.of]
  /\ pending' = (pending \ {c}) \cup IF c.live /\ c.view = "portal" THEN Reload(page.choice) ELSE {}
  /\ UNCHANGED <<address, session, accepted, orgList, page, dialog, issued, noted, trace, failures>>

\* The plaintext key comes with this answer only.
Created(c) ==
  /\ c.kind = "create" /\ Taken(c) /\ issued < MaxIssued
  /\ issued' = issued + 1
  /\ dialog' = IF c.live THEN [at |-> "shows", key |-> issued + 1] ELSE dialog
  /\ pending' = pending \ {c}
  /\ UNCHANGED <<address, session, accepted, orgList, page, stored, noted, trace, failures>>

\* Any other error; what the call was to change may be changed.  A reload
\* that fails leaves the page as it is, without a word.
Failed(c) ==
  /\ Taken(c) /\ failures < MaxFailures /\ failures' = failures + 1
  /\ page' = IF c.kind = "render" /\ c.live THEN [page EXCEPT !.shows = "failed"] ELSE page
  /\ hasty' = (hasty \/ (c.kind = "load" /\ c.live))
  /\ dialog' = IF c.kind = "create" /\ c.live THEN [dialog EXCEPT !.at = "open"] ELSE dialog
  /\ \/ UNCHANGED data
     \/ c.kind = "put" /\ stored' = [stored EXCEPT ![c.view][c.choice] = c.of] /\ UNCHANGED <<issued, noted>>
     \/ c.kind = "create" /\ issued < MaxIssued /\ issued' = issued + 1 /\ UNCHANGED <<stored, noted>>
  /\ pending' = pending \ {c}
  /\ UNCHANGED <<address, session, accepted, orgList, together, abandoned>>

\* The gateway restarts with another GATEWAY_ADMIN_TOKEN.
Rotate(t) ==
  /\ failures < MaxFailures /\ failures' = failures + 1
  /\ t # accepted /\ accepted' = t
  /\ UNCHANGED <<address, session, orgList, page, pending, dialog, data, trace>>

Answered ==
  \E c \in pending : \/ Refused(c) \/ SignedIn(c) \/ OrgsCame(c) \/ Rendered(c) \/ Loaded(c) \/ Acted(c)
                     \/ CurrentCame(c) \/ Saved(c) \/ Created(c) \/ Failed(c)

Clicked ==
  \/ \E t \in Tokens : SignIn(t) \/ Rotate(t)
  \/ SignOut
  \/ \E v \in Visited : HashChange(v)
  \/ \E choice \in Choices : Choose(choice)
  \/ \E next \in {"route", "reload"} : Act(next)
  \/ Save \/ CreateClient \/ Create \/ Dismiss \/ Done

UiNext == Answered \/ Clicked
UiSpec == UiInit /\ [][UiNext]_uiVars

-----------------------------------------------------------------------------
(* Properties.                                                             *)

\* When nothing is under way the window shows the view of its address, or
\* says that it could not be loaded, to an operator with a token, and the
\* login to one without: late answers of pages that were left, and refusals,
\* in whatever order, do not change that.  Not so if route() ran again while
\* the organizations were loading, or a call failed and the login stays.
ViewShown ==
  pending = {} /\ ~together =>
    /\ page.view \in Visited => session # "none" /\ page.view = address /\ page.shows \in {address, "failed"}
    /\ page.view \notin Visited => session = "none" \/ failures > 0

\* What a page's body is of is what its control says, for an operator who
\* waits for it before choosing again, and whose reloads do not fail.
ChoiceShown == pending = {} /\ page.shows = page.view /\ ~hasty => page.body = page.choice

\* A dealer's portal settings are those that were shown as that dealer's:
\* whatever was chosen, saved and reloaded while the page was loading, and
\* after it was left.
OwnPortal == \A o \in Orgs : stored["portal"][o] = {o}

\* Org Settings does that for an operator who waits only.
OwnSettings == ~hasty => \A o \in Orgs : stored["settings"][o] = {o}

\* "Copy it now -- it is not stored and cannot be shown again": every key
\* that was issued was shown until its dialog was closed, unless that was
\* while the call was under way, or the call failed.
KeysNoted ==
  dialog.at = "closed" /\ ~abandoned /\ failures = 0 => 1..issued \subseteq noted

\* What the operator sees is what the window is about.
PageShown == UiTypeOK /\ ViewShown /\ ChoiceShown
=============================================================================
