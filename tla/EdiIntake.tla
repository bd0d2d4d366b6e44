----------------------------- MODULE EdiIntake -----------------------------
(***************************************************************************)
(* One org's EDI intake: edi/service.ts, entered from POST /v1/edi, the    *)
(* file poller and POST /admin/edi/retry.  A request is a chain of         *)
(* separate database writes with no transaction around them: store the     *)
(* message, create the orders, answer with a 997, set the status, forward  *)
(* to the hub.  Requests interleave at every await.                        *)
(***************************************************************************)
EXTENDS Integers, Sequences, FiniteSets

CONSTANTS
  Docs,         (* the interchanges partners send                          *)
  Content,      (* Content[d]: the transactions of d, in order             *)
  Malformed,    (* documents that are not parseable interchanges           *)
  Requests,     (* concurrent handlers                                     *)
  Connected,    (* TRUE: the org has an active hub connection              *)
  Resend,       (* TRUE: a document may be received more than once         *)
  MaxRequests,  (* bound: requests started                                 *)
  MaxFaults     (* bound: failed database calls and restarts               *)

\* A 997 carries one AK2 loop or none (set = "none", the group result holds);
\* several loops act like several 997s in a row.  detail: AK3/AK4 segments
\* stand between its AK2 and AK5.
Ack == [kind : {"997"}, set : {"855", "997", "none"}, control : Nat,
        code : {"A", "R"}, detail : BOOLEAN]
Transactions == Ack \cup [kind : {"850", "other"}]

ASSUME EdiIntakeAssumption ==
  /\ Content \in [Docs -> Seq(Transactions)]
  /\ Malformed \subseteq Docs
  /\ Connected \in BOOLEAN /\ Resend \in BOOLEAN

VARIABLES
  inbound,    \* edi_messages received: document and status
  outbound,   \* edi_messages sent: set, control number, status, the inbound
              \* message it answers (0: none) and, for the properties, the
              \* partner's verdict
  orders,     \* purchase orders with lines created for a transaction
  bare,       \* purchase orders without lines
  forwarded,  \* inbound messages enqueued for the hub
  pc, row, pos, failed, control,  \* each handler's locals
  started, faults

locals == <<pc, row, pos, failed, control>>
vars == <<inbound, outbound, orders, bare, forwarded, locals, started, faults>>

Doc(p) == inbound[row[p]].doc
Txn(d, k) == Content[d][k]

\* The 850s of the documents, each a document and an index.
Purchases ==
  UNION {{<<d, k>> : k \in {n \in 1..Len(Content[d]) : Txn(d, n).kind = "850"}} : d \in Docs}

\* hasContentSets: a 997 is never answered with another 997.
HasContent(d) == \E k \in 1..Len(Content[d]) : Txn(d, k).kind # "997"

Steps == {"idle", "open", "apply", "lines", "undo", "control", "store", "close", "forward"}
Inbound == [doc : Docs, status : {"received", "processed", "error"}]
Outbound == [set : {"855", "997"}, control : Nat \ {0}, status : {"generated", "processed", "error"},
             answers : Nat, verdict : {"none", "accepted", "rejected"}]

TypeOK ==
  /\ inbound \in Seq(Inbound)
  /\ outbound \in Seq(Outbound)
  /\ orders \in [Purchases -> Nat] /\ bare \in [Purchases -> Int]
  /\ forwarded \subseteq 1..Len(inbound)
  /\ pc \in [Requests -> Steps]
  /\ row \in [Requests -> 0..Len(inbound)]
  /\ pos \in [Requests -> Nat \ {0}]
  /\ failed \in [Requests -> BOOLEAN]
  /\ control \in [Requests -> Nat]
  /\ started \in Nat /\ faults \in Nat

Init ==
  /\ inbound = <<>> /\ outbound = <<>>
  /\ orders = [x \in Purchases |-> 0] /\ bare = [x \in Purchases |-> 0]
  /\ forwarded = {}
  /\ pc = [p \in Requests |-> "idle"]
  /\ row = [p \in Requests |-> 0]
  /\ pos = [p \in Requests |-> 1]
  /\ failed = [p \in Requests |-> FALSE]
  /\ control = [p \in Requests |-> 0]
  /\ started = 0 /\ faults = 0

-----------------------------------------------------------------------------
(* Starting a request.                                                     *)

Start(p, r, step) ==
  /\ pc[p] = "idle"
  /\ started < MaxRequests /\ started' = started + 1
  /\ pc' = [pc EXCEPT ![p] = step]
  /\ row' = [row EXCEPT ![p] = r]
  /\ pos' = [pos EXCEPT ![p] = 1]
  /\ failed' = [failed EXCEPT ![p] = FALSE]
  /\ UNCHANGED <<control, faults>>

\* POST /v1/edi or a polled file: the message is stored before it is looked at.
Receive(p, d) ==
  /\ Resend \/ \A i \in 1..Len(inbound) : inbound[i].doc # d
  /\ Start(p, Len(inbound) + 1, "open")
  /\ inbound' = Append(inbound, [doc |-> d, status |-> "received"])
  /\ UNCHANGED <<outbound, orders, bare, forwarded>>

\* POST /admin/edi/retry/:messageId, whatever the message's status.
Reprocess(p, i) ==
  /\ Start(p, i, "open")
  /\ inbound' = [inbound EXCEPT ![i].status = "received"]
  /\ UNCHANGED <<outbound, orders, bare, forwarded>>

\* emit855ForOrder and its siblings, exported for the order pipeline.
Emit(p) ==
  /\ Start(p, 0, "control")
  /\ UNCHANGED <<inbound, outbound, orders, bare, forwarded>>

-----------------------------------------------------------------------------
(* Steps of processInboundInterchange.                                     *)

Goto(p, step) == pc' = [pc EXCEPT ![p] = step]
Fault == faults < MaxFaults /\ faults' = faults + 1

\* Mutant: the status update is forgotten.
RefuseSilently(p) ==
  /\ pc[p] = "open"
  /\ Goto(p, "idle")
  /\ UNCHANGED <<inbound, outbound, orders, bare, forwarded, row, pos, failed, control, started, faults>>

\* fail(): no parseable interchange, no active partner for the ISA sender, or
\* the lookup failed.
Refuse(p) ==
  /\ pc[p] = "open"
  /\ inbound' = [inbound EXCEPT ![row[p]].status = "error"]
  /\ Goto(p, "idle")
  /\ UNCHANGED <<outbound, orders, bare, forwarded, row, pos, failed, control, started, faults>>

\* The update's result is not looked at: the message stays received.
RefuseLost(p) ==
  /\ pc[p] = "open" /\ Fault
  /\ Goto(p, "idle")
  /\ UNCHANGED <<inbound, outbound, orders, bare, forwarded, row, pos, failed, control, started>>

Identify(p) ==
  /\ pc[p] = "open" /\ Doc(p) \notin Malformed
  /\ Goto(p, "apply")
  /\ UNCHANGED <<inbound, outbound, orders, bare, forwarded, row, pos, failed, control, started, faults>>

\* After the transactions, applied or not: answer content sets, then close.
AfterTransactions(p) == IF HasContent(Doc(p)) THEN "control" ELSE "close"

Throw(p) ==
  /\ failed' = [failed EXCEPT ![p] = TRUE]
  /\ Goto(p, AfterTransactions(p))

Current(p) == Txn(Doc(p), pos[p])
AtTransaction(p) == pc[p] = "apply" /\ pos[p] \in 1..Len(Content[Doc(p)])

\* The transaction throws: unsupported set, unresolved lines, unlinked partner,
\* malformed 997, failed lookup or insert.  Nothing was written for it.
TransactionThrows(p) ==
  /\ AtTransaction(p)
  /\ Throw(p)
  /\ UNCHANGED <<inbound, outbound, orders, bare, forwarded, row, pos, control, started, faults>>

\* Mutant: AK5 R is treated like the other unknown codes.
DispositionDefaults(code) == "accepted"

\* AK5_DISPOSITION: anything but a rejection code counts as accepted.
Disposition(code) == IF code = "R" THEN "rejected" ELSE "accepted"

\* parse997 takes the AK5 code from the segment right after AK2.
ParsedCode(a) == IF a.detail THEN "" ELSE a.code

Matches(m, a) == m.control = a.control /\ (a.set # "none" => m.set = a.set)

Settled(m, a) ==
  [m EXCEPT !.status = IF Disposition(ParsedCode(a)) = "rejected" THEN "error" ELSE "processed",
            !.verdict = IF a.code = "R" THEN "rejected" ELSE "accepted"]

\* reconcile997.  The lookup has no order: any matching row may be the one.
Reconcile(p) ==
  /\ AtTransaction(p) /\ Current(p).kind = "997"
  /\ LET a == Current(p)
         matching == {j \in 1..Len(outbound) : Matches(outbound[j], a)}
     IN IF matching = {}
          THEN UNCHANGED outbound
          ELSE \E j \in matching : outbound' = [outbound EXCEPT ![j] = Settled(@, a)]
  /\ pos' = [pos EXCEPT ![p] = @ + 1]
  /\ UNCHANGED <<inbound, orders, bare, forwarded, pc, row, failed, control, started, faults>>

\* createOrderFrom850: the order, then its lines, then possibly the undo.
Purchase(p) == <<Doc(p), pos[p]>>

InsertOrder(p) ==
  /\ AtTransaction(p) /\ Current(p).kind = "850"
  /\ bare' = [bare EXCEPT ![Purchase(p)] = @ + 1]
  /\ Goto(p, "lines")
  /\ UNCHANGED <<inbound, outbound, orders, forwarded, row, pos, failed, control, started, faults>>

InsertLines(p) ==
  /\ pc[p] = "lines"
  /\ bare' = [bare EXCEPT ![Purchase(p)] = @ - 1]
  /\ orders' = [orders EXCEPT ![Purchase(p)] = @ + 1]
  /\ Goto(p, "apply")
  /\ pos' = [pos EXCEPT ![p] = @ + 1]
  /\ UNCHANGED <<inbound, outbound, forwarded, row, failed, control, started, faults>>

LinesFail(p) ==
  /\ pc[p] = "lines"
  /\ Goto(p, "undo")
  /\ UNCHANGED <<inbound, outbound, orders, bare, forwarded, row, pos, failed, control, started, faults>>

\* Mutant: the order is left behind.
UndoForgotten(p) ==
  /\ pc[p] = "undo"
  /\ Throw(p)
  /\ UNCHANGED <<inbound, outbound, orders, bare, forwarded, row, pos, control, started, faults>>

Undo(p) ==
  /\ pc[p] = "undo"
  /\ bare' = [bare EXCEPT ![Purchase(p)] = @ - 1]
  /\ Throw(p)
  /\ UNCHANGED <<inbound, outbound, orders, forwarded, row, pos, control, started, faults>>

\* The delete's result is not looked at.
UndoFails(p) ==
  /\ pc[p] = "undo" /\ Fault
  /\ Throw(p)
  /\ UNCHANGED <<inbound, outbound, orders, bare, forwarded, row, pos, control, started>>

Applied(p) ==
  /\ pc[p] = "apply" /\ pos[p] > Len(Content[Doc(p)])
  /\ Goto(p, AfterTransactions(p))
  /\ UNCHANGED <<inbound, outbound, orders, bare, forwarded, row, pos, failed, control, started, faults>>

-----------------------------------------------------------------------------
(* Outbound messages: a control number is read, then used.                 *)

Numbers == {outbound[j].control : j \in 1..Len(outbound)}

\* Mutant: the number already used last.
NextNotIncremented == CHOOSE n \in Numbers \cup {0} : \A m \in Numbers : n >= m

\* nextControlNumber; the padded numbers sort like the integers.
NextControlNumber == (CHOOSE n \in Numbers \cup {0} : \A m \in Numbers : n >= m) + 1

PickControl(p) ==
  /\ pc[p] = "control"
  /\ control' = [control EXCEPT ![p] = NextControlNumber]
  /\ Goto(p, "store")
  /\ UNCHANGED <<inbound, outbound, orders, bare, forwarded, row, pos, failed, started, faults>>

\* storeOutbound.
StoreOutbound(p) ==
  /\ pc[p] = "store"
  /\ outbound' = Append(outbound, [set |-> IF row[p] = 0 THEN "855" ELSE "997",
                                   control |-> control[p], status |-> "generated",
                                   answers |-> row[p], verdict |-> "none"])
  /\ Goto(p, IF row[p] = 0 THEN "idle" ELSE "close")
  /\ UNCHANGED <<inbound, orders, bare, forwarded, row, pos, failed, control, started, faults>>

\* Mutant: the success path swallows the failure too.
OutboundSwallowed(p) ==
  /\ pc[p] \in {"control", "store"} /\ Fault
  /\ Goto(p, IF row[p] # 0 THEN "close" ELSE "idle")
  /\ UNCHANGED <<inbound, outbound, orders, bare, forwarded, row, pos, failed, control, started>>

\* The lookup or the insert fails.  After a failure the 997 is given up, after
\* a success the request ends there.
OutboundThrows(p) ==
  /\ pc[p] \in {"control", "store"} /\ Fault
  /\ Goto(p, IF row[p] # 0 /\ failed[p] THEN "close" ELSE "idle")
  /\ UNCHANGED <<inbound, outbound, orders, bare, forwarded, row, pos, failed, control, started>>

-----------------------------------------------------------------------------
(* The status, and the hub.                                                *)

AfterClose(p) == IF ~failed[p] /\ HasContent(Doc(p)) THEN "forward" ELSE "idle"

Close(p) ==
  /\ pc[p] = "close"
  /\ inbound' = [inbound EXCEPT ![row[p]].status = IF failed[p] THEN "error" ELSE "processed"]
  /\ Goto(p, AfterClose(p))
  /\ UNCHANGED <<outbound, orders, bare, forwarded, row, pos, failed, control, started, faults>>

\* The update's result is not looked at.
CloseLost(p) ==
  /\ pc[p] = "close" /\ Fault
  /\ Goto(p, AfterClose(p))
  /\ UNCHANGED <<inbound, outbound, orders, bare, forwarded, row, pos, failed, control, started>>

Forward(p) ==
  /\ pc[p] = "forward"
  /\ forwarded' = IF Connected THEN forwarded \cup {row[p]} ELSE forwarded
  /\ Goto(p, "idle")
  /\ UNCHANGED <<inbound, outbound, orders, bare, row, pos, failed, control, started, faults>>

\* getHubConnection or enqueueDelivery throws; the catch is empty.
ForwardLost(p) ==
  /\ pc[p] = "forward" /\ Fault
  /\ Goto(p, "idle")
  /\ UNCHANGED <<inbound, outbound, orders, bare, forwarded, row, pos, failed, control, started>>

\* The process exits: every handler is gone, the tables stay.
Crash ==
  /\ Fault
  /\ pc' = [p \in Requests |-> "idle"]
  /\ UNCHANGED <<inbound, outbound, orders, bare, forwarded, row, pos, failed, control, started>>

-----------------------------------------------------------------------------

Transact(p) == TransactionThrows(p) \/ Reconcile(p) \/ InsertOrder(p) \/ InsertLines(p)
               \/ LinesFail(p) \/ Undo(p) \/ UndoFails(p) \/ Applied(p)

Answer(p) == PickControl(p) \/ StoreOutbound(p) \/ OutboundThrows(p)

Finish(p) == Close(p) \/ CloseLost(p) \/ Forward(p) \/ ForwardLost(p)

Advance(p) == Refuse(p) \/ RefuseLost(p) \/ Identify(p) \/ Transact(p) \/ Answer(p) \/ Finish(p)

\* No request is being handled and none arrives.
Quiet == (\A p \in Requests : pc[p] = "idle") /\ UNCHANGED vars

Next ==
  \/ \E p \in Requests : \/ \E d \in Docs : Receive(p, d)
                         \/ \E i \in 1..Len(inbound) : Reprocess(p, i)
                         \/ Emit(p) \/ Advance(p)
  \/ Crash
  \/ Quiet

Spec == Init /\ [][Next]_vars

\* Every await returns.
FairSpec == Spec /\ \A p \in Requests : WF_vars(Advance(p))

-----------------------------------------------------------------------------
(* Properties.                                                             *)

\* A message is called processed only if every 850 in it has an order with its
\* lines and, unless it holds nothing but 997s, a 997 answers it.
ProcessedComplete == \A i \in 1..Len(inbound) : inbound[i].status = "processed" =>
  /\ \A k \in 1..Len(Content[inbound[i].doc]) :
       Txn(inbound[i].doc, k).kind = "850" => orders[<<inbound[i].doc, k>>] > 0
  /\ HasContent(inbound[i].doc) => \E j \in 1..Len(outbound) : outbound[j].answers = i

\* "The gateway never answers a 997 with another 997": partner and gateway
\* cannot acknowledge each other for ever.
NoAckLoop == \A j \in 1..Len(outbound) :
  outbound[j].answers # 0 => HasContent(inbound[outbound[j].answers].doc)

\* "Control numbers sequenced per org": two messages never share one, so a 997
\* names one message.
ControlUnique == \A i, j \in 1..Len(outbound) : outbound[i].control = outbound[j].control => i = j

\* A message we sent is in error exactly when the partner's last 997 for it
\* rejected it, and processed exactly when it accepted it.
VerdictRecorded == \A j \in 1..Len(outbound) :
  /\ outbound[j].status = "error" <=> outbound[j].verdict = "rejected"
  /\ outbound[j].status = "processed" <=> outbound[j].verdict = "accepted"

\* "Don't leave a line-less order behind": orders without lines belong to a
\* handler that is about to add the lines or to delete them.
NoLinelessOrder == \A x \in Purchases :
  bare[x] = Cardinality({p \in Requests : pc[p] \in {"lines", "undo"} /\ Purchase(p) = x})

Status(i) == IF i <= Len(inbound) THEN inbound[i].status ELSE "absent"

\* Every stored message leaves the received status.
StatusSettles == \A i \in 1..MaxRequests : Status(i) = "received" ~> Status(i) # "received"

\* "The outbox sweep will retry": what was processed reaches the outbox.
ProcessedForwarded == \A i \in 1..MaxRequests :
  Status(i) = "processed" /\ Connected /\ HasContent(inbound[i].doc)
    ~> i \in forwarded \/ Status(i) # "processed"

\* Messages are answered as they should: one that is called processed has been
\* applied and answered, one of 997s is not answered.
AnsweredRightly == ProcessedComplete /\ NoAckLoop
=============================================================================
