-------------------------- MODULE EdiIntakeProofs --------------------------
(***************************************************************************)
(* Theorems about the EDI intake for every set of documents, any number of *)
(* concurrent handlers, failed database calls and restarts.                *)
(***************************************************************************)
EXTENDS MCEdiIntake, FiniteSetTheorems, TLAPS

Statuses == {"received", "processed", "error"}

-----------------------------------------------------------------------------
(* The message table.                                                      *)

LEMMA ReceivedRow ==
  ASSUME NEW q \in Seq(Inbound), NEW d \in Docs
  PROVE  LET r == Append(q, [doc |-> d, status |-> "received"])
         IN /\ r \in Seq(Inbound) /\ Len(r) = Len(q) + 1
            /\ \A i \in 1..Len(q) : r[i] = q[i]
            /\ r[Len(q) + 1] = [doc |-> d, status |-> "received"]
  BY DEF Inbound

LEMMA StatusRow ==
  ASSUME NEW q \in Seq(Inbound), NEW n \in 1..Len(q), NEW s \in Statuses
  PROVE  LET r == [q EXCEPT ![n].status = s]
         IN /\ r \in Seq(Inbound) /\ Len(r) = Len(q)
            /\ \A i \in 1..Len(q) : /\ r[i].doc = q[i].doc
                                    /\ r[i].status = IF i = n THEN s ELSE q[i].status
<1> DEFINE e == [q[n] EXCEPT !.status = s]
           r == [q EXCEPT ![n] = e]
<1>1. q[n] \in Inbound
  OBVIOUS
<1>2. e \in Inbound /\ e.doc = q[n].doc /\ e.status = s
  BY <1>1 DEF Inbound, Statuses
<1> HIDE DEF e
<1>3. r \in Seq(Inbound) /\ Len(r) = Len(q) /\ \A i \in 1..Len(q) : r[i] = IF i = n THEN e ELSE q[i]
  BY <1>2
<1>4. [q EXCEPT ![n].status = s] = r
  BY DEF e
<1> HIDE DEF r
<1>5. \A i \in 1..Len(q) : /\ r[i].doc = q[i].doc
                           /\ r[i].status = IF i = n THEN s ELSE q[i].status
  BY <1>2, <1>3
<1> QED BY <1>3, <1>4, <1>5

LEMMA SettledRow ==
  ASSUME NEW q \in Seq(Outbound), NEW n \in 1..Len(q), NEW a
  PROVE  LET r == [q EXCEPT ![n] = Settled(@, a)]
         IN /\ r \in Seq(Outbound) /\ Len(r) = Len(q)
            /\ \A i \in 1..Len(q) : /\ r[i].answers = q[i].answers
                                    /\ r[i].control = q[i].control
            /\ \A i \in 1..Len(q) : i # n => r[i] = q[i]
            /\ r[n] = Settled(q[n], a)
<1> DEFINE e == Settled(q[n], a)
           r == [q EXCEPT ![n] = e]
<1>1. q[n] \in Outbound
  OBVIOUS
<1>2. e \in Outbound /\ e.answers = q[n].answers /\ e.control = q[n].control
  BY <1>1 DEF Outbound, Settled
<1>3. [q EXCEPT ![n] = Settled(@, a)] = r
  OBVIOUS
<1> HIDE DEF e
<1>4. r \in Seq(Outbound) /\ Len(r) = Len(q) /\ \A i \in 1..Len(q) : r[i] = IF i = n THEN e ELSE q[i]
  BY <1>2
<1> HIDE DEF r
<1>5. \A i \in 1..Len(q) : /\ r[i].answers = q[i].answers
                           /\ r[i].control = q[i].control
  BY <1>2, <1>4
<1> QED BY <1>3, <1>4, <1>5 DEF e

LEMMA StoredRow ==
  ASSUME NEW q \in Seq(Outbound), NEW e \in Outbound
  PROVE  /\ Append(q, e) \in Seq(Outbound) /\ Len(Append(q, e)) = Len(q) + 1
         /\ \A i \in 1..Len(q) : Append(q, e)[i] = q[i]
         /\ Append(q, e)[Len(q) + 1] = e
  OBVIOUS

-----------------------------------------------------------------------------
(* Control numbers: there always is a greatest one, so the next is defined. *)

HasMax == \E m \in Numbers \cup {0} : \A n \in Numbers : m >= n

LEMMA NextIsFresh ==
  ASSUME outbound \in Seq(Outbound), HasMax
  PROVE  NextControlNumber \in Nat \ {0} /\ \A n \in Numbers : NextControlNumber > n
<1> DEFINE greatest == CHOOSE n \in Numbers \cup {0} : \A m \in Numbers : n >= m
<1>1. Numbers \subseteq Nat
  <2>1. \A j \in 1..Len(outbound) : outbound[j] \in Outbound
    OBVIOUS
  <2>2. \A j \in 1..Len(outbound) : outbound[j].control \in Nat
    BY <2>1 DEF Outbound
  <2> QED BY <2>2 DEF Numbers
<1>2. greatest \in Numbers \cup {0} /\ \A m \in Numbers : greatest >= m
  BY DEF HasMax
<1>3. NextControlNumber = greatest + 1
  BY DEF NextControlNumber
<1> HIDE DEF greatest
<1> QED BY <1>1, <1>2, <1>3

\* Settling a message changes no number; storing one keeps a greatest.
LEMMA MaxKept ==
  ASSUME outbound \in Seq(Outbound), HasMax, Len(outbound') = Len(outbound),
         \A j \in 1..Len(outbound) : outbound'[j].control = outbound[j].control
  PROVE  HasMax' /\ Numbers' = Numbers
<1>1. Numbers' = Numbers
  BY DEF Numbers
<1> QED BY <1>1 DEF HasMax

LEMMA MaxAppend ==
  ASSUME outbound \in Seq(Outbound), HasMax, NEW e \in Outbound, outbound' = Append(outbound, e)
  PROVE  HasMax' /\ Numbers' = Numbers \cup {e.control}
<1>1. Numbers' = Numbers \cup {e.control}
  <2>1. /\ Len(outbound') = Len(outbound) + 1
        /\ \A j \in 1..Len(outbound) : outbound'[j] = outbound[j]
        /\ outbound'[Len(outbound) + 1] = e
    BY StoredRow
  <2> QED BY <2>1 DEF Numbers
<1>2. Numbers \subseteq Nat /\ e.control \in Nat
  <2>1. \A j \in 1..Len(outbound) : outbound[j] \in Outbound
    OBVIOUS
  <2>2. \A j \in 1..Len(outbound) : outbound[j].control \in Nat
    BY <2>1 DEF Outbound
  <2>3. e.control \in Nat
    BY DEF Outbound
  <2> QED BY <2>2, <2>3 DEF Numbers
<1>3. PICK m \in Numbers \cup {0} : \A n \in Numbers : m >= n
  BY DEF HasMax
<1>4. CASE e.control > m
  <2>1. \A n \in Numbers' : e.control >= n
    BY <1>1, <1>2, <1>3, <1>4
  <2> QED BY <1>1, <2>1 DEF HasMax
<1>5. CASE ~(e.control > m)
  <2>1. \A n \in Numbers' : m >= n
    BY <1>1, <1>2, <1>3, <1>5
  <2>2. m \in Numbers' \cup {0}
    BY <1>1, <1>3
  <2> QED BY <1>1, <2>1, <2>2 DEF HasMax
<1> QED BY <1>4, <1>5

-----------------------------------------------------------------------------
(* Type correctness.                                                       *)

\* What a handler's step says about its other locals.
Handling(p) ==
  /\ pc[p] \in Steps \ {"idle", "control", "store"} => row[p] # 0
  /\ pc[p] \in {"lines", "undo"} => Purchase(p) \in Purchases
  /\ pc[p] = "store" => control[p] # 0

TypeInv == TypeOK /\ HasMax /\ \A p \in Requests : Handling(p)

LEMMA DocType ==
  ASSUME TypeOK, NEW p \in Requests, row[p] # 0
  PROVE  /\ row[p] \in 1..Len(inbound) /\ Doc(p) \in Docs
         /\ Content[Doc(p)] \in Seq(Transactions)
<1>1. row[p] \in 1..Len(inbound)
  BY DEF TypeOK
<1>2. inbound[row[p]] \in Inbound
  BY <1>1 DEF TypeOK
<1>3. Doc(p) \in Docs
  BY <1>2 DEF Doc, Inbound
<1> QED BY <1>1, <1>3, EdiIntakeAssumption

LEMMA InitTypeInv == Init => TypeInv
<1> SUFFICES ASSUME Init PROVE TypeInv
  OBVIOUS
<1>1. TypeOK
  BY DEF Init, TypeOK, Steps
<1>2. HasMax
  <2>1. Numbers = {}
    BY DEF Init, Numbers
  <2> QED BY <2>1 DEF HasMax
<1>3. \A p \in Requests : Handling(p)
  BY DEF Init, Handling
<1> QED BY <1>1, <1>2, <1>3 DEF TypeInv

\* A step of handler p that only moves it on.
LEMMA MoveType ==
  ASSUME TypeInv, NEW p \in Requests, NEW s \in Steps, Goto(p, s),
         s \in {"idle", "control", "store"} \/ row[p] # 0,
         s \in {"lines", "undo"} => Purchase(p) \in Purchases /\ pos'[p] = pos[p],
         s = "store" => control'[p] # 0,
         control' \in [Requests -> Nat], \A q \in Requests : q # p => control'[q] = control[q],
         failed' \in [Requests -> BOOLEAN],
         pos' \in [Requests -> Nat \ {0}], \A q \in Requests : q # p => pos'[q] = pos[q],
         inbound' \in Seq(Inbound), Len(inbound') = Len(inbound),
         \A i \in 1..Len(inbound) : inbound'[i].doc = inbound[i].doc,
         orders' \in [Purchases -> Nat], bare' \in [Purchases -> Int],
         forwarded' \subseteq 1..Len(inbound),
         UNCHANGED <<row, started>>, faults' \in Nat,
         outbound' \in Seq(Outbound), HasMax'
  PROVE  TypeInv'
<1>1. \A q \in Requests : pc'[q] = IF q = p THEN s ELSE pc[q]
  BY DEF Goto, TypeInv, TypeOK
<1>2. pc' \in [Requests -> Steps]
  BY DEF Goto, TypeInv, TypeOK
<1>3. TypeOK'
  BY <1>2 DEF TypeInv, TypeOK
<1>4. ASSUME NEW q \in Requests PROVE Handling(q)'
  <2>1. CASE q = p
    <3>1. pc'[q] = s /\ row'[q] = row[p]
      BY <1>1, <2>1
    <3>2. s \in {"lines", "undo"} => Purchase(q)' \in Purchases
      <4> SUFFICES ASSUME s \in {"lines", "undo"} PROVE Purchase(q)' \in Purchases
        OBVIOUS
      <4>1. row[p] \in 1..Len(inbound)
        BY DocType DEF TypeInv
      <4>2. Purchase(p)' = Purchase(p)
        BY <4>1 DEF Purchase, Doc
      <4> QED BY <2>1, <4>2
    <3>3. s \notin {"idle", "control", "store"} => row'[q] # 0
      BY <3>1
    <3>4. s = "store" => control'[q] # 0
      BY <2>1
    <3> QED BY <3>1, <3>2, <3>3, <3>4 DEF Handling, Purchases
  <2>2. CASE q # p
    <3>1. pc'[q] = pc[q] /\ pos'[q] = pos[q] /\ row'[q] = row[q] /\ control'[q] = control[q]
      BY <1>1, <2>2
    <3>2. pc[q] \in {"lines", "undo"} => Purchase(q)' = Purchase(q)
      <4> SUFFICES ASSUME pc[q] \in {"lines", "undo"} PROVE Purchase(q)' = Purchase(q)
        OBVIOUS
      <4>1. row[q] \in 1..Len(inbound)
        BY DocType DEF TypeInv, Handling, Steps
      <4> QED BY <3>1, <4>1 DEF Purchase, Doc
    <3> QED BY <3>1, <3>2 DEF Handling, TypeInv
  <2> QED BY <2>1, <2>2
<1> QED BY <1>3, <1>4 DEF TypeInv

LEMMA StartType ==
  ASSUME TypeInv, NEW p \in Requests, NEW s \in {"open", "control"},
         NEW r \in 0..Len(inbound'), Start(p, r, s), s = "open" => r # 0,
         inbound' \in Seq(Inbound), Len(inbound) <= Len(inbound'),
         \A i \in 1..Len(inbound) : inbound'[i].doc = inbound[i].doc,
         UNCHANGED <<outbound, orders, bare, forwarded>>
  PROVE  TypeInv'
<1> USE DEF TypeInv, TypeOK
<1>1. Len(inbound) \in Nat /\ Len(inbound') \in Nat
  OBVIOUS
<1>2. row' \in [Requests -> 0..Len(inbound')]
  BY <1>1 DEF Start
<1>3. /\ pc' \in [Requests -> Steps] /\ pos' \in [Requests -> Nat \ {0}]
      /\ failed' \in [Requests -> BOOLEAN] /\ started' \in Nat
  BY DEF Start, Steps
<1>4. forwarded' \subseteq 1..Len(inbound')
  BY <1>1
<1>5. TypeOK'
  BY <1>2, <1>3, <1>4 DEF Start
<1>6. HasMax'
  BY MaxKept
<1>7. ASSUME NEW q \in Requests PROVE Handling(q)'
  <2>1. CASE q = p
    BY <2>1 DEF Handling, Start
  <2>2. CASE q # p
    <3>1. pc'[q] = pc[q] /\ pos'[q] = pos[q] /\ row'[q] = row[q] /\ control'[q] = control[q]
      BY <2>2 DEF Start
    <3>2. pc[q] \in {"lines", "undo"} => Purchase(q)' = Purchase(q)
      <4> SUFFICES ASSUME pc[q] \in {"lines", "undo"} PROVE Purchase(q)' = Purchase(q)
        OBVIOUS
      <4>1. row[q] \in 1..Len(inbound)
        BY DocType DEF TypeInv, Handling, Steps
      <4> QED BY <3>1, <4>1 DEF Purchase, Doc
    <3> QED BY <3>1, <3>2 DEF Handling, Purchases
  <2> QED BY <2>1, <2>2
<1> QED BY <1>5, <1>6, <1>7

\* The transaction a handler stands at is one of its document's.
LEMMA AtType ==
  ASSUME TypeInv, NEW p \in Requests, AtTransaction(p)
  PROVE  /\ row[p] # 0 /\ row[p] \in 1..Len(inbound) /\ pc[p] = "apply"
         /\ Doc(p) \in Docs /\ Current(p) \in Transactions
         /\ Current(p).kind = "850" => Purchase(p) \in Purchases
<1>1. pc[p] = "apply" /\ pos[p] \in 1..Len(Content[Doc(p)])
  BY DEF AtTransaction
<1>2. row[p] # 0
  BY <1>1 DEF TypeInv, Handling, Steps
<1>3. row[p] \in 1..Len(inbound) /\ Doc(p) \in Docs /\ Content[Doc(p)] \in Seq(Transactions)
  BY <1>2, DocType DEF TypeInv
<1>4. Current(p) \in Transactions
  BY <1>1, <1>3 DEF Current, Txn
<1>5. Current(p).kind = "850" => Purchase(p) \in Purchases
  BY <1>1, <1>3 DEF Purchase, Purchases, Current
<1> QED BY <1>1, <1>2, <1>3, <1>4, <1>5

LEMMA TransactType ==
  ASSUME TypeInv, NEW p \in Requests, Transact(p) PROVE TypeInv'
<1> USE DEF TypeInv, TypeOK
<1>1. AfterTransactions(p) \in Steps \ {"lines", "undo", "store"}
  BY DEF AfterTransactions, Steps
<1>2. CASE TransactionThrows(p)
  <2>1. row[p] # 0
    BY <1>2, AtType DEF TransactionThrows
  <2>2. HasMax'
    BY <1>2, MaxKept DEF TransactionThrows
  <2> QED BY <1>1, <1>2, <2>1, <2>2, MoveType DEF TransactionThrows, Throw
<1>3. CASE Reconcile(p)
  <2>1. row[p] # 0 /\ pc[p] = "apply"
    BY <1>3, AtType DEF Reconcile
  <2>2. /\ outbound' \in Seq(Outbound) /\ Len(outbound') = Len(outbound)
        /\ \A j \in 1..Len(outbound) : outbound'[j].control = outbound[j].control
    <3>1. CASE UNCHANGED outbound
      BY <3>1
    <3>2. ASSUME NEW j \in 1..Len(outbound),
                 outbound' = [outbound EXCEPT ![j] = Settled(@, Current(p))]
          PROVE <2>2!:
      BY <3>2, SettledRow
    <3> QED BY <1>3, <3>1, <3>2 DEF Reconcile
  <2>3. HasMax'
    BY <2>2, MaxKept
  <2>4. Goto(p, "apply") /\ pos' \in [Requests -> Nat \ {0}]
    BY <1>3, <2>1 DEF Reconcile, Goto
  <2> QED BY <1>3, <2>1, <2>2, <2>3, <2>4, MoveType DEF Reconcile, Steps
<1>4. CASE InsertOrder(p)
  <2>1. row[p] # 0 /\ Purchase(p) \in Purchases
    BY <1>4, AtType DEF InsertOrder
  <2>2. HasMax'
    BY <1>4, MaxKept DEF InsertOrder
  <2>3. bare' \in [Purchases -> Int]
    BY <1>4, <2>1 DEF InsertOrder
  <2> QED BY <1>4, <2>1, <2>2, <2>3, MoveType DEF InsertOrder, Steps
<1>5. CASE InsertLines(p)
  <2>1. row[p] # 0 /\ Purchase(p) \in Purchases
    BY <1>5 DEF InsertLines, Handling, Steps
  <2>2. HasMax'
    BY <1>5, MaxKept DEF InsertLines
  <2>4. bare' \in [Purchases -> Int] /\ orders' \in [Purchases -> Nat]
    BY <1>5, <2>1 DEF InsertLines
  <2>3. pos' \in [Requests -> Nat \ {0}]
    BY <1>5 DEF InsertLines
  <2> QED BY <1>5, <2>1, <2>2, <2>3, <2>4, MoveType DEF InsertLines, Steps
<1>6. CASE LinesFail(p)
  <2>1. row[p] # 0 /\ Purchase(p) \in Purchases
    BY <1>6 DEF LinesFail, Handling, Steps
  <2>2. HasMax'
    BY <1>6, MaxKept DEF LinesFail
  <2> QED BY <1>6, <2>1, <2>2, MoveType DEF LinesFail, Steps
<1>7. CASE Undo(p) \/ UndoFails(p)
  <2>1. row[p] # 0
    BY <1>7 DEF Undo, UndoFails, Handling, Steps
  <2>2. HasMax' /\ bare' \in [Purchases -> Int]
    BY <1>7, MaxKept DEF Undo, UndoFails
  <2>3. faults' \in Nat
    BY <1>7 DEF Undo, UndoFails, Fault
  <2> QED BY <1>1, <1>7, <2>1, <2>2, <2>3, MoveType DEF Undo, UndoFails, Throw
<1>8. CASE Applied(p)
  <2>1. row[p] # 0
    BY <1>8 DEF Applied, Handling, Steps
  <2>2. HasMax'
    BY <1>8, MaxKept DEF Applied
  <2> QED BY <1>1, <1>8, <2>1, <2>2, MoveType DEF Applied
<1> QED BY <1>2, <1>3, <1>4, <1>5, <1>6, <1>7, <1>8 DEF Transact

LEMMA AnswerType ==
  ASSUME TypeInv, NEW p \in Requests, Answer(p) PROVE TypeInv'
<1> USE DEF TypeInv, TypeOK
<1>1. CASE PickControl(p)
  <2>1. NextControlNumber \in Nat \ {0}
    BY NextIsFresh
  <2>2. HasMax'
    BY <1>1, MaxKept DEF PickControl
  <2> QED BY <1>1, <2>1, <2>2, MoveType DEF PickControl, Steps
<1>2. CASE StoreOutbound(p)
  <2> DEFINE e == [set |-> IF row[p] = 0 THEN "855" ELSE "997",
                   control |-> control[p], status |-> "generated",
                   answers |-> row[p], verdict |-> "none"]
  <2>1. control[p] \in Nat \ {0} /\ row[p] \in Nat
    BY <1>2 DEF StoreOutbound, Handling
  <2>2. e \in Outbound
    BY <2>1 DEF Outbound
  <2>3. outbound' = Append(outbound, e)
    BY <1>2 DEF StoreOutbound
  <2> HIDE DEF e
  <2>4. HasMax' /\ outbound' \in Seq(Outbound)
    BY <2>2, <2>3, MaxAppend, StoredRow
  <2> QED BY <1>2, <2>4, MoveType DEF StoreOutbound, Steps
<1>3. CASE OutboundThrows(p)
  <2>1. HasMax' /\ faults' \in Nat
    BY <1>3, MaxKept DEF OutboundThrows, Fault
  <2> QED BY <1>3, <2>1, MoveType DEF OutboundThrows, Steps
<1> QED BY <1>1, <1>2, <1>3 DEF Answer

LEMMA FinishType ==
  ASSUME TypeInv, NEW p \in Requests, Finish(p) \/ Refuse(p) \/ RefuseLost(p) \/ Identify(p) PROVE TypeInv'
<1> USE DEF TypeInv, TypeOK
<1>1. AfterClose(p) \in Steps \ {"lines", "undo", "store"}
  BY DEF AfterClose, Steps
<1>2. row[p] # 0 /\ row[p] \in 1..Len(inbound)
  BY DocType DEF Finish, Close, CloseLost, Forward, ForwardLost, Refuse, RefuseLost, Identify, Handling, Steps
<1>3. HasMax'
  BY MaxKept DEF Finish, Close, CloseLost, Forward, ForwardLost, Refuse, RefuseLost, Identify
<1>4. CASE Close(p)
  <2>1. PICK s \in Statuses : inbound' = [inbound EXCEPT ![row[p]].status = s]
    BY <1>4 DEF Close, Statuses
  <2>2. /\ inbound' \in Seq(Inbound) /\ Len(inbound') = Len(inbound)
        /\ \A i \in 1..Len(inbound) : inbound'[i].doc = inbound[i].doc
    BY <1>2, <2>1, StatusRow
  <2> QED BY <1>1, <1>2, <1>3, <1>4, <2>2, MoveType DEF Close
<1>5. CASE Refuse(p)
  <2>1. PICK s \in Statuses : inbound' = [inbound EXCEPT ![row[p]].status = s]
    BY <1>5 DEF Refuse, Statuses
  <2>2. /\ inbound' \in Seq(Inbound) /\ Len(inbound') = Len(inbound)
        /\ \A i \in 1..Len(inbound) : inbound'[i].doc = inbound[i].doc
    BY <1>2, <2>1, StatusRow
  <2> QED BY <1>2, <1>3, <1>5, <2>2, MoveType DEF Refuse, Steps
<1>6. CASE CloseLost(p)
  <2>1. faults' \in Nat
    BY <1>6 DEF CloseLost, Fault
  <2> QED BY <1>1, <1>2, <1>3, <1>6, <2>1, MoveType DEF CloseLost
<1>7. CASE Forward(p)
  BY <1>2, <1>3, <1>7, MoveType DEF Forward, Steps
<1>8. CASE ForwardLost(p)
  <2>1. faults' \in Nat
    BY <1>8 DEF ForwardLost, Fault
  <2> QED BY <1>2, <1>3, <1>8, <2>1, MoveType DEF ForwardLost, Steps
<1>9. CASE Identify(p)
  BY <1>2, <1>3, <1>9, MoveType DEF Identify, Steps
<1>10. CASE RefuseLost(p)
  <2>1. faults' \in Nat
    BY <1>10 DEF RefuseLost, Fault
  <2> QED BY <1>2, <1>3, <1>10, <2>1, MoveType DEF RefuseLost, Steps
<1> QED BY <1>4, <1>5, <1>6, <1>7, <1>8, <1>9, <1>10 DEF Finish

LEMMA TypeStep == TypeInv /\ [Next]_vars => TypeInv'
<1> SUFFICES ASSUME TypeInv, [Next]_vars PROVE TypeInv'
  OBVIOUS
<1> USE DEF TypeInv, TypeOK
<1>1. ASSUME NEW p \in Requests, NEW d \in Docs, Receive(p, d) PROVE TypeInv'
  <2>1. /\ inbound' \in Seq(Inbound) /\ Len(inbound') = Len(inbound) + 1
        /\ \A i \in 1..Len(inbound) : inbound'[i] = inbound[i]
    BY <1>1, ReceivedRow DEF Receive
  <2>2. Len(inbound) + 1 \in 0..Len(inbound') /\ Len(inbound) + 1 # 0
    BY <2>1
  <2>3. Start(p, Len(inbound) + 1, "open") /\ UNCHANGED <<outbound, orders, bare, forwarded>>
    BY <1>1 DEF Receive
  <2>4. Len(inbound) <= Len(inbound') /\ \A i \in 1..Len(inbound) : inbound'[i].doc = inbound[i].doc
    BY <2>1
  <2> HIDE DEF TypeInv, TypeOK
  <2> QED BY <2>1, <2>2, <2>3, <2>4, StartType
<1>2. ASSUME NEW p \in Requests, NEW i \in 1..Len(inbound), Reprocess(p, i) PROVE TypeInv'
  <2>1. PICK s \in Statuses : inbound' = [inbound EXCEPT ![i].status = s]
    BY <1>2 DEF Reprocess, Statuses
  <2>2. /\ inbound' \in Seq(Inbound) /\ Len(inbound') = Len(inbound)
        /\ \A j \in 1..Len(inbound) : inbound'[j].doc = inbound[j].doc
    BY <2>1, StatusRow
  <2>3. i \in 0..Len(inbound') /\ i # 0 /\ Len(inbound) <= Len(inbound')
    BY <2>2
  <2>4. Start(p, i, "open") /\ UNCHANGED <<outbound, orders, bare, forwarded>>
    BY <1>2 DEF Reprocess
  <2> HIDE DEF TypeInv, TypeOK
  <2> QED BY <2>2, <2>3, <2>4, StartType
<1>3. ASSUME NEW p \in Requests, Emit(p) PROVE TypeInv'
  <2>1. Start(p, 0, "control") /\ UNCHANGED <<inbound, outbound, orders, bare, forwarded>>
    BY <1>3 DEF Emit
  <2>2. /\ inbound' \in Seq(Inbound) /\ Len(inbound') = Len(inbound)
        /\ \A j \in 1..Len(inbound) : inbound'[j].doc = inbound[j].doc
    BY <2>1
  <2>3. 0 \in 0..Len(inbound') /\ Len(inbound) <= Len(inbound')
    BY <2>2
  <2> HIDE DEF TypeInv, TypeOK
  <2> QED BY <2>1, <2>2, <2>3, StartType
<1>4. ASSUME NEW p \in Requests, Advance(p) PROVE TypeInv'
  BY <1>4, TransactType, AnswerType, FinishType DEF Advance
<1>5. CASE Crash
  <2>1. HasMax'
    BY <1>5, MaxKept DEF Crash
  <2>2. TypeOK'
    BY <1>5 DEF Crash, Fault, Steps
  <2>3. \A p \in Requests : Handling(p)'
    BY <1>5 DEF Crash, Handling
  <2> QED BY <2>1, <2>2, <2>3
<1>6. CASE UNCHANGED vars \/ Quiet
  <2>1. UNCHANGED vars
    BY <1>6 DEF Quiet
  <2>2. HasMax'
    BY <2>1, MaxKept DEF vars
  <2> QED BY <2>1, <2>2 DEF vars, locals, Handling, Purchase, Doc
<1> QED BY <1>1, <1>2, <1>3, <1>4, <1>5, <1>6 DEF Next

\* The tables and the handlers' locals keep their types; every handler works
\* on a stored message and every number handed out is positive.
THEOREM EdiIntakeType == Spec => []TypeOK
<1>1. TypeInv => TypeOK
  BY DEF TypeInv
<1> QED BY InitTypeInv, TypeStep, <1>1, PTL DEF Spec

-----------------------------------------------------------------------------
(* What the outbound table can go through in a step.                       *)

Unsettled == UNCHANGED outbound

SettledBy(p) == /\ AtTransaction(p) /\ Current(p).kind = "997"
                /\ \E j \in 1..Len(outbound) :
                     outbound' = [outbound EXCEPT ![j] = Settled(@, Current(p))]

StoredBy(p) == StoreOutbound(p)

LEMMA OutboundStep ==
  ASSUME TypeInv, [Next]_vars
  PROVE  Unsettled \/ \E p \in Requests : SettledBy(p) \/ StoredBy(p)
<1>1. ASSUME NEW p \in Requests, Advance(p) PROVE Unsettled \/ SettledBy(p) \/ StoredBy(p)
  <2>1. CASE Reconcile(p)
    BY <2>1 DEF Reconcile, SettledBy, Unsettled
  <2>2. CASE Answer(p)
    BY <2>2 DEF Answer, PickControl, OutboundThrows, Unsettled, StoredBy
  <2>3. CASE Finish(p) \/ Refuse(p) \/ RefuseLost(p) \/ Identify(p)
    BY <2>3 DEF Finish, Close, CloseLost, Forward, ForwardLost, Refuse, RefuseLost, Identify, Unsettled
  <2>4. CASE Transact(p) /\ ~Reconcile(p)
    BY <2>4 DEF Transact, TransactionThrows, InsertOrder, InsertLines, LinesFail, Undo, UndoFails,
                Applied, Unsettled
  <2> QED BY <1>1, <2>1, <2>2, <2>3, <2>4 DEF Advance
<1>2. CASE Crash \/ Quiet \/ UNCHANGED vars
  BY <1>2 DEF Crash, Quiet, vars, Unsettled
<1>3. ASSUME NEW p \in Requests,
             \/ \E d \in Docs : Receive(p, d)
             \/ \E i \in 1..Len(inbound) : Reprocess(p, i)
             \/ Emit(p)
      PROVE Unsettled
  BY <1>3 DEF Receive, Reprocess, Emit, Unsettled
<1> QED BY <1>1, <1>2, <1>3 DEF Next

\* No 997 has AK3/AK4 detail between its AK2 and AK5.
PlainAcks == \A d \in Docs : \A k \in 1..Len(Content[d]) :
               Txn(d, k).kind = "997" => ~Txn(d, k).detail

LEMMA SettledVerdict ==
  ASSUME NEW m \in Outbound, NEW a, ~a.detail
  PROVE  LET r == Settled(m, a)
         IN /\ r.status = "error" <=> r.verdict = "rejected"
            /\ r.status = "processed" <=> r.verdict = "accepted"
<1>1. /\ Settled(m, a).status = IF Disposition(ParsedCode(a)) = "rejected" THEN "error" ELSE "processed"
      /\ Settled(m, a).verdict = IF a.code = "R" THEN "rejected" ELSE "accepted"
  BY DEF Settled, Outbound
<1>2. Disposition(ParsedCode(a)) = "rejected" <=> a.code = "R"
  BY DEF Disposition, ParsedCode
<1> QED BY <1>1, <1>2

\* Apart from 997s whose AK2 is followed by AK3/AK4 detail, reconcile997 makes
\* the ledger say what the partner said, whatever else happens.
THEOREM EdiIntakeVerdict == ASSUME PlainAcks PROVE Spec => []VerdictRecorded
<1>1. Init => VerdictRecorded
  BY DEF Init, VerdictRecorded
<1>2. TypeInv /\ VerdictRecorded /\ [Next]_vars => VerdictRecorded'
  <2> SUFFICES ASSUME TypeInv, VerdictRecorded, [Next]_vars PROVE VerdictRecorded'
    OBVIOUS
  <2>0. outbound \in Seq(Outbound)
    BY DEF TypeInv, TypeOK
  <2>1. CASE Unsettled
    BY <2>1 DEF Unsettled, VerdictRecorded
  <2>2. ASSUME NEW p \in Requests, SettledBy(p) PROVE VerdictRecorded'
    <3>1. ~Current(p).detail
      <4>1. Doc(p) \in Docs /\ pos[p] \in 1..Len(Content[Doc(p)])
        BY <2>2, AtType DEF AtTransaction, SettledBy
      <4> QED BY <2>2, <4>1 DEF PlainAcks, SettledBy, Current
    <3>2. PICK j \in 1..Len(outbound) : outbound' = [outbound EXCEPT ![j] = Settled(@, Current(p))]
      BY <2>2 DEF SettledBy
    <3>3. /\ Len(outbound') = Len(outbound)
          /\ \A i \in 1..Len(outbound) : i # j => outbound'[i] = outbound[i]
          /\ outbound'[j] = Settled(outbound[j], Current(p))
      BY <2>0, <3>2, SettledRow
    <3>4. outbound[j] \in Outbound
      BY <2>0
    <3>5. /\ outbound'[j].status = "error" <=> outbound'[j].verdict = "rejected"
          /\ outbound'[j].status = "processed" <=> outbound'[j].verdict = "accepted"
      BY <3>1, <3>3, <3>4, SettledVerdict
    <3> QED BY <3>3, <3>5 DEF VerdictRecorded
  <2>3. ASSUME NEW p \in Requests, StoredBy(p) PROVE VerdictRecorded'
    <3> DEFINE e == [set |-> IF row[p] = 0 THEN "855" ELSE "997",
                     control |-> control[p], status |-> "generated",
                     answers |-> row[p], verdict |-> "none"]
    <3>1. outbound' = Append(outbound, e)
      BY <2>3 DEF StoredBy, StoreOutbound
    <3>2. e.status = "generated" /\ e.verdict = "none"
      OBVIOUS
    <3> HIDE DEF e
    <3>3. /\ Len(outbound') = Len(outbound) + 1
          /\ \A i \in 1..Len(outbound) : outbound'[i] = outbound[i]
          /\ outbound'[Len(outbound) + 1] = e
      BY <2>0, <3>1
    <3> QED BY <3>2, <3>3 DEF VerdictRecorded
  <2> QED BY <2>1, <2>2, <2>3, OutboundStep
<1> QED BY InitTypeInv, TypeStep, <1>1, <1>2, PTL DEF Spec

-----------------------------------------------------------------------------
(* Control numbers: unique as long as one handler at a time picks them.    *)

\* No two handlers hold a number between the lookup and the insert.
OneHolder == \A p, q \in Requests : pc[p] = "store" /\ pc[q] = "store" => p = q

NumberFresh == \A p \in Requests : pc[p] = "store" => \A n \in Numbers : control[p] > n

LEMMA StoreStep ==
  ASSUME TypeInv, ControlUnique, NumberFresh, NEW p \in Requests, StoreOutbound(p)
  PROVE  ControlUnique'
<1> DEFINE e == [set |-> IF row[p] = 0 THEN "855" ELSE "997",
                 control |-> control[p], status |-> "generated",
                 answers |-> row[p], verdict |-> "none"]
<1>1. outbound' = Append(outbound, e) /\ e.control = control[p] /\ control[p] \in Nat
  BY DEF StoreOutbound, TypeInv, TypeOK
<1>2. \A i \in 1..Len(outbound) : control[p] > outbound[i].control /\ outbound[i].control \in Nat
  <2>1. \A i \in 1..Len(outbound) : outbound[i] \in Outbound
    BY DEF TypeInv, TypeOK
  <2>2. \A i \in 1..Len(outbound) : outbound[i].control \in Numbers
    BY DEF Numbers
  <2>3. \A i \in 1..Len(outbound) : outbound[i].control \in Nat
    BY <2>1 DEF Outbound
  <2> QED BY <2>2, <2>3 DEF NumberFresh, StoreOutbound
<1> HIDE DEF e
<1>3. /\ Len(outbound') = Len(outbound) + 1 /\ Len(outbound) \in Nat
      /\ \A i \in 1..Len(outbound) : outbound'[i] = outbound[i]
      /\ outbound'[Len(outbound) + 1] = e
  BY <1>1 DEF TypeInv, TypeOK
<1> SUFFICES ASSUME NEW i \in 1..Len(outbound'), NEW j \in 1..Len(outbound'),
                    outbound'[i].control = outbound'[j].control
             PROVE  i = j
  BY DEF ControlUnique
<1>4. CASE i \in 1..Len(outbound) /\ j \in 1..Len(outbound)
  BY <1>3, <1>4 DEF ControlUnique
<1>5. CASE i = Len(outbound) + 1 \/ j = Len(outbound) + 1
  <2>1. i \in 1..Len(outbound) => outbound'[i].control < control[p]
    BY <1>2, <1>3
  <2>2. j \in 1..Len(outbound) => outbound'[j].control < control[p]
    BY <1>2, <1>3
  <2> QED BY <1>1, <1>3, <1>5, <2>1, <2>2
<1> QED BY <1>3, <1>4, <1>5

\* A handler comes to the insert through the lookup, and holds its number there.
LEMMA StoreReached ==
  ASSUME TypeInv, [Next]_vars, NEW p \in Requests, pc'[p] = "store"
  PROVE  PickControl(p) \/ (pc[p] = "store" /\ control'[p] = control[p])
<1>1. pc \in [Requests -> Steps] /\ control \in [Requests -> Nat]
  BY DEF TypeInv, TypeOK
<1>2. AfterTransactions(p) # "store" /\ AfterClose(p) # "store"
  BY DEF AfterTransactions, AfterClose
<1>3. ASSUME NEW q \in Requests, Advance(q)
      PROVE  PickControl(p) \/ (pc[p] = "store" /\ control'[p] = control[p])
  <2>1. CASE q = p
    <3>1. ~(Refuse(p) \/ RefuseLost(p) \/ Identify(p))
      BY <1>1 DEF Refuse, RefuseLost, Identify, Goto
    <3>2. CASE Transact(p)
      <4>1. pc'[p] # pc[p] => pc'[p] \in {AfterTransactions(p), "lines", "undo", "apply"}
        BY <1>1, <3>2 DEF Transact, TransactionThrows, Throw, Reconcile, InsertOrder, InsertLines,
           LinesFail, Undo, UndoFails, Applied, Goto
      <4>2. control' = control
        BY <3>2 DEF Transact, TransactionThrows, Reconcile, InsertOrder, InsertLines, LinesFail, Undo,
           UndoFails, Applied
      <4> QED BY <1>2, <4>1, <4>2
    <3>3. ~(StoreOutbound(p) \/ OutboundThrows(p) \/ Finish(p))
      BY <1>1, <1>2 DEF StoreOutbound, OutboundThrows, Finish, Close, CloseLost, Forward, ForwardLost, Goto
    <3> QED BY <1>3, <2>1, <3>1, <3>2, <3>3 DEF Advance, Answer
  <2>2. CASE q # p
    <3>1. pc'[p] = pc[p]
      BY <1>1, <1>3, <2>2 DEF Advance, Refuse, RefuseLost, Identify, Transact, TransactionThrows, Throw, Reconcile,
         InsertOrder, InsertLines, LinesFail, Undo, UndoFails, Applied, Answer, PickControl,
         StoreOutbound, OutboundThrows, Finish, Close, CloseLost, Forward, ForwardLost, Goto
    <3>2. control'[p] = control[p]
      BY <1>1, <1>3, <2>2 DEF Advance, Refuse, RefuseLost, Identify, Transact, TransactionThrows, Reconcile,
         InsertOrder, InsertLines, LinesFail, Undo, UndoFails, Applied, Answer, PickControl,
         StoreOutbound, OutboundThrows, Finish, Close, CloseLost, Forward, ForwardLost
    <3> QED BY <3>1, <3>2
  <2> QED BY <2>1, <2>2
<1>4. ASSUME NEW q \in Requests, NEW r, NEW n \in {"open", "control"}, Start(q, r, n)
      PROVE  pc[p] = "store" /\ control'[p] = control[p]
  BY <1>1, <1>4 DEF Start
<1>5. ~Crash
  BY DEF Crash
<1>6. CASE Quiet \/ UNCHANGED vars
  BY <1>6 DEF Quiet, vars, locals
<1>7. ASSUME NEW q \in Requests,
             \/ \E d \in Docs : Receive(q, d)
             \/ \E i \in 1..Len(inbound) : Reprocess(q, i)
             \/ Emit(q)
      PROVE  pc[p] = "store" /\ control'[p] = control[p]
  BY <1>4, <1>7 DEF Receive, Reprocess, Emit
<1> QED BY <1>3, <1>5, <1>6, <1>7 DEF Next

LEMMA ControlStep ==
  ASSUME TypeInv, ControlUnique, NumberFresh, OneHolder, [Next]_vars
  PROVE  ControlUnique' /\ NumberFresh'
<1>0. outbound \in Seq(Outbound)
  BY DEF TypeInv, TypeOK
<1>1. ASSUME NEW p \in Requests, SettledBy(p)
      PROVE  /\ Len(outbound') = Len(outbound) /\ Numbers' = Numbers
             /\ \A i \in 1..Len(outbound) : outbound'[i].control = outbound[i].control
  <2>1. PICK j \in 1..Len(outbound) : outbound' = [outbound EXCEPT ![j] = Settled(@, Current(p))]
    BY <1>1 DEF SettledBy
  <2>2. /\ Len(outbound') = Len(outbound)
        /\ \A i \in 1..Len(outbound) : outbound'[i].control = outbound[i].control
    BY <1>0, <2>1, SettledRow
  <2>3. HasMax' /\ Numbers' = Numbers
    BY <1>0, <2>2, MaxKept DEF TypeInv
  <2> QED BY <2>2, <2>3
<1>2. ControlUnique'
  <2>1. CASE Unsettled
    BY <2>1 DEF Unsettled, ControlUnique
  <2>2. ASSUME NEW p \in Requests, SettledBy(p) PROVE ControlUnique'
    BY <1>1, <2>2 DEF ControlUnique
  <2>3. ASSUME NEW p \in Requests, StoredBy(p) PROVE ControlUnique'
    BY <2>3, StoreStep DEF StoredBy
  <2> QED BY <2>1, <2>2, <2>3, OutboundStep
<1>3. ASSUME NEW p \in Requests, pc'[p] = "store" PROVE \A n \in Numbers' : control'[p] > n
  <2>1. CASE PickControl(p)
    <3>1. control'[p] = NextControlNumber /\ Numbers' = Numbers
      BY <2>1 DEF PickControl, TypeInv, TypeOK, Numbers
    <3> QED BY <1>0, <3>1, NextIsFresh DEF TypeInv
  <2>2. CASE pc[p] = "store" /\ control'[p] = control[p]
    <3>1. ASSUME NEW q \in Requests PROVE ~StoredBy(q)
      <4> SUFFICES ASSUME StoredBy(q) PROVE FALSE
        OBVIOUS
      <4>1. q = p
        BY <2>2 DEF StoredBy, StoreOutbound, OneHolder
      <4>2. pc'[p] # "store"
        BY <4>1 DEF StoredBy, StoreOutbound, Goto, TypeInv, TypeOK
      <4> QED BY <1>3, <4>2
    <3>2. Numbers' = Numbers
      BY <1>1, <3>1, OutboundStep DEF Unsettled, Numbers
    <3> QED BY <2>2, <3>2 DEF NumberFresh
  <2> QED BY <1>3, <2>1, <2>2, StoreReached
<1> QED BY <1>2, <1>3 DEF NumberFresh

LEMMA InitControl == Init => ControlUnique /\ NumberFresh
  BY DEF Init, ControlUnique, NumberFresh

\* nextControlNumber and storeOutbound, whatever happens around them: while no
\* two handlers are between the lookup and the insert at once, no control
\* number is used twice.  The overlap is the only cause of a collision.
THEOREM EdiIntakeControl == Spec /\ []OneHolder => []ControlUnique
<1>1. TypeInv /\ ControlUnique /\ NumberFresh /\ OneHolder /\ [Next]_vars
        => ControlUnique' /\ NumberFresh'
  BY ControlStep
<1> QED BY InitTypeInv, TypeStep, InitControl, <1>1, PTL DEF Spec

-----------------------------------------------------------------------------
(* The runs' cast: who is not of it stays idle, and the lone handler meets *)
(* no fault.                                                               *)

CastInv ==
  /\ \A p \in Requests \ cast : pc[p] = "idle"
  /\ cast = Alone => faults = 0

LEMMA InitCast == MCInit => Init /\ CastInv
  BY DEF MCInit, Init, CastInv

LEMMA CastStep == CastInv /\ [MCNext]_mcvars => CastInv' /\ [Next]_vars /\ cast' = cast
<1> SUFFICES ASSUME CastInv, [MCNext]_mcvars PROVE CastInv' /\ [Next]_vars /\ cast' = cast
  OBVIOUS
<1>1. CASE MCNext
  BY <1>1 DEF MCNext, Plays, CastInv
<1>2. CASE UNCHANGED mcvars
  BY <1>2 DEF mcvars, vars, locals, CastInv
<1> QED BY <1>1, <1>2

\* With one handler at a time (sequential requests of one process), whatever
\* documents arrive, however often they are resent or retried, and however
\* many acknowledgements are sent, no control number is used twice.
THEOREM EdiIntakeAloneControl ==
  ASSUME NEW p \in Requests, Alone = {p} PROVE MCSpec => []AloneControlUnique
<1> DEFINE Inv == cast = Alone => ControlUnique /\ NumberFresh
<1>1. MCInit => Inv
  BY InitCast, InitControl
<1>2. TypeInv /\ CastInv /\ Inv /\ [MCNext]_mcvars => Inv'
  <2> SUFFICES ASSUME TypeInv, CastInv, Inv, [MCNext]_mcvars, cast' = Alone
               PROVE  ControlUnique' /\ NumberFresh'
    OBVIOUS
  <2>1. cast = Alone /\ [Next]_vars
    BY CastStep
  <2>2. OneHolder
    BY <2>1 DEF OneHolder, CastInv
  <2> QED BY <2>1, <2>2, ControlStep
<1>3. TypeInv /\ CastInv /\ [MCNext]_mcvars => TypeInv' /\ CastInv'
  BY CastStep, TypeStep
<1>4. MCInit => TypeInv /\ CastInv
  BY InitCast, InitTypeInv
<1>5. Inv => AloneControlUnique
  BY DEF AloneControlUnique
<1> HIDE DEF Inv
<1> QED BY <1>1, <1>2, <1>3, <1>4, <1>5, PTL DEF MCSpec

-----------------------------------------------------------------------------
(* A processed message is completely applied and answered.  The invariant  *)
(* says how far the handler of a message has come; it survives because no  *)
(* step of anybody deletes an order with lines or a stored answer.         *)

OrderedUpto(d, k) == \A j \in 1..Len(Content[d]) :
  j < k /\ Txn(d, j).kind = "850" => orders[<<d, j>>] > 0

Ordered(d) == \A j \in 1..Len(Content[d]) : Txn(d, j).kind = "850" => orders[<<d, j>>] > 0

Answered(i) == \E j \in 1..Len(outbound) : outbound[j].answers = i

Complete(i) == /\ Ordered(inbound[i].doc)
               /\ HasContent(inbound[i].doc) => Answered(i)

Progress(p) ==
  /\ pc[p] = "open" => pos[p] = 1
  /\ pc[p] \in {"apply", "lines", "undo"} => OrderedUpto(Doc(p), pos[p])
  /\ pc[p] \in {"control", "store"} /\ row[p] # 0 =>
       HasContent(Doc(p)) /\ (~failed[p] => Ordered(Doc(p)))
  /\ pc[p] = "close" /\ ~failed[p] => Complete(row[p])

AnswersStored == \A j \in 1..Len(outbound) : outbound[j].answers \in 0..Len(inbound)

CompleteInv == /\ ProcessedComplete /\ NoAckLoop /\ AnswersStored
               /\ \A p \in Requests : Progress(p)

\* No step takes back a document, an order with lines or an answer.
Keeps ==
  /\ Len(inbound) <= Len(inbound')
  /\ \A i \in 1..Len(inbound) : inbound'[i].doc = inbound[i].doc
  /\ \A x \in Purchases : orders[x] > 0 => orders'[x] > 0
  /\ Len(outbound) <= Len(outbound')
  /\ \A j \in 1..Len(outbound) : outbound'[j].answers = outbound[j].answers

LEMMA KeepsComplete ==
  ASSUME TypeOK, TypeOK', Keeps
  PROVE  /\ \A d \in Docs, k \in Nat : OrderedUpto(d, k) => OrderedUpto(d, k)'
         /\ \A d \in Docs : Ordered(d) => Ordered(d)'
         /\ \A i \in 1..Len(inbound) : Answered(i) => Answered(i)'
         /\ \A i \in 1..Len(inbound) : Complete(i) => Complete(i)'
<1>1. \A d \in Docs : \A j \in 1..Len(Content[d]) : Txn(d, j).kind = "850" => <<d, j>> \in Purchases
  BY DEF Purchases
<1>2. \A d \in Docs, k \in Nat : OrderedUpto(d, k) => OrderedUpto(d, k)'
  BY <1>1 DEF OrderedUpto, Keeps
<1>3. \A d \in Docs : Ordered(d) => Ordered(d)'
  BY <1>1 DEF Ordered, Keeps
<1>4. \A i \in 1..Len(inbound) : Answered(i) => Answered(i)'
  <2>1. Len(outbound) \in Nat /\ Len(outbound') \in Nat
    BY DEF TypeOK
  <2> QED BY <2>1 DEF Answered, Keeps
<1>5. ASSUME NEW i \in 1..Len(inbound), Complete(i) PROVE Complete(i)'
  <2>1. inbound[i] \in Inbound
    BY DEF TypeOK
  <2>2. inbound[i].doc \in Docs /\ inbound'[i].doc = inbound[i].doc
    BY <2>1 DEF Inbound, Keeps
  <2> QED BY <1>3, <1>4, <1>5, <2>2 DEF Complete
<1> QED BY <1>2, <1>3, <1>4, <1>5

LEMMA KeepsStep == TypeInv /\ [Next]_vars => Keeps
<1> SUFFICES ASSUME TypeInv, [Next]_vars PROVE Keeps
  OBVIOUS
<1> USE DEF TypeInv
<1>0. inbound \in Seq(Inbound) /\ outbound \in Seq(Outbound) /\ Len(inbound) \in Nat /\ Len(outbound) \in Nat
  BY DEF TypeOK
<1>1. /\ Len(outbound) <= Len(outbound')
      /\ \A j \in 1..Len(outbound) : outbound'[j].answers = outbound[j].answers
  <2>1. CASE Unsettled
    BY <1>0, <2>1 DEF Unsettled
  <2>2. ASSUME NEW p \in Requests, SettledBy(p) PROVE <1>1!:
    <3>1. PICK j \in 1..Len(outbound) : outbound' = [outbound EXCEPT ![j] = Settled(@, Current(p))]
      BY <2>2 DEF SettledBy
    <3> QED BY <1>0, <3>1, SettledRow
  <2>3. ASSUME NEW p \in Requests, StoredBy(p) PROVE <1>1!:
    BY <1>0, <2>3 DEF StoredBy, StoreOutbound
  <2> QED BY <2>1, <2>2, <2>3, OutboundStep
<1>2. /\ Len(inbound) <= Len(inbound')
      /\ \A i \in 1..Len(inbound) : inbound'[i].doc = inbound[i].doc
  <2>1. ASSUME NEW n \in 1..Len(inbound), NEW s \in Statuses,
               inbound' = [inbound EXCEPT ![n].status = s]
        PROVE  <1>2!:
    BY <1>0, <2>1, StatusRow
  <2>2. ASSUME NEW p \in Requests, Refuse(p) \/ Close(p) PROVE <1>2!:
    <3>1. row[p] \in 1..Len(inbound)
      BY <2>2, DocType DEF Refuse, Close, Handling, Steps
    <3>2. \E s \in Statuses : inbound' = [inbound EXCEPT ![row[p]].status = s]
      BY <2>2 DEF Refuse, Close, Statuses
    <3> QED BY <2>1, <3>1, <3>2
  <2>3. ASSUME NEW p \in Requests, NEW d \in Docs, Receive(p, d) PROVE <1>2!:
    BY <1>0, <2>3, ReceivedRow DEF Receive
  <2>4. ASSUME NEW p \in Requests, NEW i \in 1..Len(inbound), Reprocess(p, i) PROVE <1>2!:
    <3>1. \E s \in Statuses : inbound' = [inbound EXCEPT ![i].status = s]
      BY <2>4 DEF Reprocess, Statuses
    <3> QED BY <2>1, <3>1
  <2>5. ASSUME NEW p \in Requests, Advance(p), ~Refuse(p), ~Close(p) PROVE UNCHANGED inbound
    BY <2>5 DEF Advance, RefuseLost, Identify, Transact, TransactionThrows, Reconcile, InsertOrder, InsertLines,
       LinesFail, Undo, UndoFails, Applied, Answer, PickControl, StoreOutbound, OutboundThrows,
       Finish, CloseLost, Forward, ForwardLost
  <2>6. ASSUME NEW p \in Requests, Emit(p) PROVE UNCHANGED inbound
    BY <2>6 DEF Emit
  <2>7. CASE Crash \/ Quiet \/ UNCHANGED vars
    BY <1>0, <2>7 DEF Crash, Quiet, vars
  <2> QED BY <1>0, <2>2, <2>3, <2>4, <2>5, <2>6, <2>7 DEF Next
<1>3. \A x \in Purchases : orders[x] > 0 => orders'[x] > 0
  <2>1. ASSUME NEW p \in Requests, InsertLines(p) PROVE <1>3!:
    <3>1. \A x \in Purchases : orders[x] \in Nat
      BY DEF TypeOK
    <3>2. \A x \in Purchases : orders'[x] = IF x = Purchase(p) THEN orders[x] + 1 ELSE orders[x]
      BY <2>1 DEF InsertLines, TypeOK
    <3> QED BY <3>1, <3>2
  <2>2. ASSUME NEW p \in Requests, Advance(p), ~InsertLines(p) PROVE UNCHANGED orders
    BY <2>2 DEF Advance, Refuse, RefuseLost, Identify, Transact, TransactionThrows, Reconcile, InsertOrder,
       LinesFail, Undo, UndoFails, Applied, Answer, PickControl, StoreOutbound, OutboundThrows,
       Finish, Close, CloseLost, Forward, ForwardLost
  <2>3. ASSUME NEW p \in Requests,
               \/ \E d \in Docs : Receive(p, d)
               \/ \E i \in 1..Len(inbound) : Reprocess(p, i)
               \/ Emit(p)
        PROVE UNCHANGED orders
    BY <2>3 DEF Receive, Reprocess, Emit
  <2>4. CASE Crash \/ Quiet \/ UNCHANGED vars
    BY <2>4 DEF Crash, Quiet, vars
  <2> QED BY <2>1, <2>2, <2>3, <2>4 DEF Next
<1> QED BY <1>1, <1>2, <1>3 DEF Keeps

\* A handler that does not move keeps its progress.
LEMMA StillProgress ==
  ASSUME TypeInv, TypeInv', Keeps, NEW q \in Requests, Progress(q),
         pc'[q] = pc[q], row'[q] = row[q], pos'[q] = pos[q], failed'[q] = failed[q]
  PROVE  Progress(q)'
<1>1. CASE row[q] # 0
  <2>1. row[q] \in 1..Len(inbound) /\ Doc(q) \in Docs /\ pos[q] \in Nat
    BY <1>1, DocType DEF TypeInv, TypeOK
  <2>2. Doc(q)' = Doc(q)
    BY <2>1 DEF Doc, Keeps
  <2>3. /\ OrderedUpto(Doc(q), pos[q]) => OrderedUpto(Doc(q), pos[q])'
        /\ Ordered(Doc(q)) => Ordered(Doc(q))'
        /\ Complete(row[q]) => Complete(row[q])'
    <3> DEFINE d == Doc(q)
               k == pos[q]
               r == row[q]
    <3>1. /\ \A dd \in Docs, kk \in Nat : OrderedUpto(dd, kk) => OrderedUpto(dd, kk)'
          /\ \A dd \in Docs : Ordered(dd) => Ordered(dd)'
          /\ \A rr \in 1..Len(inbound) : Complete(rr) => Complete(rr)'
      BY KeepsComplete DEF TypeInv
    <3>2. d \in Docs /\ d' = d /\ k \in Nat /\ k' = k /\ r \in 1..Len(inbound) /\ r' = r
      BY <2>1, <2>2
    <3> QED BY <3>1, <3>2 DEF OrderedUpto, Ordered, Complete, Answered
  <2> QED BY <2>2, <2>3 DEF Progress
<1>2. CASE row[q] = 0
  <2>1. pc'[q] \in {"idle", "control", "store"}
    BY <1>2 DEF TypeInv, Handling, TypeOK
  <2> QED BY <1>2, <2>1 DEF Progress
<1> QED BY <1>1, <1>2

\* The moving handler.  Its document stays, and what was ordered stays ordered.
LEMMA OwnProgress ==
  ASSUME TypeInv, TypeInv', Keeps, NEW p \in Requests, Progress(p), Advance(p)
  PROVE  Progress(p)'
<1> USE DEF TypeInv
<1>1. ASSUME row[p] # 0, row'[p] = row[p]
      PROVE  /\ row[p] \in 1..Len(inbound) /\ Doc(p) \in Docs /\ Doc(p)' = Doc(p)
             /\ \A k \in Nat : OrderedUpto(Doc(p), k) =>
                  \A j \in 1..Len(Content[Doc(p)]) :
                    j < k /\ Txn(Doc(p), j).kind = "850" => orders'[<<Doc(p), j>>] > 0
             /\ Ordered(Doc(p)) => Ordered(Doc(p))'
             /\ Complete(row[p]) => Complete(row[p])'
  <2>1. row[p] \in 1..Len(inbound) /\ Doc(p) \in Docs
    BY <1>1, DocType
  <2>2. Doc(p)' = Doc(p)
    BY <1>1, <2>1 DEF Doc, Keeps
  <2>3. /\ \A dd \in Docs, kk \in Nat : OrderedUpto(dd, kk) => OrderedUpto(dd, kk)'
        /\ \A dd \in Docs : Ordered(dd) => Ordered(dd)'
        /\ \A rr \in 1..Len(inbound) : Complete(rr) => Complete(rr)'
    BY KeepsComplete
  <2> QED BY <1>1, <2>1, <2>2, <2>3 DEF OrderedUpto, Ordered, Complete, Answered
<1>2. row'[p] = row[p]
  BY DEF Advance, Refuse, RefuseLost, Identify, Transact, TransactionThrows, Reconcile, InsertOrder, InsertLines,
     LinesFail, Undo, UndoFails, Applied, Answer, PickControl, StoreOutbound, OutboundThrows,
     Finish, Close, CloseLost, Forward, ForwardLost
<1>3. CASE Refuse(p) \/ RefuseLost(p) \/ Forward(p) \/ ForwardLost(p) \/ Close(p) \/ CloseLost(p)
  <2>1. pc'[p] \in {"idle", "forward"}
    BY <1>3 DEF Refuse, RefuseLost, Forward, ForwardLost, Close, CloseLost, AfterClose, Goto, TypeOK
  <2> QED BY <2>1 DEF Progress
<1>4. CASE Identify(p)
  <2>1. pc'[p] = "apply" /\ pos'[p] = pos[p] /\ row[p] # 0
    BY <1>4 DEF Identify, Goto, TypeOK, Handling, Steps
  <2>2. pos[p] = 1
    BY <1>4 DEF Identify, Progress
  <2> QED BY <2>1, <2>2 DEF Progress, OrderedUpto
<1>5. CASE TransactionThrows(p) \/ Undo(p) \/ UndoFails(p)
  <2>1. row[p] # 0
    BY <1>5, AtType DEF TransactionThrows, Undo, UndoFails, Handling, Steps
  <2>2. failed'[p] /\ pc'[p] = IF HasContent(Doc(p)) THEN "control" ELSE "close"
    BY <1>5 DEF TransactionThrows, Undo, UndoFails, Throw, Goto, AfterTransactions, TypeOK
  <2>3. Doc(p)' = Doc(p)
    BY <1>1, <1>2, <2>1
  <2> QED BY <2>2, <2>3 DEF Progress, HasContent
<1>6. CASE Reconcile(p) \/ InsertLines(p)
  <2>1. row[p] # 0 /\ pc[p] \in {"apply", "lines"}
    BY <1>6, AtType DEF Reconcile, InsertLines, Handling, Steps
  <2>2. pc'[p] = "apply" /\ pos'[p] = pos[p] + 1 /\ pos[p] \in Nat
    BY <1>6, <2>1 DEF Reconcile, InsertLines, AtTransaction, Goto, TypeOK
  <2>3. \A j \in 1..Len(Content[Doc(p)]) :
          j < pos[p] /\ Txn(Doc(p), j).kind = "850" => orders'[<<Doc(p), j>>] > 0
    BY <1>1, <1>2, <2>1, <2>2 DEF Progress
  <2>4. pos[p] \in 1..Len(Content[Doc(p)]) /\ Txn(Doc(p), pos[p]).kind = "850"
          => orders'[<<Doc(p), pos[p]>>] > 0
    <3>1. CASE Reconcile(p)
      BY <3>1 DEF Reconcile, Current
    <3>2. CASE InsertLines(p)
      <4>1. Purchase(p) \in Purchases
        BY <3>2 DEF InsertLines, Handling
      <4>2. orders'[Purchase(p)] = orders[Purchase(p)] + 1 /\ orders[Purchase(p)] \in Nat
        BY <3>2, <4>1 DEF InsertLines, TypeOK
      <4> QED BY <4>2 DEF Purchase
    <3> QED BY <1>6, <3>1, <3>2
  <2>5. ASSUME NEW j \in 1..Len(Content[Doc(p)]), j < pos[p] + 1, Txn(Doc(p), j).kind = "850"
        PROVE  orders'[<<Doc(p), j>>] > 0
    <3>1. j < pos[p] \/ j = pos[p]
      <4>1. Len(Content[Doc(p)]) \in Nat
        BY <2>1, DocType
      <4> QED BY <2>2, <2>5, <4>1
    <3> QED BY <2>3, <2>4, <2>5, <3>1
  <2>6. Doc(p)' = Doc(p)
    BY <1>1, <1>2, <2>1
  <2> QED BY <2>2, <2>5, <2>6 DEF Progress, OrderedUpto, Txn
<1>7. CASE InsertOrder(p) \/ LinesFail(p)
  <2>1. row[p] # 0 /\ pc[p] \in {"apply", "lines"}
    BY <1>7, AtType DEF InsertOrder, LinesFail, Handling, Steps
  <2>2. pc'[p] \in {"lines", "undo"} /\ pos'[p] = pos[p] /\ pos[p] \in Nat
    BY <1>7 DEF InsertOrder, LinesFail, Goto, TypeOK
  <2>3. OrderedUpto(Doc(p), pos[p]) /\ Doc(p)' = Doc(p)
    BY <1>1, <1>2, <2>1 DEF Progress
  <2>4. \A j \in 1..Len(Content[Doc(p)]) :
          j < pos[p] /\ Txn(Doc(p), j).kind = "850" => orders'[<<Doc(p), j>>] > 0
    BY <1>1, <1>2, <2>1, <2>2, <2>3
  <2> QED BY <2>2, <2>3, <2>4 DEF Progress, OrderedUpto, Txn
<1>8. CASE Applied(p)
  <2>1. row[p] # 0 /\ pc[p] = "apply"
    BY <1>8 DEF Applied, Handling, Steps
  <2>2. Ordered(Doc(p))
    <3>1. OrderedUpto(Doc(p), pos[p]) /\ pos[p] > Len(Content[Doc(p)]) /\ pos[p] \in Nat
      BY <1>8, <2>1 DEF Applied, Progress, TypeOK
    <3>2. Len(Content[Doc(p)]) \in Nat
      BY <2>1, DocType
    <3> QED BY <3>1, <3>2 DEF OrderedUpto, Ordered
  <2>3. pc'[p] = IF HasContent(Doc(p)) THEN "control" ELSE "close"
    BY <1>8 DEF Applied, Goto, AfterTransactions, TypeOK
  <2>4. Ordered(Doc(p))' /\ Doc(p)' = Doc(p) /\ row'[p] = row[p]
    BY <1>1, <1>2, <2>1, <2>2
  <2> QED BY <2>3, <2>4 DEF Progress, Complete, Doc, HasContent, Ordered
<1>9. CASE PickControl(p) \/ OutboundThrows(p)
  <2>1. CASE row[p] = 0
    BY <1>2, <1>9, <2>1 DEF PickControl, OutboundThrows, Goto, TypeOK, Progress
  <2>2. CASE row[p] # 0
    <3>1. pc[p] \in {"control", "store"} /\ failed'[p] = failed[p]
      BY <1>9 DEF PickControl, OutboundThrows
    <3>2. pc'[p] \in {"store", "idle"} \/ (pc'[p] = "close" /\ failed[p])
      <4>1. CASE PickControl(p)
        BY <4>1 DEF PickControl, Goto, TypeOK
      <4>2. CASE OutboundThrows(p) /\ failed[p]
        BY <4>2, <2>2 DEF OutboundThrows, Goto, TypeOK
      <4>3. CASE OutboundThrows(p) /\ ~failed[p]
        BY <4>3 DEF OutboundThrows, Goto, TypeOK
      <4> QED BY <1>9, <4>1, <4>2, <4>3
    <3>3. Doc(p)' = Doc(p) /\ (Ordered(Doc(p)) => Ordered(Doc(p))')
      BY <1>1, <1>2, <2>2
    <3> QED BY <2>2, <3>1, <3>2, <3>3 DEF Progress, HasContent
  <2> QED BY <2>1, <2>2
<1>10. CASE StoreOutbound(p)
  <2>1. CASE row[p] = 0
    BY <1>10, <2>1 DEF StoreOutbound, Goto, TypeOK, Progress
  <2>2. CASE row[p] # 0
    <3>1. pc[p] = "store" /\ pc'[p] = "close" /\ failed'[p] = failed[p]
      BY <1>10, <2>2 DEF StoreOutbound, Goto, TypeOK
    <3>2. Answered(row[p])'
      <4>1. /\ Len(outbound') = Len(outbound) + 1 /\ Len(outbound) \in Nat
            /\ outbound'[Len(outbound) + 1].answers = row[p]
        BY <1>10 DEF StoreOutbound, TypeOK
      <4> QED BY <1>2, <4>1 DEF Answered
    <3>3. Doc(p)' = Doc(p) /\ (Ordered(Doc(p)) => Ordered(Doc(p))')
      BY <1>1, <1>2, <2>2
    <3> QED BY <1>2, <2>2, <3>1, <3>2, <3>3 DEF Progress, Complete, Doc, Ordered, Answered
  <2> QED BY <2>1, <2>2
<1> QED BY <1>3, <1>4, <1>5, <1>6, <1>7, <1>8, <1>9, <1>10 DEF Advance, Transact, Answer, Finish

LEMMA ProgressStep ==
  ASSUME TypeInv, TypeInv', Keeps, CompleteInv, [Next]_vars, NEW q \in Requests
  PROVE  Progress(q)'
<1>0. Progress(q)
  BY DEF CompleteInv
<1>1. CASE pc'[q] = pc[q] /\ row'[q] = row[q] /\ pos'[q] = pos[q] /\ failed'[q] = failed[q]
  BY <1>0, <1>1, StillProgress
<1>2. CASE Advance(q)
  BY <1>0, <1>2, OwnProgress
<1>3. CASE \E r \in Nat : Start(q, r, "open") \/ (Start(q, r, "control") /\ r = 0)
  <2>1. \/ pc'[q] = "open" /\ pos'[q] = 1
        \/ pc'[q] = "control" /\ row'[q] = 0
    BY <1>3 DEF Start, TypeInv, TypeOK
  <2> QED BY <2>1 DEF Progress
<1>4. CASE pc'[q] = "idle"
  BY <1>4 DEF Progress
<1>5. ASSUME NEW p \in Requests, p # q, Advance(p)
      PROVE pc'[q] = pc[q] /\ row'[q] = row[q] /\ pos'[q] = pos[q] /\ failed'[q] = failed[q]
  BY <1>5 DEF Advance, Refuse, RefuseLost, Identify, Transact, TransactionThrows, Throw, Reconcile, InsertOrder,
     InsertLines, LinesFail, Undo, UndoFails, Applied, Answer, PickControl, StoreOutbound, OutboundThrows,
     Finish, Close, CloseLost, Forward, ForwardLost, Goto, TypeInv, TypeOK
<1>6. ASSUME NEW p \in Requests, p # q, NEW r, NEW s, Start(p, r, s)
      PROVE pc'[q] = pc[q] /\ row'[q] = row[q] /\ pos'[q] = pos[q] /\ failed'[q] = failed[q]
  BY <1>6 DEF Start, TypeInv, TypeOK
<1>7. CASE Crash \/ Quiet \/ UNCHANGED vars
  BY <1>1, <1>4, <1>7 DEF Crash, Quiet, vars, locals
<1>8. Len(inbound) + 1 \in Nat /\ \A i \in 1..Len(inbound) : i \in Nat
  BY DEF TypeInv, TypeOK
<1>9. ASSUME NEW p \in Requests, NEW d \in Docs, Receive(p, d) PROVE Progress(q)'
  <2>1. Start(p, Len(inbound) + 1, "open")
    BY <1>9 DEF Receive
  <2>2. CASE p = q
    BY <1>3, <1>8, <2>1, <2>2
  <2>3. CASE p # q
    BY <1>1, <1>6, <2>1, <2>3
  <2> QED BY <2>2, <2>3
<1>10. ASSUME NEW p \in Requests, NEW i \in 1..Len(inbound), Reprocess(p, i) PROVE Progress(q)'
  <2>1. Start(p, i, "open")
    BY <1>10 DEF Reprocess
  <2>2. CASE p = q
    BY <1>3, <1>8, <2>1, <2>2
  <2>3. CASE p # q
    BY <1>1, <1>6, <2>1, <2>3
  <2> QED BY <2>2, <2>3
<1>11. ASSUME NEW p \in Requests, Emit(p) PROVE Progress(q)'
  BY <1>1, <1>3, <1>6, <1>11 DEF Emit
<1> QED BY <1>1, <1>2, <1>5, <1>7, <1>9, <1>10, <1>11 DEF Next

LEMMA ProcessedStep ==
  ASSUME TypeInv, TypeInv', Keeps, CompleteInv, [Next]_vars
  PROVE  ProcessedComplete'
<1>0. inbound \in Seq(Inbound) /\ Len(inbound) \in Nat
  BY DEF TypeInv, TypeOK
<1>1. ASSUME NEW i \in 1..Len(inbound'), inbound'[i].status = "processed"
      PROVE  i \in 1..Len(inbound) /\ Complete(i)
  <2>1. ASSUME NEW n \in 1..Len(inbound), NEW s \in Statuses,
               inbound' = [inbound EXCEPT ![n].status = s], s = "processed" => Complete(n)
        PROVE  i \in 1..Len(inbound) /\ Complete(i)
    <3>1. Len(inbound') = Len(inbound) /\ inbound'[i].status = IF i = n THEN s ELSE inbound[i].status
      BY <1>0, <1>1, <2>1, StatusRow
    <3>2. i \in 1..Len(inbound) /\ (i = n \/ inbound[i].status = "processed")
      BY <1>1, <3>1
    <3>3. CASE i = n
      BY <1>1, <2>1, <3>1, <3>2, <3>3
    <3>4. CASE i # n
      BY <3>2, <3>4 DEF CompleteInv, ProcessedComplete, Complete, Ordered, Answered
    <3> QED BY <3>3, <3>4
  <2>2. CASE UNCHANGED inbound
    BY <1>1, <2>2 DEF CompleteInv, ProcessedComplete, Complete, Ordered, Answered
  <2>3. ASSUME NEW p \in Requests, Refuse(p) \/ Close(p) PROVE i \in 1..Len(inbound) /\ Complete(i)
    <3>1. row[p] \in 1..Len(inbound)
      BY <2>3, DocType DEF Refuse, Close, Handling, Steps, TypeInv
    <3>2. CASE Refuse(p)
      BY <2>1, <3>1, <3>2 DEF Refuse, Statuses
    <3>3. CASE Close(p) /\ failed[p]
      BY <2>1, <3>1, <3>3 DEF Close, Statuses
    <3>4. CASE Close(p) /\ ~failed[p]
      <4>1. Complete(row[p])
        BY <3>4 DEF Close, CompleteInv, Progress
      <4> QED BY <2>1, <3>1, <3>4, <4>1 DEF Close, Statuses
    <3> QED BY <2>3, <3>2, <3>3, <3>4
  <2>4. ASSUME NEW p \in Requests, NEW d \in Docs, Receive(p, d) PROVE i \in 1..Len(inbound) /\ Complete(i)
    <3>1. /\ Len(inbound') = Len(inbound) + 1
          /\ \A j \in 1..Len(inbound) : inbound'[j] = inbound[j]
          /\ inbound'[Len(inbound) + 1].status = "received"
      BY <1>0, <2>4, ReceivedRow DEF Receive
    <3>2. i \in 1..Len(inbound) /\ inbound[i].status = "processed"
      BY <1>0, <1>1, <3>1
    <3> QED BY <3>2 DEF CompleteInv, ProcessedComplete, Complete, Ordered, Answered
  <2>5. ASSUME NEW p \in Requests, NEW n \in 1..Len(inbound), Reprocess(p, n) PROVE i \in 1..Len(inbound) /\ Complete(i)
    BY <2>1, <2>5 DEF Reprocess, Statuses
  <2>6. ASSUME NEW p \in Requests, Advance(p), ~Refuse(p), ~Close(p) PROVE UNCHANGED inbound
    BY <2>6 DEF Advance, RefuseLost, Identify, Transact, TransactionThrows, Reconcile, InsertOrder, InsertLines,
       LinesFail, Undo, UndoFails, Applied, Answer, PickControl, StoreOutbound, OutboundThrows,
       Finish, CloseLost, Forward, ForwardLost
  <2>7. ASSUME NEW p \in Requests, Emit(p) PROVE UNCHANGED inbound
    BY <2>7 DEF Emit
  <2>8. ASSUME Crash \/ Quiet \/ UNCHANGED vars PROVE UNCHANGED inbound
    BY <2>8 DEF Crash, Quiet, vars
  <2> QED BY <2>2, <2>3, <2>4, <2>5, <2>6, <2>7, <2>8 DEF Next
<1>2. ASSUME NEW i \in 1..Len(inbound'), inbound'[i].status = "processed" PROVE Complete(i)'
  <2>1. i \in 1..Len(inbound) /\ Complete(i)
    BY <1>1, <1>2
  <2> QED BY <2>1, KeepsComplete DEF TypeInv
<1> QED BY <1>2 DEF ProcessedComplete, Complete, Ordered, Answered

\* Only a handler of a message with content stores a 997.
LEMMA AckLoopStep ==
  ASSUME TypeInv, TypeInv', Keeps, CompleteInv, [Next]_vars
  PROVE  NoAckLoop' /\ AnswersStored'
<1>0. /\ outbound \in Seq(Outbound) /\ Len(outbound) \in Nat
      /\ Len(inbound) \in Nat /\ Len(inbound') \in Nat
  BY DEF TypeInv, TypeOK
<1>1. ASSUME NEW j \in 1..Len(outbound), outbound'[j].answers = outbound[j].answers
      PROVE  /\ outbound'[j].answers \in 0..Len(inbound')
             /\ outbound'[j].answers # 0 => HasContent(inbound'[outbound'[j].answers].doc)
  BY <1>0, <1>1 DEF CompleteInv, NoAckLoop, AnswersStored, Keeps
<1>2. ASSUME Len(outbound') = Len(outbound) PROVE NoAckLoop' /\ AnswersStored'
  BY <1>1, <1>2 DEF NoAckLoop, AnswersStored, Keeps, HasContent
<1>3. CASE Unsettled
  BY <1>2, <1>3 DEF Unsettled
<1>4. ASSUME NEW p \in Requests, SettledBy(p) PROVE NoAckLoop' /\ AnswersStored'
  <2>1. PICK j \in 1..Len(outbound) : outbound' = [outbound EXCEPT ![j] = Settled(@, Current(p))]
    BY <1>4 DEF SettledBy
  <2>2. Len(outbound') = Len(outbound)
    BY <1>0, <2>1, SettledRow
  <2> QED BY <1>2, <2>2
<1>5. ASSUME NEW p \in Requests, StoredBy(p) PROVE NoAckLoop' /\ AnswersStored'
  <2>1. /\ Len(outbound') = Len(outbound) + 1
        /\ outbound'[Len(outbound) + 1].answers = row[p]
        /\ pc[p] = "store" /\ UNCHANGED inbound
    BY <1>0, <1>5 DEF StoredBy, StoreOutbound
  <2>2. row[p] \in 0..Len(inbound)
    BY DEF TypeInv, TypeOK
  <2>3. row[p] # 0 => HasContent(inbound[row[p]].doc)
    BY <2>1 DEF CompleteInv, Progress, Doc
  <2>4. ASSUME NEW j \in 1..Len(outbound')
        PROVE  /\ outbound'[j].answers \in 0..Len(inbound')
               /\ outbound'[j].answers # 0 => HasContent(inbound'[outbound'[j].answers].doc)
    <3>1. CASE j \in 1..Len(outbound)
      BY <1>1, <3>1 DEF Keeps
    <3>2. CASE j = Len(outbound) + 1
      BY <2>1, <2>2, <2>3, <3>2
    <3> QED BY <1>0, <2>1, <2>4, <3>1, <3>2
  <2> QED BY <2>4 DEF NoAckLoop, AnswersStored, HasContent
<1> QED BY <1>3, <1>4, <1>5, OutboundStep

LEMMA InitComplete == Init => CompleteInv
  BY DEF Init, CompleteInv, ProcessedComplete, NoAckLoop, AnswersStored, Progress

LEMMA CompleteStep == TypeInv /\ TypeInv' /\ CompleteInv /\ [Next]_vars => CompleteInv'
<1> SUFFICES ASSUME TypeInv, TypeInv', CompleteInv, [Next]_vars PROVE CompleteInv'
  OBVIOUS
<1>1. Keeps
  BY KeepsStep
<1>2. ProcessedComplete'
  BY <1>1, ProcessedStep
<1>3. NoAckLoop' /\ AnswersStored'
  BY <1>1, AckLoopStep
<1>4. \A p \in Requests : Progress(p)'
  BY <1>1, ProgressStep
<1> QED BY <1>2, <1>3, <1>4 DEF CompleteInv

\* Whatever the interleaving, the failed calls and the restarts, a message is
\* called processed only when its orders exist and its 997 is stored.
THEOREM EdiIntakeComplete == Spec => []ProcessedComplete
<1>1. CompleteInv => ProcessedComplete
  BY DEF CompleteInv
<1> QED BY InitTypeInv, TypeStep, InitComplete, CompleteStep, <1>1, PTL DEF Spec

\* The gateway never answers a message of nothing but 997s with a 997.
THEOREM EdiIntakeNoAckLoop == Spec => []NoAckLoop
<1>1. CompleteInv => NoAckLoop
  BY DEF CompleteInv
<1> QED BY InitTypeInv, TypeStep, InitComplete, CompleteStep, <1>1, PTL DEF Spec

\* Messages are answered as they should.
THEOREM EdiIntakeAnswered == Spec => []AnsweredRightly
  BY EdiIntakeComplete, EdiIntakeNoAckLoop, PTL DEF AnsweredRightly

-----------------------------------------------------------------------------
(* "Don't leave a line-less order behind": while no database call has      *)
(* failed and nothing has restarted, the orders without lines are counted  *)
(* by the handlers that are about to add the lines or to delete the order. *)

Between(x) == {p \in Requests : pc[p] \in {"lines", "undo"} /\ Purchase(p) = x}

CountInv == faults = 0 => \A x \in Purchases : bare[x] = Cardinality(Between(x))

\* Whose order it is does not change under a handler.
LEMMA PurchaseKept ==
  ASSUME TypeInv, [Next]_vars, NEW p \in Requests, pc[p] \in {"lines", "undo"},
         row'[p] = row[p], pos'[p] = pos[p]
  PROVE  Purchase(p)' = Purchase(p)
<1>1. row[p] \in 1..Len(inbound)
  BY DocType DEF TypeInv, Handling, Steps
<1>2. inbound'[row[p]].doc = inbound[row[p]].doc
  BY <1>1, KeepsStep DEF Keeps
<1> QED BY <1>2 DEF Purchase, Doc

\* A step of handler p moves at most p, and changes at most p's order.
LEMMA BetweenStep ==
  ASSUME TypeInv, [Next]_vars, NEW p \in Requests, Advance(p), NEW x \in Purchases,
         NEW q \in Requests, q # p
  PROVE  (q \in Between(x))' <=> q \in Between(x)
<1>1. pc'[q] = pc[q] /\ row'[q] = row[q] /\ pos'[q] = pos[q]
  BY DEF Advance, Refuse, RefuseLost, Identify, Transact, TransactionThrows, Throw, Reconcile, InsertOrder,
     InsertLines, LinesFail, Undo, UndoFails, Applied, Answer, PickControl, StoreOutbound, OutboundThrows,
     Finish, Close, CloseLost, Forward, ForwardLost, Goto, TypeInv, TypeOK
<1>2. pc[q] \in {"lines", "undo"} => Purchase(q)' = Purchase(q)
  BY <1>1, PurchaseKept
<1> QED BY <1>1, <1>2 DEF Between

LEMMA BetweenFinite ==
  ASSUME IsFiniteSet(Requests), NEW x \in Purchases
  PROVE  IsFiniteSet(Between(x)) /\ Cardinality(Between(x)) \in Nat
<1>1. Between(x) \subseteq Requests
  BY DEF Between
<1>2. IsFiniteSet(Between(x))
  BY <1>1, FS_Subset
<1> QED BY <1>2, FS_CardinalityType

\* The order p has inserted and not yet completed or deleted is counted once.
LEMMA CountStep ==
  ASSUME IsFiniteSet(Requests), TypeInv, CountInv, [Next]_vars PROVE CountInv'
<1> SUFFICES ASSUME faults' = 0, NEW x \in Purchases PROVE bare'[x] = Cardinality(Between(x)')
  BY DEF CountInv, Between
<1>0. /\ faults \in Nat /\ pc \in [Requests -> Steps] /\ bare \in [Purchases -> Int]
      /\ pos \in [Requests -> Nat \ {0}]
  BY DEF TypeInv, TypeOK
<1>1. IsFiniteSet(Between(x)) /\ Cardinality(Between(x)) \in Nat
  BY BetweenFinite
<1>2. ASSUME Between(x)' = Between(x), bare'[x] = bare[x], faults = 0
      PROVE  bare'[x] = Cardinality(Between(x)')
  BY <1>2 DEF CountInv
<1>3. ASSUME NEW p \in Requests, Advance(p) PROVE bare'[x] = Cardinality(Between(x)')
  <2>0. \A q \in Requests : q # p => (q \in Between(x)' <=> q \in Between(x))
    BY <1>3, BetweenStep
  <2>1. CASE InsertOrder(p) /\ Purchase(p) = x
    <3>1. p \notin Between(x) /\ faults = 0 /\ bare'[x] = bare[x] + 1
      BY <1>0, <2>1, AtType DEF InsertOrder, Between
    <3>2. pc'[p] = "lines" /\ Purchase(p)' = x
      <4>1. UNCHANGED <<inbound, row, pos>> /\ pc'[p] = "lines"
        BY <1>0, <2>1 DEF InsertOrder, Goto
      <4> QED BY <2>1, <4>1 DEF Purchase, Doc
    <3>3. Between(x)' = Between(x) \cup {p}
      BY <2>0, <3>2 DEF Between
    <3>4. Cardinality(Between(x) \cup {p}) = Cardinality(Between(x)) + 1
      BY <1>1, <3>1, FS_AddElement
    <3> QED BY <3>1, <3>3, <3>4 DEF CountInv
  <2>2. CASE (InsertLines(p) \/ Undo(p)) /\ Purchase(p) = x
    <3>1. p \in Between(x) /\ faults = 0 /\ bare[x] \in Int /\ bare'[x] = bare[x] - 1
      BY <1>0, <2>2 DEF InsertLines, Undo, Between
    <3>2. pc'[p] \notin {"lines", "undo"}
      BY <1>0, <2>2 DEF InsertLines, Undo, Throw, Goto, AfterTransactions
    <3>3. Between(x)' = Between(x) \ {p}
      BY <2>0, <3>2 DEF Between
    <3>4. Cardinality(Between(x) \ {p}) = Cardinality(Between(x)) - 1
      BY <1>1, <3>1, FS_RemoveElement
    <3> QED BY <3>1, <3>3, <3>4 DEF CountInv
  <2>3. CASE (InsertOrder(p) \/ InsertLines(p) \/ Undo(p)) /\ Purchase(p) # x
    <3>1. faults = 0 /\ bare'[x] = bare[x]
      BY <1>0, <2>3 DEF InsertOrder, InsertLines, Undo
    <3>2. p \notin Between(x)
      BY <2>3 DEF Between
    <3>3. p \notin Between(x)'
      <4>1. CASE InsertOrder(p)
        <5>1. UNCHANGED <<inbound, row, pos>>
          BY <4>1 DEF InsertOrder
        <5> QED BY <2>3, <5>1 DEF Between, Purchase, Doc
      <4>2. CASE InsertLines(p) \/ Undo(p)
        BY <1>0, <4>2 DEF InsertLines, Undo, Throw, Goto, AfterTransactions, Between
      <4> QED BY <2>3, <4>1, <4>2
    <3>4. Between(x)' = Between(x)
      BY <2>0, <3>2, <3>3 DEF Between
    <3> QED BY <1>2, <3>1, <3>4
  <2>4. CASE LinesFail(p)
    <3>1. UNCHANGED <<inbound, row, pos, bare, faults>> /\ pc[p] = "lines" /\ pc'[p] = "undo"
      BY <1>0, <2>4 DEF LinesFail, Goto
    <3>2. p \in Between(x)' <=> p \in Between(x)
      BY <3>1 DEF Between, Purchase, Doc
    <3>3. Between(x)' = Between(x)
      BY <2>0, <3>2 DEF Between
    <3> QED BY <1>2, <3>1, <3>3
  <2>5. CASE ~(InsertOrder(p) \/ InsertLines(p) \/ Undo(p) \/ LinesFail(p))
    <3>1. ~(RefuseLost(p) \/ UndoFails(p) \/ OutboundThrows(p) \/ CloseLost(p) \/ ForwardLost(p))
      BY <1>0 DEF RefuseLost, UndoFails, OutboundThrows, CloseLost, ForwardLost, Fault
    <3>2. bare' = bare /\ faults' = faults
      BY <1>3, <2>5, <3>1 DEF Advance, Refuse, Identify, Transact, TransactionThrows, Reconcile, Applied,
         Answer, PickControl, StoreOutbound, Finish, Close, Forward
    <3>3. pc[p] \notin {"lines", "undo"}
      BY <1>3, <2>5, <3>1 DEF Advance, Refuse, Identify, Transact, TransactionThrows, Reconcile, Applied,
         Answer, PickControl, StoreOutbound, Finish, Close, Forward, AtTransaction
    <3>4. pc'[p] \notin {"lines", "undo"}
      BY <1>0, <1>3, <2>5, <3>1, <3>3 DEF Advance, Refuse, Identify, Transact, TransactionThrows, Throw,
         Reconcile, Applied, Answer, PickControl, StoreOutbound, Finish, Close, Forward, Goto,
         AfterTransactions, AfterClose
    <3>5. Between(x)' = Between(x)
      BY <2>0, <3>3, <3>4 DEF Between
    <3> QED BY <1>2, <3>2, <3>5
  <2> QED BY <2>1, <2>2, <2>3, <2>4, <2>5
<1>4. ASSUME NEW p \in Requests, NEW r, NEW s \in {"open", "control"}, Start(p, r, s), UNCHANGED bare
      PROVE  bare'[x] = Cardinality(Between(x)')
  <2>1. ASSUME NEW q \in Requests PROVE q \in Between(x)' <=> q \in Between(x)
    <3>1. CASE q = p
      BY <1>0, <1>4, <3>1 DEF Start, Between
    <3>2. CASE q # p
      <4>1. pc'[q] = pc[q] /\ row'[q] = row[q] /\ pos'[q] = pos[q]
        BY <1>4, <3>2 DEF Start, TypeInv, TypeOK
      <4>2. pc[q] \in {"lines", "undo"} => Purchase(q)' = Purchase(q)
        BY <4>1, PurchaseKept
      <4> QED BY <4>1, <4>2 DEF Between
    <3> QED BY <3>1, <3>2
  <2>2. Between(x)' = Between(x)
    BY <2>1 DEF Between
  <2> QED BY <1>2, <1>4, <2>2 DEF Start
<1>5. ~Crash
  BY <1>0 DEF Crash, Fault
<1>6. CASE Quiet \/ UNCHANGED vars
  BY <1>2, <1>6 DEF Quiet, vars, locals, Between, Purchase, Doc
<1>7. ASSUME NEW p \in Requests,
             \/ \E d \in Docs : Receive(p, d)
             \/ \E i \in 1..Len(inbound) : Reprocess(p, i)
             \/ Emit(p)
      PROVE  bare'[x] = Cardinality(Between(x)')
  BY <1>4, <1>7 DEF Receive, Reprocess, Emit
<1> QED BY <1>3, <1>5, <1>6, <1>7 DEF Next

LEMMA InitCount == Init => CountInv
<1> SUFFICES ASSUME Init, NEW x \in Purchases PROVE bare[x] = Cardinality(Between(x))
  BY DEF CountInv
<1>1. Between(x) = {}
  BY DEF Init, Between
<1> QED BY <1>1, FS_EmptySet DEF Init

\* However many handlers overlap, createOrderFrom850 leaves no line-less order
\* behind: one without lines is there only while its handler is adding the lines
\* or undoing the order, until a delete fails or the process is restarted.
THEOREM EdiIntakeNoLineless ==
  ASSUME IsFiniteSet(Requests) PROVE Spec => [](faults = 0 => NoLinelessOrder)
<1>1. TypeInv /\ CountInv /\ [Next]_vars => CountInv'
  BY CountStep
<1>2. CountInv => (faults = 0 => NoLinelessOrder)
  BY DEF CountInv, NoLinelessOrder, Between
<1> QED BY InitTypeInv, TypeStep, InitCount, <1>1, <1>2, PTL DEF Spec

\* So the lone handler, which meets no fault, never leaves one.
THEOREM EdiIntakeAloneNoLineless ==
  ASSUME IsFiniteSet(Requests) PROVE MCSpec => []AloneNoLinelessOrder
<1>1. MCInit => TypeInv /\ CastInv /\ CountInv
  BY InitCast, InitTypeInv, InitCount
<1>2. TypeInv /\ CastInv /\ CountInv /\ [MCNext]_mcvars => TypeInv' /\ CastInv' /\ CountInv'
  BY CastStep, TypeStep, CountStep
<1>3. CastInv /\ CountInv => AloneNoLinelessOrder
  BY DEF CastInv, CountInv, AloneNoLinelessOrder, NoLinelessOrder, Between
<1> QED BY <1>1, <1>2, <1>3, PTL DEF MCSpec
=============================================================================
