-------------------------------- MODULE MCEdi --------------------------------
(***************************************************************************)
(* EdiIntake and EdiSets for model checking in one run: a cast is the      *)
(* handlers at work on stored messages, or nobody, and then one document   *)
(* travels instead: a full one, or a variation of it in one place, a value *)
(* missing or a separator in it.                                           *)
(***************************************************************************)
EXTENDS MCEdiIntake, EdiSets

Odd == {<<>>, <<"A", "*", "B">>, <<"A", "~", "B">>, <<"A", "~", "PO1", "*", "*", "5">>}

Line850 == [quantity |-> 2, unitPrice |-> {150}, vendorPart |-> <<"V">>, buyerPart |-> <<"B">>, upc |-> <<"U">>,
            description |-> <<"tyre">>]
Order850 == [po |-> <<"P1">>, date |-> <<"d1">>, shipTo |-> <<"Dock">>, notes |-> <<"note">>,
             address |-> << <<"Main">>, <<"Reno">>, <<"NV">>, <<"89">> >>,
             lines |-> <<Line850, [Line850 EXCEPT !.quantity = 3, !.description = <<>>, !.unitPrice = {}]>>]
MCOrders ==
  {Order850, [Order850 EXCEPT !.lines = <<>>], [Order850 EXCEPT !.lines[2].quantity = 0],
   [Order850 EXCEPT !.address = <<>>], [Order850 EXCEPT !.address[1] = <<>>], [Order850 EXCEPT !.address[4] = <<>>],
   [Order850 EXCEPT !.lines[1].vendorPart = <<>>, !.lines[1].buyerPart = <<>>, !.lines[1].upc = <<>>,
                    !.lines[1].unitPrice = {}]}
  \cup {[Order850 EXCEPT ![f] = v] : f \in {"po", "date", "shipTo", "notes"}, v \in Odd}
  \cup {[Order850 EXCEPT !.lines[1][f] = v] : f \in {"vendorPart", "buyerPart", "upc", "description"}, v \in Odd}

DocRow == [po |-> <<"P1">>, date |-> <<"d1">>, issued |-> <<"d2">>, seller |-> <<"We">>, buyer |-> <<>>,
        number |-> <<"N1">>, carrier |-> <<"C">>, bol |-> <<"B1">>, pro |-> <<"R1">>, total |-> 150,
        lines |-> <<[sku |-> <<"S1">>, quantity |-> 2, unitPrice |-> 150], [sku |-> <<"S2">>, quantity |-> 0, unitPrice |-> 3]>>]
MCRows ==
  {DocRow, [DocRow EXCEPT !.lines = <<>>]} \cup {[DocRow EXCEPT !.lines[1].sku = v] : v \in Odd}
  \cup {[DocRow EXCEPT ![f] = v] : f \in {"po", "seller", "number", "carrier", "bol", "pro"}, v \in Odd}

TxnOf(set, number) == [set |-> <<set>>, control |-> number, segments |-> << << <<"BEG">>, <<>>, <<"x">> >> >>]
Group(code, number, txns) == [code |-> <<code>>, control |-> number, transactions |-> txns]
Two == Group("PO", Padded(12, 4), <<TxnOf("850", <<"A1">>), TxnOf("850", Padded(2, 4))>>)
One == Group("FA", <<"G7">>, <<TxnOf("997", <<"1">>)>>)
MCReceived == {<<Two>>, <<One>>, <<Two, One>>, <<One, Two>>, <<Group("PO", <<"0">>, <<>>), Two>>, <<>>,
               <<Group("PO", Str(0), <<TxnOf("856", <<>>)>>)>>}

MCUs == [qualifier |-> <<"ZZ">>, id |-> <<"ORG", "1">>]
MCPartner == [qualifier |-> <<"01">>, id |-> <<"P">>]
MCControlNumbers == {7, 12345, 999999999}
MCSeparators == {DefaultSeparators, [element |-> "|", component |-> "^", segment |-> "!", repetition |-> "U"]}
MCNumerals == 0..9 \cup {-1, 12, 2345, 9999, 150} \cup MCControlNumbers


ediVars == <<mcvars, docVars>>

EdiInit ==
  /\ MCInit /\ DocInit
  /\ IF cast = {} THEN options.receiver # Partner => message.set = "855"
     ELSE /\ message = [set |-> "received", content |-> <<>>] /\ options.number = 7
          /\ options.receiver = Partner /\ options.sep = DefaultSeparators

\* Bound: documents are cut off, and answered, with one control number.
Travel ==
  /\ cast = {} /\ DocNext
  /\ options.number # 7 => arrived' \in {<<>>, wire}
  /\ UNCHANGED mcvars

\* A document that is there, and needs no answer, stays.
Rest == cast = {} /\ arrived # <<>> /\ UNCHANGED ediVars

EdiNext == (cast # {} /\ MCNext /\ UNCHANGED docVars) \/ Travel \/ Rest

EdiSpec == EdiInit /\ [][EdiNext]_ediVars /\ \A p \in Requests : WF_mcvars(Advance(p) /\ Plays)
=============================================================================
