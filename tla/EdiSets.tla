------------------------------- MODULE EdiSets -------------------------------
(***************************************************************************)
(* The transaction sets (edi/sets.ts) and the documents the gateway makes  *)
(* of its rows (edi/service.ts: 855 of an order, 856 of a shipment, 810 of *)
(* an invoice, 997 of what it received; partners and tests write 850s).    *)
(* One document is written, travels, perhaps cut off on the way, and is    *)
(* read and acknowledged at the other end with the same code.  Amounts are *)
(* in cents; an absent value is "".                                        *)
(***************************************************************************)
EXTENDS X12

CONSTANTS
  Orders,       (* purchase orders to write as 850s                        *)
  Rows,         (* orders, shipments and invoices with their lines         *)
  Received,     (* the groups of interchanges other software wrote         *)
  Us, Partner,  (* identities: [qualifier, id]; Partner: edi_partners' row *)
  ControlNumbers, (* as the sender, or the answerer, hands them out        *)
  Separators

ASSUME SetsAssumption == ControlNumbers \subseteq 1..(10^9 - 1) /\ DefaultSeparators \in Separators

VARIABLES
  message,      \* what is written: [set, content]
  options,      \* buildInterchange's opts
  wire,         \* the text
  arrived,      \* what the other end gets of it
  back          \* the 997 it answers with

docVars == <<message, options, wire, arrived, back>>

Messages == [set : {"850"}, content : Orders] \cup [set : {"855", "856", "810"}, content : Rows]
            \cup [set : {"received"}, content : Received]

\* partnerForBuyer: the buyer's identity, if the org has it as a partner.
Receivers == {Partner, [qualifier |-> <<"ZZ">>, id |-> <<"UNKNOWN">>]}
Options == [sender : {Us}, receiver : Receivers, number : ControlNumbers, sep : Separators]

-----------------------------------------------------------------------------
(* What several sets share.                                                *)

FirstOf(segments, tag) == Find(segments, tag)[1]
Has(segments, tag) == Find(segments, tag) # <<>>
Opt(cond, s) == IF cond THEN <<s>> ELSE <<>>
\* PO1-06, PO1-08, ...: the qualifiers of pairs.
Pairs(s) == {n \in 6..(Len(s) - 2) : n % 2 = 0}
Filled(s) == {n \in Pairs(s) : Element(s, n + 1) # <<>>}
\* The value of a qualifier's last pair, "" if there is none.
Identifier(s, pairs, qualifier) ==
  LET of == {n \in pairs : Element(s, n) = <<qualifier>>}
  IN IF of = {} THEN <<>> ELSE Element(s, (CHOOSE n \in of : \A m \in of : m <= n) + 1)
\* The segment right after the i-th, if it has the tag.
Following(s, i, tag) == IF i < Len(s) /\ Tag(s[i + 1]) = <<tag>> THEN s[i + 1] ELSE <<>>

\* Where the segments with a tag are.
At(segments, tag) == SelectSeq([i \in DOMAIN segments |-> i], LAMBDA i : Tag(segments[i]) = <<tag>>)

-----------------------------------------------------------------------------
(* 850.                                                                    *)

Po1(line, i) ==
  LET priced == line.unitPrice # {}
      of(q, v) == IF v # <<>> THEN << <<q>>, v >> ELSE <<>>
  IN << <<"PO1">>, Str(i), Str(line.quantity), <<"EA">>,
        IF priced THEN Str(CHOOSE p \in line.unitPrice : TRUE) ELSE <<>>, IF priced THEN <<"PE">> ELSE <<>> >>
     \o of("VN", line.vendorPart) \o of("BP", line.buyerPart) \o of("UP", line.upc)

Body850(o) ==
  << << <<"BEG">>, <<"00">>, <<"NE">>, o.po, <<>>, o.date >> >>
  \o Opt(o.shipTo # <<>>, << <<"N1">>, <<"ST">>, o.shipTo >>)
  \o (IF o.shipTo # <<>> /\ o.address # <<>>
        THEN << << <<"N3">>, o.address[1] >>, <<<<"N4">>>> \o Tail(o.address) >> ELSE <<>>)
  \o Opt(o.notes # <<>>, << <<"MSG">>, o.notes >>)
  \o FlattenSeq([i \in DOMAIN o.lines |->
       <<Po1(o.lines[i], i)>>
       \o Opt(o.lines[i].description # <<>>,
              << <<"PID">>, <<"F">>, <<>>, <<>>, <<>>, o.lines[i].description >>)])
  \o << << <<"CTT">>, Str(Len(o.lines)) >> >>

\* The N3 and N4 segments that follow the ship-to, N2s skipped; empty
\* elements left out.
AddressAfter(segments, i) ==
  LET run == {n \in i..Len(segments) : \A k \in (i + 1)..n : Tag(segments[k]) \in {<<"N2">>, <<"N3">>, <<"N4">>}}
      parts == SelectSeq(SubSeq(segments, i + 1, CHOOSE n \in run : \A k \in run : k <= n),
                         LAMBDA s : Tag(s) # <<"N2">>)
  IN FlattenSeq([k \in DOMAIN parts |-> SelectSeq(Tail(parts[k]), LAMBDA v : v # <<>>)])

Read850Line(segments, i, ordinal) ==
  LET s == segments[i]
      number == NumberOf(Element(s, 1)) \ {0}
      next == Following(segments, i, "PID")
  IN [lineNumber |-> IF number = {} THEN {ordinal} ELSE number,
      quantity |-> NumberOf(Element(s, 2)),
      unitPrice |-> IF Element(s, 4) = <<>> THEN {} ELSE NumberOf(Element(s, 4)),
      vendorPart |-> Identifier(s, Filled(s), "VN"), buyerPart |-> Identifier(s, Filled(s), "BP"),
      upc |-> Identifier(s, Filled(s), "UP"),
      description |-> IF next # <<>> /\ Element(next, 1) = <<"F">> THEN Element(next, 5) ELSE <<>>]

Parse850(segments) ==
  LET beg == FirstOf(segments, "BEG")
      to == SelectInSeq(segments, LAMBDA s : Tag(s) = <<"N1">> /\ Element(s, 1) = <<"ST">>)
      po1 == At(segments, "PO1")
      lines == [k \in DOMAIN po1 |-> Read850Line(segments, po1[k], k)]
  IN IF ~Has(segments, "BEG") \/ po1 = <<>> THEN {}
     ELSE IF Element(beg, 3) = <<>> \/ \E k \in DOMAIN lines : ~\E q \in lines[k].quantity : q > 0 THEN {}
     ELSE {[po |-> Element(beg, 3), date |-> Element(beg, 5),
            shipTo |-> IF to = 0 THEN <<>> ELSE Element(segments[to], 2),
            address |-> IF to = 0 THEN <<>> ELSE AddressAfter(segments, to),
            notes |-> IF Has(segments, "MSG") THEN Element(FirstOf(segments, "MSG"), 1) ELSE <<>>,
            lines |-> lines]}

-----------------------------------------------------------------------------
(* 997.                                                                    *)

\* Mutant: only the first transaction of the group is answered.
First997(group) == SubSeq(group.transactions, 1, 1)

Answered997(group) == group.transactions

Body997(group) ==
  LET number == NumberOf(group.control) \ {0}
      answered == Answered997(group)
      n == Str(Len(group.transactions))
  IN << << <<"AK1">>, group.code, IF number = {} THEN group.control ELSE Str(CHOOSE m \in number : TRUE) >> >>
     \o FlattenSeq([i \in DOMAIN answered |->
          << << <<"AK2">>, answered[i].set, answered[i].control >>, << <<"AK5">>, <<"A">> >> >>])
     \o << << <<"AK9">>, <<"A">>, n, n, n >> >>

Parse997(segments) ==
  LET ak2 == At(segments, "AK2")
      ak1 == FirstOf(segments, "AK1")
  IN IF ~Has(segments, "AK1") \/ ~Has(segments, "AK9") THEN {}
     ELSE {[groupCode |-> Element(ak1, 1), groupControl |-> Element(ak1, 2),
            acknowledged |-> [k \in DOMAIN ak2 |->
              [set |-> Element(segments[ak2[k]], 1), control |-> Element(segments[ak2[k]], 2),
               status |-> Element(Following(segments, ak2[k], "AK5"), 1)]],
            groupStatus |-> Element(FirstOf(segments, "AK9"), 1)]}
-----------------------------------------------------------------------------
(* 855, 856, 810, of the rows the emitters read.                           *)

OrElse(v, default) == IF v = <<>> THEN <<default>> ELSE v
Parties(row) ==
  << << <<"N1">>, <<"SE">>, OrElse(row.seller, "SELLER") >>, << <<"N1">>, <<"BY">>, OrElse(row.buyer, "BUYER") >> >>

Body855(row) ==
  << << <<"BAK">>, <<"00">>, <<"AD">>, row.po, row.date >> >> \o Parties(row)
  \o FlattenSeq([i \in DOMAIN row.lines |->
       LET line == row.lines[i] IN
       << << <<"PO1">>, Str(i), Str(line.quantity), <<"EA">>, Str(line.unitPrice), <<"PE">>, <<"VN">>, line.sku >>,
          << <<"ACK">>, <<"IA">>, Str(line.quantity), <<"EA">> >> >>])
  \o << << <<"CTT">>, Str(Len(row.lines)) >> >>

ReadSku(s) == Identifier(s, Pairs(s), "VN")

Parse855(segments) ==
  LET bak == FirstOf(segments, "BAK")
      po1 == At(segments, "PO1")
  IN IF ~Has(segments, "BAK") THEN {}
     ELSE {[po |-> Element(bak, 3), date |-> Element(bak, 4), ackType |-> Element(bak, 2),
            lines |-> [k \in DOMAIN po1 |->
              LET s == segments[po1[k]] IN
              [sku |-> ReadSku(s), quantity |-> NumberOf(Element(s, 2)), unitPrice |-> NumberOf(Element(s, 4)),
               ackStatus |-> Element(Following(segments, po1[k], "ACK"), 1)]]]}

Body856(row) ==
  << << <<"BSN">>, <<"00">>, row.number, row.date, <<"now">>, <<"0001">> >>,
     << <<"HL">>, Str(1), <<>>, <<"S">> >> >>
  \o Opt(row.carrier # <<>>, << <<"TD5">>, <<>>, <<"2">>, <<>>, <<>>, row.carrier >>)
  \o Opt(row.bol # <<>>, << <<"REF">>, <<"BM">>, row.bol >>)
  \o Opt(row.pro # <<>>, << <<"REF">>, <<"CN">>, row.pro >>)
  \o << << <<"DTM">>, <<"011">>, row.date >>, << <<"HL">>, Str(2), Str(1), <<"O">> >>, << <<"PRF">>, row.po >> >>
  \o FlattenSeq([i \in DOMAIN row.lines |->
       << << <<"HL">>, Str(i + 2), Str(2), <<"I">> >>, << <<"LIN">>, <<>>, <<"VN">>, row.lines[i].sku >>,
          << <<"SN1">>, <<>>, Str(row.lines[i].quantity), <<"EA">> >> >>])
  \o << << <<"CTT">>, Str(Len(row.lines) + 2) >> >>

Parse856(segments) ==
  LET bsn == FirstOf(segments, "BSN")
      ref(q) == SelectSeq(Find(segments, "REF"), LAMBDA s : Element(s, 1) = <<q>>)
      lin == SelectSeq(At(segments, "LIN"),
               LAMBDA i : Element(segments[i], 2) = <<"VN">> /\ Following(segments, i, "SN1") # <<>>)
  IN IF ~Has(segments, "BSN") \/ ~Has(segments, "PRF") THEN {}
     ELSE {[number |-> Element(bsn, 2), date |-> Element(bsn, 3), po |-> Element(FirstOf(segments, "PRF"), 1),
            carrier |-> IF Has(segments, "TD5") THEN Element(FirstOf(segments, "TD5"), 5) ELSE <<>>,
            bol |-> IF ref("BM") = <<>> THEN <<>> ELSE Element(ref("BM")[1], 2),
            pro |-> IF ref("CN") = <<>> THEN <<>> ELSE Element(ref("CN")[1], 2),
            lines |-> [k \in DOMAIN lin |->
              [sku |-> Element(segments[lin[k]], 3),
               quantity |-> NumberOf(Element(Following(segments, lin[k], "SN1"), 2))]]]}

Body810(row) ==
  << << <<"BIG">>, row.issued, row.number, row.date, row.po >> >> \o Parties(row)
  \o [i \in DOMAIN row.lines |->
       << <<"IT1">>, Str(i), Str(row.lines[i].quantity), <<"EA">>, Str(row.lines[i].unitPrice), <<"PE">>,
          <<"VN">>, row.lines[i].sku >>]
  \o << << <<"TDS">>, Str(row.total) >>, << <<"CTT">>, Str(Len(row.lines)) >> >>

Parse810(segments) ==
  LET big == FirstOf(segments, "BIG")
      it1 == Find(segments, "IT1")
  IN IF ~Has(segments, "BIG") \/ ~Has(segments, "TDS") THEN {}
     ELSE {[number |-> Element(big, 2), issued |-> Element(big, 1), po |-> Element(big, 4),
            total |-> NumberOf(Element(FirstOf(segments, "TDS"), 1)),
            lines |-> [k \in DOMAIN it1 |->
              [sku |-> ReadSku(it1[k]), quantity |-> NumberOf(Element(it1[k], 2)),
               unitPrice |-> NumberOf(Element(it1[k], 4))]]]}

-----------------------------------------------------------------------------
(* A document from one end to the other.                                   *)

Generate850(order, o) == BuildInterchange("850", Body850(order), o)
Emit855ForOrder(row, o) == BuildInterchange("855", Body855(row), o)
Emit856ForShipment(row, o) == BuildInterchange("856", Body856(row), o)
Emit810ForInvoice(row, o) == BuildInterchange("810", Body810(row), o)

\* What other software writes, without line feeds.
Written(groups, o) ==
  LET text(segments) == FlattenSeq([i \in DOMAIN segments |-> Seg(segments[i], o.sep)])
      set(t) == << << <<"ST">>, t.set, t.control >> >> \o t.segments
                \o << << <<"SE">>, Str(Len(t.segments) + 2), t.control >> >>
      group(g) == << << <<"GS">>, g.code, o.sender.id, o.receiver.id, <<"today">>, <<"now">>, g.control >> >>
                  \o FlattenSeq([i \in DOMAIN g.transactions |-> set(g.transactions[i])])
                  \o << << <<"GE">>, Str(Len(g.transactions)), g.control >> >>
  IN Isa(o) \o text(FlattenSeq([i \in DOMAIN groups |-> group(groups[i])])
                    \o << << <<"IEA">>, Str(Len(groups)), Padded(o.number, 9) >> >>)

DocInit ==
  /\ message \in Messages /\ options \in Options
  /\ message.set \in {"855", "856", "810"} => options.sep = DefaultSeparators
  /\ wire = <<>> /\ arrived = <<>> /\ back = <<>>

Send ==
  /\ wire = <<>>
  /\ LET m == message.content IN
     wire' = CASE message.set = "850" -> Generate850(m, options)
               [] message.set = "855" -> Emit855ForOrder(m, options)
               [] message.set = "856" -> Emit856ForShipment(m, options)
               [] message.set = "810" -> Emit810ForInvoice(m, options)
               [] message.set = "received" -> Written(m, options)
  /\ UNCHANGED <<message, options, arrived, back>>

\* All of it, or as much as a file held that was still being written.
Arrive ==
  /\ wire # <<>> /\ arrived = <<>>
  /\ \E text \in Prefixes(wire) \ {<<>>} : arrived' = text
  /\ UNCHANGED <<message, options, wire, back>>

Answerable(x) == \E i \in DOMAIN x.groups : \E k \in DOMAIN x.groups[i].transactions :
                   x.groups[i].transactions[k].set # <<"997">>

\* The identities reversed.
ReplyTo(x) == [sender |-> x.receiver, receiver |-> x.sender]

\* emit997, for what could be read and is no acknowledgment itself.
Emit997 ==
  /\ arrived # <<>> /\ back = <<>>
  /\ \E x \in ParseInterchange(arrived), n \in ControlNumbers :
       /\ Answerable(x)
       /\ back' = BuildInterchange("997", Body997(x.groups[1]),
            [sender |-> ReplyTo(x).sender, receiver |-> ReplyTo(x).receiver, number |-> n, sep |-> DefaultSeparators])
  /\ UNCHANGED <<message, options, wire, arrived>>

DocNext == Send \/ Arrive \/ Emit997

DocSpec == DocInit /\ [][DocNext]_docVars
-----------------------------------------------------------------------------
(* Properties.                                                             *)

DocTypeOK ==
  /\ message \in Messages /\ options \in Options
  /\ wire \in Seq(STRING) /\ IsPrefix(arrived, wire) /\ back \in Seq(STRING)
  /\ \A x \in ParseInterchange(arrived) : \A i \in DOMAIN x.groups :
       /\ {x.groups[i].code, x.groups[i].sender, x.groups[i].receiver, x.groups[i].control} \subseteq Seq(STRING)
       /\ \A k \in DOMAIN x.groups[i].transactions :
            LET t == x.groups[i].transactions[k]
            IN t.set \in {<<set>> : set \in DOMAIN GroupCode} /\ t.control \in Seq(STRING) /\ t.segments \in Seq(Seq(Seq(STRING)))

Whole == wire # <<>> /\ arrived = wire
ReadSets(text) == UNION {{x.groups[1].transactions[1]} : x \in ParseInterchange(text)}

\* A value that no separator cuts.
Plain(v) == \A i \in DOMAIN v : v[i] \notin {options.sep.element, options.sep.segment, NL}

PlainLine(line) ==
  IF message.set = "850" THEN \A v \in {line.vendorPart, line.buyerPart, line.upc, line.description} : Plain(v)
  ELSE Plain(line.sku)
PlainHead(c) ==
  IF message.set = "850" THEN \A v \in {c.po, c.date, c.shipTo, c.notes} \cup ToSet(c.address) : Plain(v)
  ELSE \A v \in {c.po, c.date, c.issued, c.seller, c.buyer, c.number, c.carrier, c.bol, c.pro} : Plain(v)
PlainMessage == PlainHead(message.content) /\ \A i \in DOMAIN message.content.lines : PlainLine(message.content.lines[i])

\* What the other end should make of the i-th line, and of all.
MeantLine(set, line, i) ==
  CASE set = "850" -> [lineNumber |-> {i}, quantity |-> {line.quantity}, unitPrice |-> line.unitPrice,
         vendorPart |-> line.vendorPart, buyerPart |-> line.buyerPart, upc |-> line.upc, description |-> line.description]
    [] set = "855" -> [sku |-> line.sku, quantity |-> {line.quantity}, unitPrice |-> {line.unitPrice}, ackStatus |-> <<"IA">>]
    [] set = "856" -> [sku |-> line.sku, quantity |-> {line.quantity}]
    [] set = "810" -> [sku |-> line.sku, quantity |-> {line.quantity}, unitPrice |-> {line.unitPrice}]

Meant(set, c) ==
  LET lines == [i \in DOMAIN c.lines |-> MeantLine(set, c.lines[i], i)] IN
  CASE set = "850" -> [po |-> c.po, date |-> c.date, shipTo |-> c.shipTo, notes |-> c.notes, lines |-> lines,
         address |-> IF c.shipTo = <<>> THEN <<>> ELSE SelectSeq(c.address, LAMBDA v : v # <<>>)]
    [] set = "855" -> [po |-> c.po, date |-> c.date, ackType |-> <<"AD">>, lines |-> lines]
    [] set = "856" -> [number |-> c.number, date |-> c.date, po |-> c.po, carrier |-> c.carrier,
         bol |-> c.bol, pro |-> c.pro, lines |-> lines]
    [] set = "810" -> [number |-> c.number, issued |-> c.issued, po |-> c.po, total |-> {c.total}, lines |-> lines]

ReadOf(set, segments) ==
  CASE set = "850" -> Parse850(segments) [] set = "855" -> Parse855(segments)
    [] set = "856" -> Parse856(segments) [] set = "810" -> Parse810(segments)

\* An order the other end takes: numbered, with lines, each of something.
Acceptable(c) == c.po # <<>> /\ c.lines # <<>> /\ \A i \in DOMAIN c.lines : c.lines[i].quantity > 0

\* "every generated document can be parsed back": a document without
\* separators in its values is read as what it was made of, in every field
\* of every line, whatever is left out of it and whatever the separators, and
\* names its control number and its receiver as far as fields hold it; an
\* 850 is refused for what an order cannot do without, and for nothing else.
ReadWhole ==
  Whole /\ message.set # "received" /\ PlainMessage =>
    \E x \in ParseInterchange(arrived), txn \in ReadSets(arrived) :
      /\ x.control = Padded(options.number, 9) /\ txn.set = <<message.set>>
      /\ x.receiver = [options.receiver EXCEPT !.id = SubSeq(@, 1, IF Len(@) < IdWidth THEN Len(@) ELSE IdWidth)]
      /\ ReadOf(message.set, txn.segments) =
           IF message.set = "850" /\ ~Acceptable(message.content) THEN {}
           ELSE {Meant(message.set, message.content)}

\* Nothing is escaped: a value with a separator in it is read wrong.  What is
\* read of the other lines is right all the same: a line without one is read as
\* it was meant, wherever else in the document a separator slipped in.  That no
\* line is read that nobody wrote is not said: a value that goes on "~PO1*..."
\* is one.
StrayContained ==
  Whole /\ message.set # "received" =>
    \A txn \in ReadSets(arrived) : \A r \in ReadOf(message.set, txn.segments) :
      \A i \in DOMAIN message.content.lines : PlainLine(message.content.lines[i]) =>
        \E k \in DOMAIN r.lines : r.lines[k] = MeantLine(message.set, message.content.lines[i], i)

\* A document that was cut off on its way, a file read while it was being
\* uploaded, is refused, or was cut in its very last segment and says the
\* same as the whole.
CutRefused ==
  \A x \in ParseInterchange(arrived) : \E y \in ParseInterchange(wire) : x.groups = y.groups

\* What trailers repeat of headers and count of segments is right, and the
\* items of a ship notice hang off its order, the order off the shipment.
Tallies(text) ==
  LET s == [i \in DOMAIN Split(text, "~") |->
             Split(SelectSeq(Split(text, "~")[i], LAMBDA t : t # NL), "*")]
      of(tag) == CHOOSE i \in DOMAIN s : s[i][1] = <<tag>>
      hl == At(SubSeq(s, 1, Len(s) - 1), "HL")
      level(i) == Element(s[hl[i]], 3)
  IN /\ s[of("SE")][2] = Str(of("SE") - of("ST") + 1) /\ s[of("SE")][3] = s[of("ST")][3]
     /\ s[of("GE")] = << <<"GE">>, <<"1">>, Element(s[of("GS")], 6) >>
     /\ Element(s[of("IEA")], 2) = Element(s[1], 13)
     /\ \A i \in DOMAIN hl :
          /\ Element(s[hl[i]], 1) = Str(i)
          /\ level(i) = <<"S">> => Element(s[hl[i]], 2) = <<>>
          /\ level(i) # <<"S">> => \E p \in 1..(i - 1) :
               Element(s[hl[i]], 2) = Str(p) /\ level(p) = IF level(i) = <<"O">> THEN <<"S">> ELSE <<"O">>

EnvelopeTallies ==
  /\ wire # <<>> /\ options.sep = DefaultSeparators /\ message.set # "received" /\ PlainMessage => Tallies(wire)
  /\ back # <<>> => Tallies(back)

\* What the 997 says, as the other end reads it.
Acks == UNION {Parse997(y.groups[1].transactions[1].segments) : y \in ParseInterchange(back)}

\* The answer accepts every transaction of the group that came, in its order,
\* once, whatever is in them, and goes to whom the document came from; what it
\* says of our document is found again in the ledger by the set and by the
\* control number it was stored under.  This is for interchanges of one group,
\* as the gateway itself writes them.
AckMatches ==
  back # <<>> =>
    \A x \in ParseInterchange(arrived) : Len(x.groups) = 1 =>
      \E y \in ParseInterchange(back), ack \in Acks :
        LET answered == x.groups[1].transactions IN
        /\ y.receiver = [options.sender EXCEPT !.id = SubSeq(@, 1, IF Len(@) < IdWidth THEN Len(@) ELSE IdWidth)]
        /\ ack.acknowledged = [i \in DOMAIN answered |->
             [set |-> answered[i].set, control |-> answered[i].control, status |-> <<"A">>]]
        /\ ack.groupStatus = <<"A">> /\ ack.groupCode = x.groups[1].code
        /\ message.set # "received" =>
             \E n \in NumberOf(ack.groupControl) : Padded(n, 9) = Padded(options.number, 9)

\* "Generates a 997 accepting every transaction in the received interchange"
\* (sets.ts:167): of every group, that is, but for the acknowledgments.
EveryTransactionAnswered ==
  back # <<>> =>
    \A x \in ParseInterchange(arrived) : \A i \in DOMAIN x.groups :
      \A k \in DOMAIN x.groups[i].transactions :
        LET t == x.groups[i].transactions[k] IN
        t.set # <<"997">> =>
          \E ack \in Acks : \E n \in DOMAIN ack.acknowledged :
            ack.acknowledged[n] = [set |-> t.set, control |-> t.control, status |-> <<"A">>]

\* All that a document says is found in it again, also when a separator slipped
\* into a value, what it says twice, it says alike, and a part of it is refused.
ReadBack == DocTypeOK /\ ReadWhole /\ StrayContained /\ EnvelopeTallies /\ CutRefused
=============================================================================
