--------------------------------- MODULE X12 ---------------------------------
(***************************************************************************)
(* X12 documents (edi/x12.ts): writing one transaction set into an         *)
(* envelope, and reading an interchange.  The blanks that pad ISA fields   *)
(* are trimmed by whoever reads them and are left out.                     *)
(***************************************************************************)
EXTENDS Texts

CONSTANTS
  IdWidth       (* tokens of an identity that fit an ISA field: 15 characters *)

ASSUME X12Assumption == IdWidth \in Nat

DefaultSeparators == [element |-> "*", component |-> ">", segment |-> "~", repetition |-> "U"]

-----------------------------------------------------------------------------
(* Segments: the tag, then the elements.                                   *)

Tag(s) == s[1]

\* An element that is not there is "".
Element(s, n) == IF n < Len(s) THEN s[n + 1] ELSE <<>>
Find(segments, tag) == SelectSeq(segments, LAMBDA s : Tag(s) = <<tag>>)

\* Mutant: empty elements are left out wherever they stand.
SegCompact(s, sep) == Join(SelectSeq(s, LAMBDA v : v # <<>>), sep.element) \o <<sep.segment>>

\* Empty elements at the end are left out; nothing is escaped.
Seg(s, sep) ==
  Join(SubSeq(s, 1, SelectLastInSeq(s, LAMBDA v : v # <<>>)), sep.element) \o <<sep.segment>>

-----------------------------------------------------------------------------
(* Writing.                                                                *)

GroupCode == [set \in {"850", "855", "856", "810", "997"} |->
  CASE set = "850" -> "PO" [] set = "855" -> "PR" [] set = "856" -> "SH" [] set = "810" -> "IN" [] OTHER -> "FA"]

Fit(id) == SubSeq(id, 1, IF Len(id) < IdWidth THEN Len(id) ELSE IdWidth)

Isa(o) ==
  Join(<< <<"ISA">>, <<"00">>, <<>>, <<"00">>, <<>>,
          o.sender.qualifier, Fit(o.sender.id), o.receiver.qualifier, Fit(o.receiver.id),
          <<"today">>, <<"now">>, <<o.sep.repetition>>, <<"00501">>, Padded(o.number, 9),
          <<"0">>, <<"P">>, <<o.sep.component>> >>, o.sep.element) \o <<o.sep.segment>>

Trailer(body, o) == << <<"SE">>, Str(Len(body) + 2), Padded(o.number, 4) >>

\* One transaction set in one group in one interchange.
BuildInterchange(set, body, o) ==
  LET control == Str(o.number % 10^9)
      segments == << << <<"GS">>, <<GroupCode[set]>>, o.sender.id, o.receiver.id, <<"today">>, <<"now">>,
                        control, <<"X">>, <<"005010">> >>,
                     << <<"ST">>, <<set>>, Padded(o.number, 4) >> >>
                  \o body
                  \o << Trailer(body, o),
                        << <<"GE">>, <<"1">>, control >>,
                        << <<"IEA">>, <<"1">>, Padded(o.number, 9) >> >>
  IN FlattenSeq([i \in 1..(Len(segments) + 1) |->
       (IF i = 1 THEN Isa(o) ELSE Seg(segments[i - 1], o.sep)) \o <<NL>>])

-----------------------------------------------------------------------------
(* Reading: {} is an X12ParseError.                                        *)

\* One segment more; open: the group and the transaction that take it.
TakeSegment(acc, s) ==
  LET g == Len(acc.groups) IN
  IF acc.refused THEN acc
  ELSE IF Tag(s) = <<"GS">> THEN
    [acc EXCEPT !.inGroup = TRUE,
       !.groups = Append(@, [code |-> Element(s, 1), sender |-> Element(s, 2), receiver |-> Element(s, 3),
                             control |-> Element(s, 6), transactions |-> <<>>])]
  ELSE IF Tag(s) = <<"GE">> THEN [acc EXCEPT !.inGroup = FALSE]
  ELSE IF Tag(s) = <<"ST">> THEN
    IF ~acc.inGroup THEN [acc EXCEPT !.refused = TRUE]
    ELSE [acc EXCEPT !.open = <<g, Len(acc.groups[g].transactions) + 1>>,
            !.groups[g].transactions =
              Append(@, [set |-> Element(s, 1), control |-> Element(s, 2), segments |-> <<>>])]
  ELSE IF Tag(s) = <<"SE">> THEN [acc EXCEPT !.open = <<>>]
  ELSE IF Tag(s) = <<"IEA">> \/ acc.open = <<>> THEN acc
  ELSE [acc EXCEPT !.groups[acc.open[1]].transactions[acc.open[2]].segments = Append(@, s)]

\* The segments after the ISA, blank ones left out.
SegmentsOf(body, sep) ==
  LET chunks == Split(SelectSeq(body, LAMBDA t : t # NL), sep.segment)
      texts == SelectSeq(chunks, LAMBDA c : c # <<>>)
  IN [i \in DOMAIN texts |-> Split(texts[i], sep.element)]

Trailed(segments) == segments # <<>> /\ Tag(Last(segments)) = <<"IEA">>

\* The separators are read off the ISA: the one after its tag, the one after
\* the sixteenth of these, and the next.
ParseInterchange(raw) ==
  LET start == SelectInSeq(raw, LAMBDA t : t # NL)
      doc == SubSeq(raw, start, Len(raw))
      ofElement == {i \in 2..Len(doc) : doc[i] = doc[2]}
      last == CHOOSE i \in ofElement : Cardinality({j \in ofElement : j <= i}) = 16
  IN IF start = 0 \/ doc[1] # "ISA" \/ Cardinality(ofElement) < 16 THEN {}
     ELSE IF Len(doc) < last + 2 THEN {}
     ELSE LET sep == [element |-> doc[2], component |-> doc[last + 1], segment |-> doc[last + 2]]
              isa == Tail(Split(SubSeq(doc, 1, last + 1), sep.element))
              segments == SegmentsOf(SubSeq(doc, last + 3, Len(doc)), sep)
              read == FoldLeft(TakeSegment, [groups |-> <<>>, inGroup |-> FALSE, open |-> <<>>, refused |-> FALSE], segments)
          IN IF ~Trailed(segments) \/ read.refused THEN {}
             ELSE {[sender |-> [qualifier |-> isa[5], id |-> isa[6]],
                    receiver |-> [qualifier |-> isa[7], id |-> isa[8]],
                    control |-> isa[13], groups |-> read.groups]}
=============================================================================
