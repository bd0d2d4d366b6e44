-------------------------------- MODULE Texts --------------------------------
(***************************************************************************)
(* What the formats share.  A text is a sequence of tokens: separators,    *)
(* quotes, blanks, line feeds, and words that stand for runs of other      *)
(* characters.  A value is a text, "" the empty one.                       *)
(***************************************************************************)
EXTENDS Integers, SequencesExt, TLC

CONSTANT Numerals   \* the numbers texts hold

ASSUME TextAssumption == Numerals \subseteq Int

NL == "newline"
Indices(s, t) == SelectSeq([i \in DOMAIN s |-> i], LAMBDA i : s[i] = t)

Split(s, sep) ==
  LET cuts == <<0>> \o Indices(s, sep) \o <<Len(s) + 1>>
  IN [k \in 1..(Len(cuts) - 1) |-> SubSeq(s, cuts[k] + 1, cuts[k + 1] - 1)]

Join(pieces, sep) == Tail(FlattenSeq([i \in DOMAIN pieces |-> <<sep>> \o pieces[i]]))

\* A numeral is one token; one filled up with zeros a token of its own.

Str(n) == <<ToString(n)>>

\* The last digits of a control number, filled up with zeros.
Padded(n, digits) == <<ToString(<<digits, n % 10^digits>>)>>

\* Number(): nothing is 0, and what is no numeral is no number, {}.
NumberOf(v) ==
  IF v = <<>> THEN {0}
  ELSE {n \in Numerals : v = Str(n) \/ \E w \in {4, 9} : n \in 0..(10^w - 1) /\ v = Padded(n, w)}

==============================================================================
