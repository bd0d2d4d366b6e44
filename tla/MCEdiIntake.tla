---------------------------- MODULE MCEdiIntake ----------------------------
(***************************************************************************)
(* EdiIntake for model checking: a few interchanges with what a partner    *)
(* sends; a cfg picks the ones a question needs.                           *)
(***************************************************************************)
EXTENDS EdiIntake

Order == [kind |-> "850"]
Unsupported == [kind |-> "other"]
AckOf(set, code, detail) ==
  [kind |-> "997", set |-> set, control |-> 1, code |-> code, detail |-> detail]

Interchanges ==
  [order |-> <<Order>>, orders |-> <<Order, Order>>, mixed |-> <<Order, Unsupported>>,
   accept |-> <<AckOf("855", "A", FALSE)>>, reject |-> <<AckOf("none", "R", FALSE)>>,
   explained |-> <<AckOf("855", "R", TRUE)>>,
   answer |-> <<AckOf("855", "R", FALSE), Order>>, garbage |-> <<>>]

MCContent == [d \in Docs |-> Interchanges[d]]

CONSTANTS Casts, Alone, Shared  \* sets of handlers; the lone one; documents overlapping handlers see
VARIABLE cast

mcvars == <<vars, cast>>

MCInit == Init /\ cast \in Casts

\* Only the cast handles requests.  Bounds: the lone handler gets every
\* document and meets no fault; overlapping handlers get two requests, for
\* the shared documents, and meet faults.
Plays ==
  /\ \A p \in Requests \ cast : pc'[p] = "idle"
  /\ IF cast = Alone THEN faults' = 0
     ELSE started' <= 2 /\ \A i \in 1..Len(inbound') : inbound'[i].doc \in Shared
  /\ UNCHANGED cast

MCNext == Next /\ Plays

MCSpec == MCInit /\ [][MCNext]_mcvars /\ \A p \in Requests : WF_mcvars(Advance(p) /\ Plays)

\* What holds where one handler runs at a time, and no fault interrupts it.
AloneControlUnique == cast = Alone => ControlUnique
AloneNoLinelessOrder == cast = Alone => NoLinelessOrder
AloneFinishes == cast = Alone => StatusSettles /\ ProcessedForwarded
=============================================================================
