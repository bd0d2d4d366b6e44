----------------------------- MODULE MCStaging -----------------------------
(***************************************************************************)
(* Staging for model checking: one intent of each kind that takes a route  *)
(* of its own.                                                             *)
(***************************************************************************)
EXTENDS Staging, TLC

MCKind == [order |-> "order", push |-> "push", quote |-> "portal", note |-> "record",
           verdict |-> "local"]
MCKindOf == [i \in Intents |-> MCKind[i]]

Symmetry == Permutations(Deliveries)
=============================================================================
