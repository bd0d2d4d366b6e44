--------------------------- MODULE DeliveryLedger ---------------------------
(***************************************************************************)
(* What the outbox promises its producers while one processor runs at a    *)
(* time: a delivery is settled once, as delivered only after the hub has   *)
(* applied it, and only an operator's replay reopens one that failed or    *)
(* was parked.  How often the hub is called, in which order and with what  *)
(* pauses is the outbox's own affair.                                      *)
(***************************************************************************)
CONSTANTS Deliveries

VARIABLES
  entry,     \* what has become of each delivery
  accepted   \* deliveries the hub has applied

Init ==
  /\ entry = [d \in Deliveries |-> "absent"]
  /\ accepted = {}

Stage(d) ==
  /\ entry[d] = "absent"
  /\ entry' = [entry EXCEPT ![d] = "queued"]
  /\ UNCHANGED accepted

\* The hub may apply a queued delivery before the gateway learns of it.
Apply(d) ==
  /\ entry[d] = "queued"
  /\ accepted' = accepted \cup {d}
  /\ UNCHANGED entry

Settle(d, v) ==
  /\ entry[d] = "queued"
  /\ v = "delivered" => d \in accepted
  /\ entry' = [entry EXCEPT ![d] = v]
  /\ UNCHANGED accepted

Replay(S) ==
  /\ \A d \in S : entry[d] \in {"failed", "parked"}
  /\ entry' = [d \in Deliveries |-> IF d \in S THEN "queued" ELSE entry[d]]
  /\ UNCHANGED accepted

Next ==
  \/ \E d \in Deliveries : Stage(d) \/ Apply(d)
  \/ \E d \in Deliveries, v \in {"delivered", "failed", "parked"} : Settle(d, v)
  \/ \E S \in SUBSET Deliveries : Replay(S)

Spec == Init /\ [][Next]_<<entry, accepted>>
=============================================================================
