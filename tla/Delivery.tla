------------------------------ MODULE Delivery ------------------------------
(***************************************************************************)
(* What the ingress pipeline promises about each inbound delivery, with no *)
(* word of who does it: requests, sweep, redrive, queue and crashes are    *)
(* gone.  An accepted delivery is in its event row until it is settled;    *)
(* after that something else has to hold it, or it has been delivered, or  *)
(* it is lost, and only a holder can lose it.  Ingress implements this.    *)
(***************************************************************************)
CONSTANT Deliveries

VARIABLES
  phase,       \* "new", "accepted" (the event keeps the payload), "settled" (it gave it up)
  holders,     \* who else keeps the payload: a live "job", an open dead "letter"
  delivered,   \* a dispatch has resolved
  lost         \* it went through one of the known gaps

promise == <<phase, holders, delivered, lost>>

Holders == {"job", "letter"}

Init ==
  /\ phase = [d \in Deliveries |-> "new"]
  /\ holders = [d \in Deliveries |-> {}]
  /\ delivered = [d \in Deliveries |-> FALSE]
  /\ lost = [d \in Deliveries |-> FALSE]

Same(d) == holders'[d] = holders[d] /\ delivered'[d] = delivered[d] /\ lost'[d] = lost[d]

Accept(d) == phase[d] = "new" /\ phase'[d] \in {"new", "accepted"} /\ Same(d)

Kept(d) == holders[d] # {} \/ delivered[d] \/ lost[d]

\* A dead letter is closed only behind a settled event: no sweep will find it there.
LetterLeaves(d) == "letter" \in holders[d] \ holders'[d] => phase'[d] = "settled"

\* A job ends by a dispatch, by its dead letter, or in a gap.
JobLeaves(d) == "job" \in holders[d] \ holders'[d] => delivered'[d] \/ lost'[d] \/ "letter" \in holders'[d]

Move(d) ==
  /\ phase[d] # "new" /\ phase'[d] \in {phase[d], "settled"}
  /\ phase'[d] = "settled" => Kept(d)'
  /\ LetterLeaves(d) /\ JobLeaves(d)
  /\ delivered[d] => delivered'[d]
  /\ lost[d] => lost'[d]
  /\ lost'[d] => lost[d] \/ holders[d] # {}

Next == \A d \in Deliveries : Accept(d) \/ Move(d)

Spec == Init /\ [][Next]_promise
=============================================================================
