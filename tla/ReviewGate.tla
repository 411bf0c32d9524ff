----------------------------- MODULE ReviewGate -----------------------------
(***************************************************************************)
(* What the purchase lifecycle promises about required reviews: a purchase *)
(* that will need a review is only made after a check that found no review *)
(* due, or CrowdCode switched off; each check lets one purchase through;   *)
(* and a review that is due goes away only by being settled.               *)
(*                                                                         *)
(* Purchases.tla implements this specification.                            *)
(***************************************************************************)
VARIABLES
  due,       \* the purchases of the query whose required review is due
  on,        \* CrowdCode is enabled
  cleared    \* a purchase under way has passed the check

vars == <<due, on, cleared>>

Init == due = {} /\ on = TRUE /\ cleared = FALSE

Clear ==
  /\ ~cleared
  /\ due = {} \/ ~on
  /\ cleared' = TRUE
  /\ UNCHANGED <<due, on>>

Incur ==
  /\ cleared /\ on
  /\ \E p \in due' : p \notin due /\ due' = due \cup {p}
  /\ cleared' = FALSE
  /\ UNCHANGED on

Abandon == cleared /\ cleared' = FALSE /\ UNCHANGED <<due, on>>

\* Submitted, given up, skipped, or left behind by the next query.
Settle ==
  /\ ~cleared
  /\ due' \subseteq due
  /\ UNCHANGED <<on, cleared>>

Switch == on' = ~on /\ UNCHANGED <<due, cleared>>

Next == Clear \/ Incur \/ Abandon \/ Settle \/ Switch
Spec == Init /\ [][Next]_vars
=============================================================================
