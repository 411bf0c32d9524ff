------------------------------- MODULE PaidOnce -------------------------------
(***************************************************************************)
(* What a hosted run promises of the purchases it makes through the        *)
(* supervisor's socket: the money moves at most once, and what the model   *)
(* is told about it is true for ever - "paid" only after it moved, "not    *)
(* paid" only if it never does; everything else makes no claim.            *)
(***************************************************************************)
EXTENDS Naturals

CONSTANT Purchases

VARIABLES money, told

Init == /\ money = [p \in Purchases |-> 0]
        /\ told = [p \in Purchases |-> "none"]

Move(p) ==
  /\ money[p] = 0 /\ told[p] # "not paid"
  /\ money' = [money EXCEPT ![p] = 1]
  /\ UNCHANGED told

Tell(p) ==
  /\ told[p] = "none"
  /\ \/ money[p] = 1 /\ told' = [told EXCEPT ![p] = "paid"]
     \/ money[p] = 0 /\ told' = [told EXCEPT ![p] = "not paid"]
     \/ told' = [told EXCEPT ![p] = "no claim"]
  /\ UNCHANGED money

Next == \E p \in Purchases : Move(p) \/ Tell(p)
Spec == Init /\ [][Next]_<<money, told>>
=============================================================================
