------------------------------ MODULE MCBudget ------------------------------
(***************************************************************************)
(* Small instances of Budget for TLC.                                      *)
(***************************************************************************)
EXTENDS Budget, TLC

CONSTANTS small, large

\* One call below the per-call threshold and one above it.
MCAmount == (small :> 2) @@ (large :> 3)
MCAmountOne == small :> 2

MCBoundCrash == [calls |-> 3, crashes |-> 1, faults |-> 0, toggles |-> 0]
MCBoundAll   == [calls |-> 2, crashes |-> 1, faults |-> 1, toggles |-> 1]
MCBoundFault == [calls |-> 3, crashes |-> 0, faults |-> 1, toggles |-> 0]
MCBoundToggle == [calls |-> 1, crashes |-> 0, faults |-> 0, toggles |-> 1]

CallerSymmetry == Permutations(Callers)
=============================================================================
