------------------------------- MODULE MCHosted -------------------------------
(***************************************************************************)
(* A small instance of Hosted for TLC: a model call and the tool it asks   *)
(* for, and a move of funds with the paid call it is for.  Time in units   *)
(* of 360 s for paid calls and of 50 s for moves, from hosted-economy.ts   *)
(* and tool-deadlines.ts.                                                  *)
(***************************************************************************)
EXTENDS Hosted

MCPlans    == {<<"model", "pay">>, <<"model", "move">>, <<"move", "pay">>}
MCPostWait == [pay |-> 1, move |-> 2]
MCDeadline == [pay |-> 3, move |-> 6]
=============================================================================
