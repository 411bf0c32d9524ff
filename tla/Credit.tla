-------------------------------- MODULE Credit --------------------------------
(***************************************************************************)
(* Prepaid credit at Venice (VeniceProvider of agent-runtime/src/          *)
(* providers.ts).  Several loops share one client; a seller that does not  *)
(* say what a call cost says, with each answer, what is left of the        *)
(* credit, and the difference is taken for the cost - when the call had    *)
(* the client to itself.  A call without a cost of its own is charged by   *)
(* the price list, outside of this module.                                 *)
(***************************************************************************)
EXTENDS Integers, FiniteSets

CONSTANTS
  Lanes,     \* calls of the client
  Prices,    \* what the seller may take for one
  Credit,    \* the credit at first
  TopUp      \* what a top-up adds

ASSUME CreditAssumption ==
  /\ IsFiniteSet(Lanes)
  /\ Prices \subseteq Nat \ {0} /\ {Credit, TopUp} \subseteq Nat

VARIABLES
  credit,    \* at the seller: what is left, what was taken, what was added
  cached,    \* client.balance; 0 before the first answer
  inFlight,
  lane,      \* each call: balanceBefore, exclusiveWindow, the answer's balance, its cost
  charged    \* history: the costs that were taken from differences, added up
creditVars == <<credit, cached, inFlight, lane, charged>>

NoCost == 0
CreditInit ==
  /\ credit = [left |-> Credit, taken |-> 0, added |-> 0] /\ cached = 0 /\ inFlight = 0 /\ charged = 0
  /\ lane = [c \in Lanes |-> [at |-> "new", before |-> 0, alone |-> FALSE, says |-> 0,
                              price |-> 0, cost |-> NoCost]]

StartsCall(c) ==
  /\ lane[c].at = "new" /\ inFlight' = inFlight + 1
  /\ lane' = [lane EXCEPT ![c].at = "sent", ![c].before = cached, ![c].alone = (inFlight = 0)]
  /\ UNCHANGED <<credit, cached, charged>>

Serves(c, price) ==
  /\ lane[c].at = "sent" /\ credit.left >= price
  /\ credit' = [credit EXCEPT !.left = @ - price, !.taken = @ + price]
  /\ lane' = [lane EXCEPT ![c].at = "served", ![c].price = price, ![c].says = credit.left - price]
  /\ UNCHANGED <<cached, inFlight, charged>>

\* The headers of the answer; then its body, at the end of which the cost is taken.
Answered(c) ==
  /\ lane[c].at = "served" /\ cached' = lane[c].says
  /\ lane' = [lane EXCEPT ![c].at = "answered"]
  /\ UNCHANGED <<credit, inFlight, charged>>

HadItOrNot(c)   == inFlight' >= 0
HadTheClient(c) == lane[c].alone /\ inFlight' = 0
CostOf(c) ==
  IF HadTheClient(c) /\ lane[c].before > 0 /\ cached > 0 /\ lane[c].before > cached
    THEN lane[c].before - cached ELSE NoCost
EndsCall(c) ==
  /\ lane[c].at = "answered" /\ inFlight' = inFlight - 1
  /\ lane' = [lane EXCEPT ![c].at = "ended", ![c].cost = CostOf(c)]
  /\ charged' = charged + CostOf(c)
  /\ UNCHANGED <<credit, cached>>
\* Refused for want of credit, cut off, or lost on the way there or back.
Fails(c) ==
  /\ lane[c].at \in {"sent", "served", "answered"} /\ inFlight' = inFlight - 1
  /\ lane' = [lane EXCEPT ![c].at = "ended"]
  /\ UNCHANGED <<credit, cached, charged>>

AddsCredit ==
  /\ credit.added = 0 /\ credit' = [credit EXCEPT !.left = @ + TopUp, !.added = TopUp]
  /\ UNCHANGED <<cached, inFlight, lane, charged>>

CreditNext == \/ \E c \in Lanes : \/ StartsCall(c) \/ Answered(c) \/ EndsCall(c) \/ Fails(c)
                                  \/ \E p \in Prices : Serves(c, p)
              \/ AddsCredit

-----------------------------------------------------------------------------
\* Whatever the calls overlap, no credit is taken for the cost of two of them.
DifferencesCountOnce == charged <= credit.taken

\* providers.ts:213-216: "with concurrent requests the delta includes other lanes' spend
\* and would double-count."  A call that begins and ends while another one is under way
\* is in the difference of that one, and is charged by the price list as well.
DifferenceIsItsOwn ==
  \A c \in Lanes : lane[c].cost # NoCost /\ credit.added = 0 => lane[c].cost = lane[c].price
=============================================================================
