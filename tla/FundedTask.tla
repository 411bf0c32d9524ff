------------------------------ MODULE FundedTask ------------------------------
(***************************************************************************)
(* A task of several purchases, funded: plan_funding and the one move it   *)
(* lists, or purchases made without a plan and the hint that follows a     *)
(* refused one (agent-runtime/src/funding-plan.ts, hosted-economy.ts).     *)
(*                                                                         *)
(* `left` is what a network can put toward the task, without what Base     *)
(* keeps for hosting and for the run's own model calls.  The bridge and    *)
(* the gateway that pays are outside: of the bridge it is known that its   *)
(* fee is at most the allowance, of the gateway that it pays the cheapest  *)
(* offer whose network covers it.                                          *)
(***************************************************************************)
EXTENDS Funding

CONSTANTS
  Tasks,    \* what agents buy: sequences of purchases
  Wallets   \* and with what

Offers   == [network : Networks, price : Nat, free : BOOLEAN]
Purchase == [offers : SUBSET Offers, again : BOOLEAN]
\* A purchase has an offer; what is free costs nothing; a repetition follows a purchase
\* of the same call.  There is less money than Number.MAX_SAFE_INTEGER.
ASSUME TasksAssumption ==
  /\ \A t \in Tasks :
       /\ t \in Seq(Purchase)
       /\ \A i \in 1..Len(t) :
            /\ t[i].offers # {} /\ \A o \in t[i].offers : o.free => o.price = 0
            /\ t[i].again => i > 1 /\ t[i - 1].offers = t[i].offers /\ ~IsFree(t[i].offers)
  /\ \A w \in Wallets :
       /\ DOMAIN w \subseteq Networks /\ w \in [DOMAIN w -> Nat]
       /\ \A m, n \in DOMAIN w : w[m] + w[n] <= Huge

VARIABLES
  task,    \* the purchases the agent will make, in order
  left,    \* headroom per network
  plan,    \* the plan, or NoPlan
  bought   \* purchases made
fundingVars == <<task, left, plan, bought>>

NoPlan == [outcome |-> "none", moves |-> {}, short |-> NoOffer]
Outcomes == {"none", "no_move", "one_move", "short", "moved", "hinted"}

FundingInit ==
  /\ task \in Tasks
  /\ \E available \in Wallets : left = WalletFunds(available)
  /\ plan = NoPlan /\ bought = 0

\* plan_funding is called once, before the first purchase.
Plan ==
  /\ plan = NoPlan /\ bought = 0
  /\ plan' = PlanTaskFunding(task, left)
  /\ UNCHANGED <<task, left, bought>>

\* An unplanned purchase may take what Base keeps.
Available == [n \in DOMAIN left |-> left[n] + (IF n = "base" THEN Kept ELSE 0)]
Remaining == bought < Len(task)
Chosen    == Choice(IF plan.outcome = "none" THEN Available ELSE left,
                    task[bought + 1].offers)

\* A purchase is refused: its seller's own rail is what the hint is about.
Hint ==
  /\ plan = NoPlan /\ Remaining /\ Chosen = NoOffer
  /\ \E o \in task[bought + 1].offers :
       plan' = [outcome |-> "hinted", short |-> o,
                moves |-> PlanFundingMove(o.network, o.price, Available)]
  /\ UNCHANGED <<task, left, bought>>

\* bridge_usdc: the bridge keeps a fee, at most the allowance.
Move(fee) ==
  /\ plan.outcome \in {"one_move", "hinted"}
  /\ \E move \in plan.moves :
       left' = Moved(left, move, move.units - fee)
  /\ plan' = [plan EXCEPT !.outcome = IF plan.outcome = "hinted" THEN "none" ELSE "moved",
                         !.moves = {}]
  /\ UNCHANGED <<task, bought>>

Buy ==
  /\ Remaining /\ Chosen # NoOffer
  /\ plan.outcome \in {"none", "no_move", "moved"}
  /\ left' = IF Chosen.free THEN left ELSE [left EXCEPT ![Chosen.network] = @ - Chosen.price]
  /\ bought' = bought + 1
  /\ plan' = IF plan.outcome = "none" THEN NoPlan ELSE plan
  /\ UNCHANGED task

FundingNext == Plan \/ Hint \/ (\E fee \in 0..Allowance : Move(fee)) \/ Buy

-----------------------------------------------------------------------------
(***************************************************************************)
(* What a plan promises.                                                   *)
(***************************************************************************)
\* A task that was planned, and funded as planned, is bought to its end: at no
\* purchase is every offer too dear, whatever fee the bridge kept ("the single move
\* that fixes all of them", funding-plan.ts:15-18).
PlannedIsBought == plan.outcome \in {"no_move", "moved"} /\ Remaining => Chosen # NoOffer

\* The plan rounds what a repeated call costs, to cents at each repetition.  A price
\* in whole cents it counts as it is.
CountsExactly == \A i \in DOMAIN task : \A o \in task[i].offers :
  task[i].again => o.price % Cent = 0

\* That is so where no move is made, and after a move where the plan counts exactly
\* (funding-plan.ts:181-198).  And a purchase that was refused is paid after the move its
\* hint names (hosted-economy.ts:384-417).
PlanPays ==
  /\ plan.outcome = "no_move" \/ CountsExactly => PlannedIsBought
  /\ plan.outcome = "none" /\ plan.short # NoOffer =>
       Available[plan.short.network] >= plan.short.price

\* Every move there could be into a network some unpaid call accepts, and whether
\* it pays for the whole task.
PossibleMoves ==
  {[from |-> m, to |-> n, units |-> c * Cent] :
     m \in DOMAIN left, n \in Simulate(task, left).wants,
     c \in 1..(Max({left[k] : k \in DOMAIN left} \cup {0}) \div Cent)}
Suffices(move) ==
  /\ move.from # move.to /\ move.units <= left[move.from]
  /\ ~Unpaid(Simulate(task, Moved(left, move, move.units - Allowance)))

\* Funds "cannot pay for the whole task with one move" (describePlan) when no
\* move could.
ShortIsShort == plan.outcome = "short" => ~\E move \in PossibleMoves : Suffices(move)

\* That holds where each call accepts one network at a price in whole cents, and
\* there no smaller move would have done either.
OnePrice == \A i \in DOMAIN task :
  Cardinality(task[i].offers) = 1 /\ \A o \in task[i].offers : o.price % Cent = 0
PlanIsComplete ==
  OnePrice => /\ ShortIsShort
              /\ plan.outcome = "one_move" =>
                   \A move \in PossibleMoves : Suffices(move) =>
                     \A best \in plan.moves : best.units <= move.units
=============================================================================
