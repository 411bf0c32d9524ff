-------------------------------- MODULE Funding --------------------------------
(***************************************************************************)
(* How a hosted task is funded (agent-runtime/src/funding-plan.ts, and the *)
(* hint and the wallet's reading in hosted-economy.ts).                    *)
(*                                                                         *)
(* Money is counted in units of which Cent make a cent, so that prices     *)
(* below a cent and the rounding up of a move are told apart.  A wallet is *)
(* a function from the networks it holds to what they have; a call is the  *)
(* set of offers that can be paid and how often it will be made, and a     *)
(* task is the sequence of its purchases.                                  *)
(***************************************************************************)
EXTENDS Integers, Sequences, FiniteSets, SequencesExt, FiniteSetsExt

CONSTANTS
  Cent,       \* units of a cent
  Allowance,  \* PLAN_FEE_ALLOWANCE_USD and MOVE_FEE_ALLOWANCE_USD
  Kept,       \* the hosting reserve and the run's model allowance, kept on Base
  Reserve,    \* BASE_WORKING_RESERVE_USD
  Preferred,  \* PREFERRED_MOVE_USD
  Huge        \* more than any task costs: Number.MAX_SAFE_INTEGER

ASSUME FundingAssumption ==
  Cent \in Nat \ {0} /\ {Allowance, Kept, Reserve, Preferred, Huge} \subseteq Nat

\* GATEWAY_PREFERENCE, and rank: the later, the less preferred.
GatewayPreference == <<"base", "solana", "tempo">>
Networks == ToSet(GatewayPreference)
Rank(n)  == CHOOSE i \in DOMAIN GatewayPreference : GatewayPreference[i] = n

Offer(n, price) == [network |-> n, price |-> price, free |-> FALSE]
Proof(n)        == [network |-> n, price |-> 0, free |-> TRUE]
NoOffer         == [network |-> "none", price |-> 0, free |-> FALSE]

Up(units) == ((units + Cent - 1) \div Cent) * Cent
AtLeast(a, b) == IF a >= b THEN a ELSE b
AtMost(a, b)  == IF a <= b THEN a ELSE b

\* walletFunds and headroom: what Base keeps may leave it below zero.
WalletFunds(available) ==
  [n \in DOMAIN available |-> available[n] - (IF n = "base" THEN Kept ELSE 0)]

-----------------------------------------------------------------------------
(***************************************************************************)
(* simulate: the gateway's choice for each purchase, one after the other.  *)
(***************************************************************************)
Holds(left, n) == IF n \in DOMAIN left THEN left[n] ELSE 0
CheapestOf(offers) ==
  CHOOSE o \in offers : \A p \in offers :
    o.price < p.price \/ (o.price = p.price /\ Rank(o.network) <= Rank(p.network))

IsFree(offers) == \E o \in offers : o.free
Choice(left, offers) ==
  LET covered == {o \in offers : Holds(left, o.network) >= o.price}
  IN  IF IsFree(offers) THEN CHOOSE o \in offers : o.free
      ELSE IF covered = {} THEN NoOffer ELSE CheapestOf(covered)

\* Each repetition of a call is a purchase of its own, and what is free is had once; a
\* call without offers is an error of its own and never unpaid.
Purchases(call) ==
  LET times == IF call.offers = {} THEN 0 ELSE IF IsFree(call.offers) THEN 1 ELSE call.count
  IN  [j \in 1..times |-> [offers |-> call.offers, again |-> j > 1]]

\* The total of repetitions that land on one network is rounded to cents each
\* time one is added to it.
Cents(units) == ((2 * units + Cent) \div (2 * Cent)) * Cent
Assign(run, p) ==
  LET o     == Choice(run.left, p.offers)
      same  == p.again /\ run.last.network = o.network
      total == IF same THEN Cents(run.last.total + o.price) ELSE o.price
  IN  IF o = NoOffer
        THEN [left |-> run.left, used |-> run.used, last |-> [network |-> "none", total |-> 0],
              wants |-> run.wants \cup {q.network : q \in p.offers}]
        ELSE [left |-> IF o.free THEN run.left ELSE [run.left EXCEPT ![o.network] = @ - o.price],
              used |-> [run.used EXCEPT ![o.network] =
                          @ + total - (IF same THEN run.last.total ELSE 0)],
              last |-> [network |-> o.network, total |-> total],
              wants |-> run.wants]

\* After each purchase: what is left, what each network is counted to have paid, the
\* line of the plan that may still grow, and the networks that unpaid calls accept.
Beginning(start) == [left |-> start, used |-> [n \in Networks |-> 0],
                     last |-> [network |-> "none", total |-> 0], wants |-> {}]
Simulation(task, start) ==
  LET run[k \in 0..Len(task)] ==
        IF k = 0 THEN Beginning(start) ELSE Assign(run[k - 1], task[k])
  IN  run
Simulate(task, start) == Simulation(task, start)[Len(task)]
Unpaid(run) == run.wants # {}

-----------------------------------------------------------------------------
(***************************************************************************)
(* planTaskFunding: no move, or one move from the network that can spare   *)
(* most into one that an unpaid call accepts, or what is short.            *)
(***************************************************************************)
With(funds, n, units) == [m \in DOMAIN funds \cup {n} |-> IF m = n THEN units ELSE funds[m]]
Unlimited(task, start, n) == Simulate(task, With(start, n, Huge))

Arrive(task, start, n) == AtLeast(0, Unlimited(task, start, n).used[n] - Holds(start, n))
Spare(task, start, n, m) == start[m] - Unlimited(task, start, n).used[m]
Source(task, start, n) ==
  CHOOSE m \in DOMAIN start \ {n} : \A k \in DOMAIN start \ {n} :
    LET a == Spare(task, start, n, m)  b == Spare(task, start, n, k)
    IN  a > b \/ (a = b /\ Rank(m) <= Rank(k))

Moved(start, move, arrives) ==
  With(With(start, move.to, Holds(start, move.to) + arrives),
       move.from, start[move.from] - move.units)

\* The mistake of moving what has to arrive and forgetting the bridge's cut.
MovesWhatArrives(task, start, n) ==
  LET units == Up(Arrive(task, start, n))
      from  == Source(task, start, n)
  IN  IF Unpaid(Unlimited(task, start, n)) \/ DOMAIN start \subseteq {n} THEN {}
      ELSE IF Spare(task, start, n, from) < units THEN {}
      ELSE {[from |-> from, to |-> n, units |-> units]}

\* The move into network n, where one pays for the whole task.
Moves(task, start, n) ==
  LET units == Up(Arrive(task, start, n) + Allowance)
      from  == Source(task, start, n)
      move  == [from |-> from, to |-> n, units |-> units]
  IN  IF \/ Unpaid(Unlimited(task, start, n))
         \/ DOMAIN start \subseteq {n}
         \/ Spare(task, start, n, from) < units
         \/ Unpaid(Simulate(task, Moved(start, move, Arrive(task, start, n))))
      THEN {} ELSE {move}

\* The cheapest addition, for each network by itself.
Short(task, start) ==
  LET at     == Simulate(task, start).wants
      gap(n) == Up(Arrive(task, start, n))
      n      == CHOOSE m \in at : \A k \in at :
                  gap(m) < gap(k) \/ (gap(m) = gap(k) /\ Rank(m) <= Rank(k))
  IN  [network |-> n, units |-> gap(n)]

PlanTaskFunding(task, start) ==
  LET now   == Simulate(task, start)
      moves == UNION {Moves(task, start, n) : n \in now.wants}
      best  == CHOOSE m \in moves : \A k \in moves :
                 m.units < k.units \/ (m.units = k.units /\ Rank(m.to) <= Rank(k.to))
  IN  IF ~Unpaid(now) THEN [outcome |-> "no_move", moves |-> {}, short |-> NoOffer]
      ELSE IF moves # {} THEN [outcome |-> "one_move", moves |-> {best}, short |-> NoOffer]
      ELSE [outcome |-> "short", moves |-> {},
            short |-> LET s == Short(task, start) IN Offer(s.network, s.units)]

-----------------------------------------------------------------------------
(***************************************************************************)
(* planFundingMove: the hint that follows a funding_required answer.       *)
(***************************************************************************)
Down(units) == (units \div Cent) * Cent
PlanFundingMove(target, price, available) ==
  LET others == DOMAIN available \ {target}
      from   == CHOOSE m \in others : \A k \in others :
                  available[m] > available[k] \/ (available[m] = available[k] /\ Rank(m) <= Rank(k))
      needed == Up(price + Allowance)
      spare  == Down(AtLeast(0, available[from] - (IF from = "base" THEN Reserve ELSE 0)))
      most   == AtMost(AtLeast(needed, spare), Down(available[from]))
      units  == AtMost(AtLeast(Preferred, needed), most)
  IN  IF others = {} THEN {} ELSE IF units < needed THEN {}
      ELSE {[from |-> from, to |-> target, units |-> units]}
=============================================================================
