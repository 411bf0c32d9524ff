------------------------------- MODULE MCRules -------------------------------
(***************************************************************************)
(* Where the money goes: machines that share nothing, checked in one run.  *)
(* A search for services, what is known of them, a task that is funded,    *)
(* the owner's rules, a service that is bought, prepaid credit, and the    *)
(* choice of the models.  A behaviour is one of them; the others stay as   *)
(* they begin.                                                             *)
(***************************************************************************)
EXTENDS FundedTask, Approvals, PaidCall, Discovery, Credit, ModelChoice, Reputation

VARIABLE topic

\* The first one is the longer.
MCBeginnings == <<"path", "host">>

\* Offers of half a cent and less, of one network and of two, and a free one.
MCNetworks == {"base", "solana", "tempo"}
MCOffers == {{Offer(n, p)} : n \in MCNetworks, p \in {1, 3, 6}}
            \cup {{Offer("base", p), Offer("solana", q)} : p \in {1, 3}, q \in {3, 4}}
            \cup {{Proof("tempo")}}
MCCalls  == {[offers |-> s, count |-> c] : s \in MCOffers, c \in {1, 4}}
MCTasks  == {Purchases(c) : c \in MCCalls}
            \cup {Purchases(c) \o Purchases(d) : c \in MCCalls, d \in {x \in MCCalls : x.count = 1}}
            \cup {Purchases([offers |-> {Offer("base", 4), Offer("solana", 5)}, count |-> 5])
                    \o Purchases([offers |-> {Offer("base", 1)}, count |-> 1])}
MCWallets == {w \in [MCNetworks -> {0, 7, 24}] : w["tempo"] # 24}
             \cup {[n \in MCNetworks |-> IF n = "solana" THEN 40 ELSE b] : b \in {0, 7}}
MCNoTask   == << >>
MCNoWallet == [n \in MCNetworks |-> 0]

\* Endpoints that are quick, slow, or silent; that take one method or the other; whose
\* probe can be aborted, or throws then, or goes on; that are paid on one network, on two,
\* for two prices, or on one that is not ours.
Priced(n, p) == [network |-> n, price |-> p]
Listed1(m, k, t, abort, os) == [method |-> m, knows |-> k, time |-> t, abort |-> abort, offers |-> os]
MCListings == {Listed1("POST", "POST", 0, "answered", {Priced("base", 3)}),
               Listed1("unsaid", "GET", 2, "ignored", {Priced("base", 1)}),
               Listed1("unsaid", "GET", 2, "thrown", {Priced("base", 1)}),
               Listed1("unsaid", "POST", 1, "thrown", {Priced("base", 3), Priced("base", 1)}),
               Listed1("POST", "POST", 4, "answered", {Priced("base", 1)}),
               Listed1("GET", "GET", 0, "ignored", {Priced("base", 3), Priced("solana", 2)}),
               Listed1("POST", "POST", 0, "answered", {Priced("monad", 1)})}

\* Models of two providers: dear, cheap and narrow, without a price, tools or a name; with a
\* name in both, and a listing that changes.
Model(name, place, price, window, tools) ==
  [name |-> name, place |-> place, price |-> price, window |-> window, tools |-> tools]
MCCatalogs == {{Model("m", 1, 9, 200, "yes"), Model("x", 2, 1, 16, "yes")},
               {Model("y", 1, -1, 0, "unsaid"), Model("x", 2, 12, 9000, "no"),
                Model("unnamed", 3, 20, 200, "yes")}}

-----------------------------------------------------------------------------
TaskAtRest   == task = MCNoTask /\ left = MCNoWallet /\ plan = NoPlan /\ bought = 0
SaleAtRest   == seller = [net |-> "base", price |-> 0, tells |-> FALSE] /\ SaleInit
SearchAtRest == listed = <<>> /\ purse = [n \in Rails |-> 0] /\ searching = "catalog" /\ SearchInit
ChoiceAtRest == stored = NoModels /\ lists = [p \in Providers |-> CHOOSE c \in Catalogs : TRUE] /\ ChoiceInit
RatedAtRest  == rated = [e \in Endpoints |-> "nothing"] /\ ReputationInit

Topics == {"task", "rules", "sale", "search", "credit", "models", "reputation"}
Init ==
  /\ topic \in Topics /\ ApprovalsInit /\ CreditInit
  /\ IF topic = "task" THEN FundingInit ELSE TaskAtRest
  /\ IF topic = "sale" THEN SaleInit ELSE SaleAtRest
  /\ IF topic = "search" THEN SearchInit ELSE SearchAtRest
  /\ IF topic = "models" THEN ChoiceInit ELSE ChoiceAtRest
  /\ IF topic = "reputation" THEN ReputationInit ELSE RatedAtRest

OfTask ==
  /\ topic = "task" /\ FundingNext
  /\ UNCHANGED <<topic, approvalVars, saleVars, searchVars, creditVars, choiceVars, reputationVars>>
OfRules ==
  /\ topic = "rules" /\ ApprovalsNext
  /\ UNCHANGED <<topic, fundingVars, saleVars, searchVars, creditVars, choiceVars, reputationVars>>
OfSale ==
  /\ topic = "sale" /\ SaleNext
  /\ UNCHANGED <<topic, fundingVars, approvalVars, searchVars, creditVars, choiceVars, reputationVars>>
OfSearch ==
  /\ topic = "search" /\ SearchNext
  /\ UNCHANGED <<topic, fundingVars, approvalVars, saleVars, creditVars, choiceVars, reputationVars>>
OfCredit ==
  /\ topic = "credit" /\ CreditNext
  /\ UNCHANGED <<topic, fundingVars, approvalVars, saleVars, searchVars, choiceVars, reputationVars>>
OfModels ==
  /\ topic = "models" /\ ChoiceNext
  /\ UNCHANGED <<topic, fundingVars, approvalVars, saleVars, searchVars, creditVars, reputationVars>>
OfReputation ==
  /\ topic = "reputation" /\ ReputationNext
  /\ UNCHANGED <<topic, fundingVars, approvalVars, saleVars, searchVars, creditVars, choiceVars>>
Next == OfTask \/ OfRules \/ OfSale \/ OfSearch \/ OfCredit \/ OfModels \/ OfReputation
Spec == Init /\ [][Next]_<<topic, fundingVars, approvalVars, saleVars, searchVars, creditVars, choiceVars, reputationVars>>
=============================================================================
