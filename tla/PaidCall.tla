------------------------------- MODULE PaidCall -------------------------------
(***************************************************************************)
(* One service, bought again and again by a session that pays by itself:   *)
(* inspect_paid_service and call_paid_service (economy/src/gateway.ts),    *)
(* the payer on Monad (monad.ts) and AgentCash behind its connection       *)
(* (agentcash.ts, mcp.ts).                                                 *)
(*                                                                         *)
(* The seller may change price and network between any two steps.  A       *)
(* signed authorization can be settled as long as it is valid, also after  *)
(* its answer was read, lost or given up.  AgentCash is known to pay at    *)
(* most what it is allowed and to answer with an error only if it did not  *)
(* pay.  Money is counted in units, UnitsPerCent to a cent.                *)
(*                                                                         *)
(* Reservation, record and review of a call are in Budget and Purchases.   *)
(***************************************************************************)
EXTENDS Integers, FiniteSets

CONSTANTS
  UnitsPerCent, \* units of a cent
  Amounts,     \* prices, in units; 0 is free but signed
  MaxCost,     \* what the model may ask for, in cents, at most
  MaxDeals,    \* bound: calls
  MaxChanges,  \* bound: offers of the seller
  MaxClients,  \* bound: connections to AgentCash
  MaxSaleCrashes \* bound: restarts of the session

ASSUME PaidCallAssumption ==
  /\ UnitsPerCent \in Nat \ {0} /\ Amounts \subseteq Nat
  /\ {MaxCost, MaxDeals, MaxChanges, MaxClients, MaxSaleCrashes} \subseteq Nat

Nets  == {"base", "monad"}
NoBid == -1                                \* no max_cost_cents and no price known
Deals == 1..MaxDeals

VARIABLES
  seller,      \* the seller's offer of the moment
  note,        \* the inspection in this process
  noteFile,    \* inspections.json
  step,        \* where the gateway is
  deal,        \* the call under way, or the last one
  deals,       \* history: all calls
  client,      \* McpConnection: client and connecting, by number
  dropped,     \* history: connections given up after an error
  moves        \* changes of the seller, deals, crashes so far
saleVars == <<seller, note, noteFile, step, deal, deals, client, dropped, moves>>

NoNote == [net |-> "none", ceiling |-> NoBid]
Torn   == [net |-> "torn", ceiling |-> NoBid]
NoDeal == [asks |-> NoBid, quoted |-> 0, asked |-> FALSE, auth |-> "none", amount |-> 0,
           late |-> FALSE, told |-> "none", charged |-> 0, using |-> 0]

PriceInCents(units) ==
  IF units <= UnitsPerCent THEN 1 ELSE (units + UnitsPerCent - 1) \div UnitsPerCent
Rounded(units) ==
  IF 2 * units < 3 * UnitsPerCent THEN 1
  ELSE (2 * units + UnitsPerCent) \div (2 * UnitsPerCent)
Larger(a, b)        == IF a >= b THEN a ELSE b

SaleInit ==
  /\ seller \in [net : Nets, price : Amounts, tells : BOOLEAN]
  /\ note = NoNote /\ noteFile = NoNote /\ step = "idle"
  /\ deal = NoDeal /\ deals = [d \in Deals |-> NoDeal]
  /\ client = [open |-> 0, connecting |-> 0, last |-> 0, alive |-> 0] /\ dropped = {}
  /\ moves = [offers |-> 0, deals |-> 0, crashes |-> 0]

world  == <<seller, moves>>
notes  == <<note, noteFile>>
people == <<client, dropped>>

At(s) == step = s
Free  == seller.price = 0
\* priceCeilingFromSchema: never below a cent, and only an inspection knows of free
\* offers that say so.
Ceiling  == IF seller.tells THEN PriceInCents(seller.price) ELSE NoBid
Ceilings == {Ceiling} \cup {c \in {0} : Free}

Changes ==
  /\ moves.offers < MaxChanges /\ moves' = [moves EXCEPT !.offers = @ + 1]
  /\ seller' \in [net : Nets, price : Amounts, tells : BOOLEAN]
  /\ UNCHANGED <<notes, step, deal, deals, people>>

-----------------------------------------------------------------------------
(***************************************************************************)
(* Inspecting, and calling at a price.                                     *)
(***************************************************************************)
\* The inspection is known at once, and written over the file.
Inspect ==
  /\ At("idle") /\ moves.deals < MaxDeals
  /\ \E c \in Ceilings : note' = [net |-> seller.net, ceiling |-> c]
  /\ noteFile' = Torn
  /\ step' = "inspected"
  /\ UNCHANGED <<world, deal, deals, people>>
Remember ==
  /\ At("inspected") /\ noteFile' = note /\ step' = "idle"
  /\ UNCHANGED <<world, note, deal, deals, people>>

\* loadInspections: a file that cannot be read is an inspection not made.
Known == IF note # NoNote THEN note ELSE IF noteFile = Torn THEN NoNote ELSE noteFile

Call(asks) ==
  /\ At("idle") /\ Known # NoNote /\ moves.deals < MaxDeals
  /\ note' = Known /\ moves' = [moves EXCEPT !.deals = @ + 1]
  /\ deal' = [NoDeal EXCEPT !.asks = IF asks = NoBid THEN Known.ceiling ELSE asks]
  /\ step' = "requote"
  /\ UNCHANGED <<seller, noteFile, deals, people>>

\* The call is over: what the model is told, and what the session is charged.  Of a call
\* that paid nothing the rest is forgotten.
Past(told, charged) ==
  [IF deal.auth = "none" THEN NoDeal ELSE [deal EXCEPT !.using = 0]
     EXCEPT !.told = told, !.charged = charged]
Close(told, charged) ==
  /\ deal' = NoDeal /\ step' = "idle"
  /\ deals' = [deals EXCEPT ![moves.deals] = Past(told, charged)]
Refuse == Close("not charged", 0)

\* The offer is read again, and its price counts if it is the larger one.
Quote == IF Ceiling = NoBid THEN deal.asks ELSE Larger(Ceiling, deal.asks)
Requote ==
  /\ At("requote")
  /\ \/ seller.net = note.net /\ Quote # NoBid
        /\ deal' = [deal EXCEPT !.quoted = Quote] /\ step' = "approve" /\ UNCHANGED deals
     \/ Refuse                  \* also: unreachable, another network, no price, a bad score
  /\ UNCHANGED <<world, notes, people>>

\* resolveApproval and reserveBudget: a price above the one asked for is put to the
\* owner, who may also be asked otherwise.
ApprovesQuietly ==
  /\ At("approve")
  /\ \/ \E asked \in BOOLEAN :
          /\ deal' = [deal EXCEPT !.asked = asked] /\ UNCHANGED deals
          /\ step' = IF note.net = "monad" THEN "probe" ELSE "connect"
     \/ Refuse
  /\ UNCHANGED <<world, notes, people>>
Approve ==
  /\ At("approve")
  /\ \/ \E asked \in BOOLEAN :
          /\ deal.asks # NoBid /\ deal.quoted > deal.asks => asked
          /\ deal' = [deal EXCEPT !.asked = asked] /\ UNCHANGED deals
          /\ step' = IF note.net = "monad" THEN "probe" ELSE "connect"
     \/ Refuse
  /\ UNCHANGED <<world, notes, people>>

-----------------------------------------------------------------------------
(***************************************************************************)
(* MonadX402Payer.fetch.                                                   *)
(***************************************************************************)
\* The request without payment: it fails, is answered, demands what cannot be paid or
\* is too much, or is signed for the price of the moment.
Sign ==
  /\ seller.price <= deal.quoted * UnitsPerCent
  /\ deal' = [deal EXCEPT !.auth = "open", !.amount = seller.price]
  /\ step' = "signed" /\ UNCHANGED deals
Probe ==
  /\ At("probe")
  /\ \/ Refuse
     \/ Free /\ Close("free", 0)
     \/ ~Free /\ seller.net = "monad" /\ Sign
  /\ UNCHANGED <<world, notes, people>>

\* The signed request is answered by the seller, or lost; either way it may be settled.
Settle ==
  /\ deal.auth = "open" /\ step \in {"signed", "unsure"}
  /\ deal' = [deal EXCEPT !.auth = "used"]
  /\ UNCHANGED <<world, notes, step, deals, people>>

LosesQuietly == Close("not charged", 0)
Lost == Close("unknown", deal.quoted)
Receipt == deal.auth = "used"
SellerReplies ==
  /\ At("signed")
  /\ \/ Lost                                            \* timeout, transport
     \/ Receipt /\ Close("paid", Rounded(deal.amount))  \* whatever the answer's status
     \/ Close("unknown", deal.quoted)                   \* no receipt, or of another network
     \/ step' = "unsure" /\ UNCHANGED <<deal, deals>>   \* an error without a receipt
  /\ UNCHANGED <<world, notes, people>>

\* authorizationUsed, after a while: unused, used, or - behind a 402 - not readable.
AskChain ==
  \/ deal.auth = "open" /\ Close("not charged", 0)
  \/ Close("unknown", deal.quoted)
Check ==
  /\ At("unsure")
  /\ AskChain
  /\ UNCHANGED <<world, notes, people>>
\* The answer is a 402 and the chain does not say: the refusal is taken at its word,
\* also where the authorization was settled.
Believe ==
  /\ At("unsure")
  /\ Close("refused", 0)
  /\ UNCHANGED <<world, notes, people>>

\* An authorization that was not used is valid for some time.
SettleLate ==
  /\ \E d \in Deals :
       /\ deals[d].auth = "open"
       /\ deals' = [deals EXCEPT ![d].auth = "used", ![d].late = TRUE]
  /\ UNCHANGED <<world, notes, step, deal, people>>
Expire ==
  /\ \E d \in Deals :
       deals[d].auth = "open" /\ deals' = [deals EXCEPT ![d].auth = "expired"]
  /\ UNCHANGED <<world, notes, step, deal, people>>

-----------------------------------------------------------------------------
(***************************************************************************)
(* McpConnection and AgentCash.                                            *)
(***************************************************************************)
\* connect: the client, or the one that was being connected, or a new one.
Connect ==
  /\ At("connect")
  /\ LET old == IF client.open # 0 THEN client.open ELSE client.connecting
     IN  \/ old # 0 /\ deal' = [deal EXCEPT !.using = old] /\ UNCHANGED client
         \/ /\ old = 0 /\ client.last < MaxClients
            /\ client' = [open |-> client.last + 1, connecting |-> client.last + 1,
                          last |-> client.last + 1, alive |-> client.last + 1]
            /\ deal' = [deal EXCEPT !.using = client.last + 1]
  /\ step' = "sent"
  /\ UNCHANGED <<world, notes, deals, dropped>>
Unavailable ==
  /\ At("connect") /\ client.open = 0 /\ client.connecting = 0 /\ Refuse
  /\ UNCHANGED <<world, notes, people>>

\* AgentCash pays, within what it is allowed.
Pay ==
  /\ At("sent") /\ deal.using = client.alive /\ deal.auth = "none"
  /\ ~Free /\ seller.net = note.net /\ seller.price <= deal.quoted * UnitsPerCent
  /\ deal' = [deal EXCEPT !.auth = "used", !.amount = seller.price]
  /\ UNCHANGED <<world, notes, step, deals, people>>

\* parsePaidFetchResult: evidence, a claim without evidence, or nothing paid.
Parse ==
  \/ deal.auth = "used" /\ Close("paid", Rounded(deal.amount))
  \/ deal.auth = "used" /\ Close("unknown", deal.quoted)
  \/ deal.auth = "none" /\ Refuse
  \/ deal.auth = "none" /\ Free /\ Close("free", 0)
Answer ==
  /\ At("sent") /\ deal.using = client.alive
  /\ Parse
  /\ UNCHANGED <<world, notes, people>>
\* The call fails in transport, and its client is given up.
Fail ==
  /\ At("sent")
  /\ Lost
  /\ client' = [client EXCEPT !.open = 0] /\ dropped' = dropped \cup {deal.using}
  /\ UNCHANGED <<world, notes>>
ServerDies ==
  /\ client.alive # 0 /\ client' = [client EXCEPT !.alive = 0]
  /\ UNCHANGED <<world, notes, step, deal, deals, dropped>>

-----------------------------------------------------------------------------
\* The session restarts: what is in its files is left, and the reservation.
Restart ==
  /\ moves.crashes < MaxSaleCrashes /\ moves' = [moves EXCEPT !.crashes = @ + 1]
  /\ note' = NoNote /\ step' = "idle" /\ deal' = NoDeal
  /\ deals' = IF deal = NoDeal THEN deals
              ELSE [deals EXCEPT ![moves.deals] = Past("lost", 0)]
  /\ client' = [client EXCEPT !.open = 0, !.connecting = 0]
  /\ UNCHANGED <<seller, noteFile, dropped>>

SaleNext ==
  \/ Changes \/ Inspect \/ Remember \/ Requote \/ Approve
  \/ \E asks \in {NoBid} \cup 1..MaxCost : Call(asks)
  \/ Probe \/ Settle \/ SellerReplies \/ Check \/ Believe \/ SettleLate \/ Expire
  \/ Connect \/ Unavailable \/ Pay \/ Answer \/ Fail \/ ServerDies
  \/ Restart

-----------------------------------------------------------------------------
\* What a call costs is charged to the session, to the nearest cent, or is still
\* reserved, however prices move and whatever answer is lost.  Two ways are left out
\* by name: an authorization that was still valid is settled after the answer was
\* read ("late"), and one that was settled is answered by a 402 while the chain
\* cannot be read ("refused").
PaidIsCovered ==
  \A d \in Deals : LET c == deals[d] IN
    c.auth = "used" =>
      \/ c.late \/ c.told = "refused"
      \/ c.told \in {"none", "lost"} /\ c.amount <= c.quoted * UnitsPerCent
      \/ c.told \in {"paid", "unknown"} /\ 2 * c.amount < (2 * c.charged + 1) * UnitsPerCent

\* What the comment of monad.ts says of a 402 (monad.ts:153, "explicitly refused to
\* settle"): nothing was paid.  The status does not show it.
RefusedIsUnpaid ==
  \A d \in Deals : deals[d].told = "refused" /\ deals[d].auth = "used" => deals[d].late

\* However a seller moves its price between the inspection and the payment: what a
\* call pays beyond the amount it was made with - max_cost_cents or, where it gives
\* none, the ceiling of the inspection - was put to the owner first.  A call made
\* with neither amount has nothing to go beyond.
PriceOverLimitIsAsked ==
  \A d \in Deals : LET c == deals[d] IN
    c.auth # "none" /\ c.asks # NoBid => c.amount <= c.asks * UnitsPerCent \/ c.asked

\* The stronger reading of gateway.ts:271-273, a quote above the ceiling of the
\* inspection is asked for: not where max_cost_cents is above that ceiling.
RiseIsAsked ==
  deal.auth # "none" /\ note.ceiling # NoBid =>
    deal.amount <= note.ceiling * UnitsPerCent \/ deal.asked

\* mcp.ts: the client is dropped "so the NEXT call reconnects".
NextCallReconnects == deal.using \notin dropped
=============================================================================
