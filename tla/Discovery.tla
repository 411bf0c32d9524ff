------------------------------- MODULE Discovery -------------------------------
(***************************************************************************)
(* The search for paid services (packages/economy/src/discovery.ts): a     *)
(* catalog, a ranking, and a sweep of probes that share one budget of time *)
(* (protocol/src/deadlines.ts); the same sweep of what one provider        *)
(* publishes; and the offer that would be paid (offers.ts).  Time is       *)
(* counted in units of five seconds.                                       *)
(*                                                                         *)
(* A probe is an endpoint that may be slow; what it takes to answer, the   *)
(* same for either method, and what becomes of a probe that is aborted are *)
(* part of the candidate.  The time it takes to read balances is not.      *)
(***************************************************************************)
EXTENDS Integers, Sequences, FiniteSets, SequencesExt, FiniteSetsExt

CONSTANTS
  CatalogWait,  \* CATALOG_DEADLINE_MS
  ProbeWait,    \* PROBE_DEADLINE_MS
  AbortWait,    \* the time of a probe's AbortSignal
  SweepWait,    \* VERIFY_SWEEP_DEADLINE_MS
  BatchSize,    \* probes at once
  Wanted,       \* limit
  OriginLimit,  \* the limit of a list of what one provider publishes
  Listings,   \* what catalogs list: the method, what the endpoint knows, its time, its
              \* offers, and whether an abort of its probe is ignored, answered or thrown
  MaxListed     \* bound: candidates of one search

ASSUME DiscoveryAssumption ==
  /\ {CatalogWait, ProbeWait, AbortWait, SweepWait, BatchSize, Wanted, OriginLimit} \subseteq Nat \ {0}
  /\ MaxListed \in Nat
  /\ \A c \in Listings : /\ c.method \in {"POST", "GET", "unsaid"} /\ c.knows \in {"POST", "GET"}
                        /\ c.time \in Nat /\ c.abort \in {"ignored", "answered", "thrown"}

VARIABLES
  listed,     \* the candidates in their order, ranked or not
  purse,      \* spendable USDC per network
  elapsed,    \* since the search began
  expires,    \* when the sweep's budget ends
  next,       \* the first candidate that is not probed yet
  found,      \* services, as indexes of candidates: their order is that of the candidates
  incomplete,
  searching   \* where the search is
searchVars == <<listed, purse, elapsed, expires, next, found, incomplete, searching>>

NetworkOrder == <<"base", "solana", "tempo", "monad">>
Rails    == {"base", "solana", "tempo"}     \* monad only when it is preferred
NoneOffered  == [network |-> "none", price |-> 0]

SearchInit ==
  /\ listed \in SeqOf(Listings, MaxListed) /\ purse \in [Rails -> {0, 2}]
  /\ elapsed = 0 /\ expires = 0 /\ next = 1 /\ found = {} /\ incomplete = FALSE
  /\ searching \in {"catalog", "origin"}   \* find_paid_service, discover_endpoints

Least(a, b) == IF a < b THEN a ELSE b

-----------------------------------------------------------------------------
(***************************************************************************)
(* selectOffer: the preferred network (base), then the others, the first   *)
(* whose balance covers its cheapest offer; else the first there is.       *)
(***************************************************************************)
PayableOn(offers, n) == {o \in offers : o.network = n /\ n \in Rails}
Cheapest(offers, n) == {CHOOSE o \in PayableOn(offers, n) : \A p \in PayableOn(offers, n) : o.price <= p.price}
OffersInOrder(offers) == LET on == SelectSeq(NetworkOrder, LAMBDA n : PayableOn(offers, n) # {})
                   IN  [i \in 1..Len(on) |-> CHOOSE o \in Cheapest(offers, on[i]) : TRUE]
Covered(o)  == purse[o.network] >= o.price
SelectOffer(offers) ==
  LET order == OffersInOrder(offers)
      paid  == {i \in DOMAIN order : Covered(order[i])}
  IN  IF order = <<>> THEN NoneOffered ELSE order[IF paid # {} THEN Min(paid) ELSE 1]

-----------------------------------------------------------------------------
(***************************************************************************)
(* inspect and verified.                                                   *)
(***************************************************************************)
Left(at)  == IF expires > at THEN expires - at ELSE 0
\* How long a probe lasts that nobody's budget cuts short: until the abort, unless the
\* work cannot be aborted.
Patience(c) == IF c.abort = "ignored" THEN ProbeWait ELSE Least(AbortWait, ProbeWait)
\* One probe that begins at a time: how long it takes, whether it finds the method, and
\* whether it ends in an exception.
Inspects(c, method, at) ==
  LET wait == Least(Patience(c), Left(at))
  IN  [takes  |-> Least(c.time, wait), ok |-> wait > 0 /\ c.time < wait /\ c.knows = method,
       thrown |-> wait > 0 /\ c.time >= wait /\ c.abort = "thrown"]
\* A catalog that does not name the method: POST, then GET unless POST threw.
ProbeOf(c) ==
  LET first  == Inspects(c, IF c.method = "unsaid" THEN "POST" ELSE c.method, elapsed)
      second == Inspects(c, "GET", elapsed + first.takes)
  IN  IF first.ok \/ first.thrown \/ c.method # "unsaid"
      THEN [takes |-> first.takes, ok |-> first.ok]
      ELSE [takes |-> first.takes + second.takes, ok |-> second.ok]
Payable(c) == SelectOffer(c.offers) # NoneOffered

\* The catalog and the balances, side by side; then the ranking, whose order is the one
\* that counts when it answers.
Catalog ==
  /\ searching = "catalog" /\ searching' = "rank" /\ elapsed' \in {0, CatalogWait}
  /\ UNCHANGED <<listed, purse, expires, next, found, incomplete>>
RankThem ==
  /\ searching = "rank" /\ searching' = "sweep"
  /\ \/ elapsed' \in {elapsed, elapsed + CatalogWait} /\ UNCHANGED listed
     \/ elapsed' = elapsed /\ listed' = Reverse(listed)
  /\ expires' = elapsed' + SweepWait
  /\ UNCHANGED <<purse, next, found, incomplete>>

\* discoverEndpoints: the provider's own document, then the same sweep.
Document ==
  /\ searching = "origin"
  /\ \/ searching' = "probing" /\ expires' = elapsed + SweepWait
     \/ searching' = "failed" /\ UNCHANGED expires
  /\ UNCHANGED <<listed, purse, elapsed, next, found, incomplete>>

Sweeping == {"sweep", "probing"}
Limit    == IF searching = "sweep" THEN Wanted ELSE OriginLimit
Batch == next..Least(next + BatchSize - 1, Len(listed))
MoreWanted == next <= Len(listed) /\ Cardinality(found) < Limit
Expired == elapsed >= expires
Sweep ==
  /\ searching \in Sweeping /\ MoreWanted /\ ~Expired
  /\ elapsed' = elapsed + Max({ProbeOf(listed[i]).takes : i \in Batch})
  /\ found' = found \cup {i \in Batch : ProbeOf(listed[i]).ok /\ Payable(listed[i])}
  /\ next' = next + BatchSize
  /\ UNCHANGED <<listed, purse, expires, incomplete, searching>>

StoppedShort == Expired /\ MoreWanted
CutShort == Expired /\ (MoreWanted \/ Cardinality(found) < Limit)
EndSweep ==
  /\ searching \in Sweeping /\ (~MoreWanted \/ Expired)
  /\ found' = {i \in found : Cardinality({j \in found : j <= i}) <= Limit}
  /\ \/ searching = "sweep" /\ searching' = "done" /\ incomplete' = CutShort
     \* A provider's list goes out without a word of what was cut short.
     \/ searching = "probing" /\ searching' = "listed" /\ UNCHANGED incomplete
  /\ UNCHANGED <<listed, purse, elapsed, expires, next>>

SearchNext == Catalog \/ RankThem \/ Document \/ Sweep \/ EndSweep

-----------------------------------------------------------------------------
\* What a search tells the model is a whole list is one: it is as long as was asked for,
\* or every candidate that would have answered a probe in time is on it.
WouldAnswer(c) == LET t == IF c.method = "unsaid" /\ c.knows = "GET" THEN "GET" ELSE IF c.method = "unsaid" THEN "POST" ELSE c.method
              IN  c.time < Patience(c) /\ c.knows = t /\ Payable(c)
WholeList == \A i \in 1..Len(listed) : WouldAnswer(listed[i]) => i \in found
NoSilentGap == searching = "done" /\ ~incomplete /\ Cardinality(found) < Wanted => WholeList

\* The same of a provider's list, whose caller should say "so in the note" (discovery.ts:137)
\* what the budget cut short.  The code does not keep it: discoverEndpoints drops the flag.
OriginListIsWhole ==
  searching = "listed" /\ ~incomplete /\ Cardinality(found) < OriginLimit => WholeList
=============================================================================
