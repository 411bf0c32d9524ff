------------------------------ MODULE ModelCalls ------------------------------
(***************************************************************************)
(* Model calls and how they are paid.                                      *)
(*                                                                         *)
(* BudgetedLlmProvider.complete (agent-runtime/src/index.ts) makes a call  *)
(* on the primary provider, tries once more after a transient failure, and *)
(* then has a backup provider rescue it; exhausted credit is topped up     *)
(* once.  The callers - the main loop and its subagents - share the        *)
(* provider objects of the process: the queue of CrowdCodeVeniceProvider,  *)
(* the slots and the cached challenge of X402ProxyProvider, Venice's       *)
(* credit, and the count of rescues that parks a primary.                  *)
(*                                                                         *)
(* Abstracted: each signed payment is one unit (Budget models amounts and  *)
(* limits; here reserveBudget allows or refuses); what a completion says;  *)
(* the ledger; the stall and deadline timers, which are lost requests.     *)
(***************************************************************************)
EXTENDS Naturals, Sequences, FiniteSets

CONSTANTS
  Callers,     \* the main loop and the subagents
  Primaries,   \* the providers a session may have chosen
  Modes,       \* the approval modes a session may have
  MaxSlots,    \* maxConcurrent of the proxy
  Threshold,   \* DEGRADED_AFTER_FAILOVERS
  MaxCalls,    \* bound: model calls made
  MayAbort     \* whether the user may cancel a run

Kinds == {"blockrun", "venice", "openrouter-x402-proxy", "venice-direct",
          "openrouter"}

ASSUME ModelCallsAssumption ==
  /\ Primaries \subseteq Kinds
  /\ Modes \subseteq {"ask", "auto", "off"}
  /\ MaxSlots \in Nat \ {0} /\ Threshold \in Nat \ {0} /\ MaxCalls \in Nat
  /\ MayAbort \in BOOLEAN

VARIABLES
  primary,     \* the session's provider
  mode,        \* its approval mode
  failovers,   \* failoverCounts of the primary
  lane,        \* CrowdCodeVeniceProvider.lane: calls not settled yet, in order
  slots,       \* X402ProxyProvider.slots
  challenge,   \* whether X402ProxyProvider.cachedChallenge is set
  credit,      \* whether Venice has credit left
  aborted,     \* the run's signal
  call,        \* the call of each caller
  begun        \* calls made so far

shared == <<primary, mode, failovers, lane, slots, challenge, credit, aborted, begun>>
vars   == <<shared, call>>

PCs    == {"idle", "attempt", "queued", "request", "authorize", "sign", "sent",
           "body", "failed", "topup", "deposit", "book", "catch"}
Rungs  == {"first", "retry", "topped", "rescue"}
Errors == {"none", "transient", "credit", "uncertain", "fatal"}

\* owed: a reservation is held.  The rest is history: early, the call was begun on a
\* primary that was not parked; settled, payments made for the call that are not charged;
\* cut, answers of Venice that were cut off; dropped, the run was cancelled on a payment
\* that is uncertain.
Call == [pc : PCs, rung : Rungs, used : Kinds, err : Errors, signs : 0..2,
         resigned : BOOLEAN, paid : BOOLEAN, owed : BOOLEAN, early : BOOLEAN,
         settled : Nat, cut : Nat, dropped : BOOLEAN]

Start(kind) ==
  [pc |-> "idle", rung |-> "first", used |-> kind, err |-> "none", signs |-> 0,
   resigned |-> FALSE, paid |-> FALSE, owed |-> FALSE, early |-> FALSE,
   settled |-> 0, cut |-> 0, dropped |-> FALSE]

\* rescueProviderId.
Backup == IF primary \in {"blockrun", "venice", "venice-direct"}
            THEN "openrouter-x402-proxy" ELSE "venice"

\* quotesPayments: these show a quote, and are paid by a signature.
Quotes(kind) == kind \in {"blockrun", "venice", "openrouter-x402-proxy"}
Proxy(c)  == call[c].used = "openrouter-x402-proxy"
Venice(c) == call[c].used = "venice"
At(c, pc) == call[c].pc = pc
\* Routing past a parked primary.
Degraded == mode # "ask" /\ failovers >= Threshold

Init ==
  /\ primary \in Primaries /\ mode \in Modes
  /\ failovers = 0 /\ lane = <<>> /\ slots = [active |-> 0, waiters |-> <<>>]
  /\ challenge = FALSE /\ credit = TRUE /\ aborted = FALSE /\ begun = 0
  /\ call = [c \in Callers |-> Start(primary)]

-----------------------------------------------------------------------------
(***************************************************************************)
(* The lanes.  Leaving one passes it to the next in line.                  *)
(***************************************************************************)
Set(c, new) == call' = [call EXCEPT ![c] = new]
Goto(c, pc) == call' = [call EXCEPT ![c].pc = pc]

ReleasesWithoutHandOff ==
  slots' = [slots EXCEPT !.active = @ - 1]
Release ==
  slots' = IF slots.waiters # <<>> THEN [slots EXCEPT !.waiters = Tail(@)]
                                   ELSE [slots EXCEPT !.active = @ - 1]

Leave(c) ==
  /\ IF Venice(c) THEN lane' = Tail(lane) ELSE UNCHANGED lane
  /\ IF Proxy(c) THEN Release ELSE UNCHANGED slots

\* The attempt throws, with a payment submitted or not.
Fail(c, err, settled) ==
  /\ Leave(c)
  /\ Set(c, [call[c] EXCEPT !.pc = "failed", !.err = err, !.settled = @ + settled])

\* A fetch rejects: with the caller's own reason if the run was cancelled.
Lost == IF aborted THEN "fatal" ELSE "transient"

\* So does the reading of an answer that is paid for: nothing says that it was.
CutOff(c) ==
  /\ Leave(c)
  /\ Set(c, [call[c] EXCEPT !.pc = "failed", !.err = Lost, !.settled = @ + 1, !.cut = @ + 1])

\* The attempt returns a completion, paid by a signature or not.
Answer(c, paid) ==
  /\ Leave(c)
  /\ Set(c, [call[c] EXCEPT !.pc = "book", !.paid = paid,
                            !.settled = @ + (IF paid THEN 1 ELSE 0)])

-----------------------------------------------------------------------------
(***************************************************************************)
(* One attempt on call[c].used.                                            *)
(***************************************************************************)
\* complete: a new call, on the backup at once if the primary is parked.
Begin(c) ==
  /\ At(c, "idle") /\ ~aborted /\ begun < MaxCalls
  /\ begun' = begun + 1
  /\ Set(c, [Start(IF Degraded THEN Backup ELSE primary)
               EXCEPT !.pc = "attempt", !.early = mode = "ask" \/ failovers < Threshold])
  /\ UNCHANGED <<primary, mode, failovers, lane, slots, challenge, credit, aborted>>

\* authorize: the reservation of the attempt before is given back, and the new
\* amount is reserved or refused.
Reserve(c, next) ==
  \/ Set(c, [call[c] EXCEPT !.owed = TRUE, !.pc = next]) /\ UNCHANGED <<lane, slots>>
  \/ /\ Leave(c)
     /\ Set(c, [call[c] EXCEPT !.owed = FALSE, !.pc = "failed", !.err = "fatal"])

\* A provider without quotes is paid for with an estimate, the others queue.
Attempt(c) ==
  /\ At(c, "attempt")
  /\ \/ ~Quotes(call[c].used) /\ Reserve(c, "request")
     \/ call[c].used = "blockrun" /\ Goto(c, "request") /\ UNCHANGED <<lane, slots>>
     \/ /\ Venice(c) /\ lane' = Append(lane, c)
        /\ Set(c, [call[c] EXCEPT !.pc = "queued", !.resigned = FALSE])
        /\ UNCHANGED slots
     \/ /\ Proxy(c)
        /\ slots' = IF slots.active < MaxSlots
                      THEN [slots EXCEPT !.active = @ + 1]
                      ELSE [slots EXCEPT !.waiters = Append(@, c)]
        /\ Set(c, [call[c] EXCEPT !.pc = "queued", !.signs = 0])
        /\ UNCHANGED lane
  /\ UNCHANGED <<primary, mode, failovers, challenge, credit, aborted, begun>>

Waits(c) == \E i \in 1..Len(slots.waiters) : slots.waiters[i] = c

\* The call's turn in the lane, or a slot; a known challenge is signed at once.
Turn(c) ==
  /\ At(c, "queued")
  /\ Venice(c) => Head(lane) = c
  /\ Proxy(c) => ~Waits(c)
  /\ Goto(c, IF Proxy(c) /\ challenge THEN "authorize" ELSE "request")
  /\ UNCHANGED shared

\* A request that carries no payment.
Request(c) ==
  /\ At(c, "request")
  /\ \/ /\ Quotes(call[c].used)                     \* 402 with a usable quote
        /\ Set(c, [call[c] EXCEPT !.pc = "authorize",
                                  !.signs = IF Proxy(c) THEN 1 ELSE 0])
        /\ challenge' = (challenge \/ Proxy(c))
        /\ UNCHANGED <<lane, slots, credit>>
     \/ /\ Fail(c, "fatal", 0)                      \* refused, or no usable quote
        /\ challenge' \in IF Proxy(c) THEN BOOLEAN ELSE {challenge}
        /\ UNCHANGED credit
     \/ Fail(c, Lost, 0) /\ UNCHANGED <<challenge, credit>>
     \/ /\ ~Venice(c)                               \* answered without a payment
        /\ call[c].used = "venice-direct" => credit
        /\ credit' \in IF call[c].used = "venice-direct" THEN BOOLEAN ELSE {credit}
        /\ Answer(c, FALSE)
        /\ UNCHANGED challenge
     \/ /\ call[c].used = "venice-direct" /\ ~credit
        /\ Fail(c, "credit", 0)
        /\ UNCHANGED <<challenge, credit>>
  /\ UNCHANGED <<primary, mode, failovers, aborted, begun>>

Authorize(c) ==
  /\ At(c, "authorize")
  /\ Reserve(c, "sign")
  /\ UNCHANGED <<primary, mode, failovers, challenge, credit, aborted, begun>>

\* The signature is made and the request sent with it - unless the run was
\* cancelled meanwhile, or the wallet or the chain cannot be read.
Sign(c) ==
  /\ At(c, "sign")
  /\ \/ ~aborted /\ Goto(c, "sent") /\ UNCHANGED <<lane, slots>>
     \/ Fail(c, "fatal", 0)
     \/ ~aborted /\ Fail(c, "transient", 0)
  /\ UNCHANGED <<primary, mode, failovers, challenge, credit, aborted, begun>>

\* What becomes of a signed request.  A payment whose answer is lost, or bad, may
\* have been settled or not.
Sent(c) ==
  /\ At(c, "sent")
  /\ \/ Venice(c) /\ Goto(c, "body") /\ UNCHANGED <<lane, slots, challenge>>
     \/ ~Venice(c) /\ Answer(c, TRUE) /\ UNCHANGED challenge
     \/ /\ \E settled \in {0, 1} : Fail(c, "uncertain", settled)
        /\ UNCHANGED challenge
     \/ /\ Venice(c)                                \* the payment is cancelled
        /\ \E err \in {"transient", "fatal"} : Fail(c, err, 0)
        /\ UNCHANGED challenge
     \/ /\ Venice(c) /\ ~call[c].resigned           \* refused: once more
        /\ Set(c, [call[c] EXCEPT !.pc = "request", !.resigned = TRUE])
        /\ UNCHANGED <<lane, slots, challenge>>
     \/ /\ Proxy(c) /\ call[c].signs < 2            \* refused: sign its challenge
        /\ \/ /\ Set(c, [call[c] EXCEPT !.pc = "authorize", !.signs = @ + 1])
              /\ challenge' = TRUE
              /\ UNCHANGED <<lane, slots>>
           \/ Fail(c, "fatal", 0) /\ challenge' = FALSE
     \/ /\ Proxy(c) /\ call[c].signs = 2            \* "rejected a signed payment"
        /\ Fail(c, "transient", 0)
        /\ challenge' = FALSE
  /\ UNCHANGED <<primary, mode, failovers, credit, aborted, begun>>

\* The body of Venice's paid answer: read, unreadable, or cut off in the reading.
Body(c) ==
  /\ At(c, "body")
  /\ \/ Answer(c, TRUE)
     \/ Fail(c, "uncertain", 1)
     \/ CutOff(c)
  /\ UNCHANGED <<primary, mode, failovers, challenge, credit, aborted, begun>>

-----------------------------------------------------------------------------
(***************************************************************************)
(* The ladder.                                                             *)
(***************************************************************************)
Again(c, rung) ==
  Set(c, [call[c] EXCEPT !.pc = "attempt", !.rung = rung, !.err = "none"])
Uncertain(c) == call[c].err = "uncertain"

RetriesUncertain(c) ==
  /\ At(c, "failed") /\ call[c].rung = "first"
  /\ IF call[c].err = "credit" THEN Goto(c, "topup")
     ELSE IF call[c].err # "fatal" THEN Again(c, "retry") ELSE Goto(c, "catch")
  /\ UNCHANGED shared
\* The first failure: a cancelled run throws its own reason instead.
Escalate(c) ==
  /\ At(c, "failed") /\ call[c].rung = "first"
  /\ CASE aborted -> Set(c, [call[c] EXCEPT !.pc = "catch", !.err = "fatal",
                                            !.dropped = Uncertain(c) /\ call[c].settled > 0])
       [] ~aborted /\ call[c].err = "credit"    -> Goto(c, "topup")
       [] ~aborted /\ call[c].err = "transient" -> Again(c, "retry")
       [] OTHER -> Goto(c, "catch")
  /\ UNCHANGED shared

\* The second: in ask mode the user may decline the rescue.
Rescue(c) ==
  /\ At(c, "failed") /\ call[c].rung = "retry"
  /\ call[c].err = "transient" /\ call[c].used # Backup
  /\ failovers' = failovers + 1
  /\ Set(c, [call[c] EXCEPT !.pc = "attempt", !.rung = "rescue", !.err = "none",
                            !.used = Backup])
  /\ UNCHANGED <<primary, mode, lane, slots, challenge, credit, aborted, begun>>

GiveUp(c) ==
  /\ At(c, "failed") /\ call[c].rung # "first"
  /\ \/ call[c].rung # "retry" \/ call[c].err # "transient" \/ call[c].used = Backup
     \/ mode = "ask"
  /\ Goto(c, "catch")
  /\ UNCHANGED shared

\* performBoundedTopUp: refused by its cap, the mode, the user or the budget ...
TopUp(c) ==
  /\ At(c, "topup")
  /\ \/ Goto(c, "catch")
     \/ mode # "off" /\ Goto(c, "deposit")
  /\ UNCHANGED shared

\* ... or made: topUpCredit may throw after the transfer.
Deposit(c) ==
  /\ At(c, "deposit")
  /\ \/ credit' = TRUE /\ Again(c, "topped")
     \/ credit' \in {credit, TRUE} /\ Goto(c, "catch")
  /\ UNCHANGED <<primary, mode, failovers, lane, slots, challenge, aborted, begun>>

\* The reservation is finalized at this cost, or released; a payment that is not charged
\* stays, and so does its history.
End(c, cost) ==
  Set(c, IF call[c].settled <= cost
           THEN Start(primary)
           ELSE [Start(primary) EXCEPT !.settled = call[c].settled - cost,
                                       !.cut = call[c].cut, !.dropped = call[c].dropped])

\* A completion: a primary that answers is counted from zero again.  A free answer
\* without a cost costs what an earlier attempt had reserved.
Book(c) ==
  /\ At(c, "book")
  /\ failovers' = IF call[c].used = primary THEN 0 ELSE failovers
  /\ \E cost \in IF call[c].paid THEN {1}
                 ELSE IF call[c].owed THEN {0, 1} ELSE {0} :
       End(c, cost)
  /\ UNCHANGED <<primary, mode, lane, slots, challenge, credit, aborted, begun>>

ReleasesUncertain(c) ==
  At(c, "catch") /\ End(c, 0) /\ UNCHANGED shared
\* An error: the reservation is charged if the payment is uncertain.
Catch(c) ==
  /\ At(c, "catch")
  /\ End(c, IF call[c].owed /\ Uncertain(c) THEN 1 ELSE 0)
  /\ UNCHANGED shared

-----------------------------------------------------------------------------
\* The user cancels the run; its next run starts when all calls have ended.
Abort ==
  /\ MayAbort /\ ~aborted /\ \E c \in Callers : ~At(c, "idle")
  /\ aborted' = TRUE
  /\ UNCHANGED <<primary, mode, failovers, lane, slots, challenge, credit, call, begun>>

NewRun ==
  /\ aborted /\ \A c \in Callers : At(c, "idle")
  /\ aborted' = FALSE
  /\ UNCHANGED <<primary, mode, failovers, lane, slots, challenge, credit, call, begun>>

Step(c) == \/ Attempt(c) \/ Turn(c) \/ Request(c) \/ Authorize(c) \/ Sign(c)
           \/ Sent(c) \/ Body(c) \/ Escalate(c) \/ Rescue(c) \/ GiveUp(c)
           \/ TopUp(c) \/ Deposit(c) \/ Book(c) \/ Catch(c)

Next == Abort \/ NewRun \/ \E c \in Callers : Begin(c) \/ Step(c)

\* Requests time out, and a prompt is taken to be answered.
Fairness == \A c \in Callers : WF_vars(Step(c))
Spec == Init /\ [][Next]_vars /\ Fairness

-----------------------------------------------------------------------------
(***************************************************************************)
(* Properties.                                                             *)
(***************************************************************************)
TypeOK ==
  /\ primary \in Primaries /\ mode \in Modes
  /\ failovers \in 0..MaxCalls /\ begun \in 0..MaxCalls
  /\ lane \in Seq(Callers)
  /\ slots \in [active : 0..MaxSlots, waiters : Seq(Callers)]
  /\ challenge \in BOOLEAN /\ credit \in BOOLEAN /\ aborted \in BOOLEAN
  /\ call \in [Callers -> Call]

\* What was paid for a call and is not charged is still reserved, but for the answers of
\* Venice that were cut off (crowdcode-venice.ts:145) and for the payment that was uncertain
\* when the run was cancelled (index.ts:427): those are charged to nobody.
One(b) == IF b THEN 1 ELSE 0
PaidIsAccounted ==
  \A c \in Callers : call[c].settled <= One(call[c].owed) + call[c].cut + One(call[c].dropped)

\* The same without the exceptions: docs/architecture.md:125, "uncertain submitted
\* payments remain accounted for".  The code does not keep it.
UncertainIsAccounted == \A c \in Callers : call[c].settled <= One(call[c].owed)

\* Retry, rescue and top-up pay for a call once, and once more for each answer of Venice
\* that was cut off, which is taken for a request that never arrived: every other payment
\* that may have been settled ends the ladder.
PaidOnceButForCuts ==
  \A c \in Callers : call[c].settled <= 1 + call[c].cut

\* Without the exception.  The code does not keep it: the retry pays again.
NeverPaidTwice == \A c \in Callers : call[c].settled <= 1

\* While a payment is signed and open, its amount is reserved; Venice has one
\* payment under way for the wallet and the proxy serves MaxSlots calls at once.
LanesAreExclusive ==
  LET Active(kind) == {c \in Callers : call[c].used = kind
        /\ call[c].pc \in {"request", "authorize", "sign", "sent", "body"}}
  IN  /\ \A c \in Callers : call[c].pc \in {"sent", "body"} => call[c].owed
      /\ Cardinality(Active("venice")) <= 1
      /\ Cardinality(Active("openrouter-x402-proxy")) <= MaxSlots

\* A parked primary is only used again because a call that had begun before it was
\* parked has answered, or in ask mode, where each call tries it first.
ParkedIsLeft ==
  [][failovers >= Threshold /\ failovers' < Threshold =>
       \E c \in Callers : At(c, "book") /\ call[c].early]_vars

\* However a call fails, and whoever waits in front of it, it ends.
CallsEnd == \A c \in Callers : call[c].pc # "idle" ~> call[c].pc = "idle"
=============================================================================
