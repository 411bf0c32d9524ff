------------------------------ MODULE Purchases ------------------------------
(***************************************************************************)
(* Buying from paid services in one session: the purchase lifecycle of     *)
(* packages/economy/src/gateway.ts over the append-only store of           *)
(* purchases.ts, driven by the agent loop of packages/agent-runtime        *)
(* (index.ts, economy-tools.ts) and by the checkpoint file of runtime.ts.  *)
(*                                                                         *)
(* The model asks for one tool at a time; the loop saves the request in    *)
(* query-checkpoint.json, executes it and saves its result.  A crash loses *)
(* the memory; `opencrowd resume` restarts from the checkpoint, and a      *)
(* request that has no saved result is executed again.                     *)
(*                                                                         *)
(* A paid call is named by its query and turn.  Prices, reservations and   *)
(* the session file are Budget.tla's.                                      *)
(***************************************************************************)
EXTENDS Naturals, Sequences, FiniteSets

CONSTANTS
  MaxReviewAttempts,   \* MAX_REVIEW_ATTEMPTS
  MaxServiceFailures,  \* failed paid calls in a row that stop a run
  MaxTurns,            \* options.maxTurns
  MaxQueries,          \* bound: queries of the session
  MaxRequests,         \* bound: tool requests of the session
  Mishaps,             \* what may go wrong, of the kinds below
  MaxMishaps           \* bound: how often

ASSUME PurchasesAssumption ==
  /\ MaxReviewAttempts \in Nat \ {0} /\ MaxServiceFailures \in Nat \ {0}
  /\ MaxTurns \in Nat \ {0} /\ MaxQueries \in Nat /\ MaxRequests \in Nat
  /\ Mishaps \subseteq {"crash", "disk", "outage", "switch", "network"} /\ MaxMishaps \in Nat

VARIABLES
  query,       \* session.query.id: how many queries began
  pending,     \* session.query.pending: a spending approval waits
  unfinished,  \* query-checkpoint.json exists
  ckpt,        \* the LoopCheckpoint in it
  loop,        \* the loop's memory
  pc,          \* where the run stands
  answer,      \* how the service answered the call being booked
  purchases,   \* purchases.jsonl, folded
  enabled,     \* CrowdCode's preference for this session
  charged,     \* purchases finalized with a charge
  outcome,     \* how the last run ended
  tried,       \* history: times the current call was sent
  cut,         \* history: times it was sent and lost before its result was saved
  switched,    \* history: another session changed the preference
  left,        \* mishaps that may still happen
  requests     \* tool requests so far

run     == <<loop, pc, outcome>>
disk    == <<query, pending, unfinished, ckpt>>
books   == <<purchases, charged>>
history == <<tried, cut>>
bounds  == <<switched, left, requests>>
vars    == <<run, disk, answer, books, enabled, history, bounds>>

\* "paid_unverified": the hosted gateway settled the call on a network whose
\* receipts CrowdCode does not verify (railUsed is not one of VERIFIED_RAILS).
Reviewable == {"paid_success", "paid_failure"}
Charging   == Reviewable \cup {"paid_unverified", "unknown"}
Answers    == Charging \cup {"free"}
ToolNames == {"call_paid_service", "review_paid_service",
              "set_crowdcode_enabled", "complete_session"}
Tool      == [name : ToolNames \cup {"none"}, purchase : Nat, on : BOOLEAN]
NoTool    == [name |-> "none", purchase |-> 0, on |-> FALSE]
Results   == {"none", "ok", "error"}
Loop      == [turn : 0..MaxTurns, tool : Tool, result : Results,
              nudges : 0..1, asked : BOOLEAN, held : BOOLEAN,
              failures : 0..(MaxServiceFailures - 1), failed : SUBSET ToolNames]
FreshLoop == [turn |-> 0, tool |-> NoTool, result |-> "none", nudges |-> 0,
              asked |-> FALSE, held |-> FALSE, failures |-> 0, failed |-> {}]
Purchase  == [query : Nat, turn : Nat, outcome : Answers, required : BOOLEAN,
              status : {"not_required", "pending", "submitted"}, attempts : Nat]
Clearing  == {"reserve", "book"}
PCs       == Clearing \cup {"idle", "think", "tool", "finalize", "skip",
                            "result", "settle"}
Outcomes  == {"none", "completed", "stopped", "max_turns", "waiting", "failed"}

(***************************************************************************)
(* What the store says.                                                    *)
(***************************************************************************)
\* pendingRequiredReviews
Due ==
  {i \in DOMAIN purchases :
     /\ purchases[i].status = "pending"
     /\ purchases[i].attempts < MaxReviewAttempts
     /\ purchases[i].query = query}

IgnoresThisTurn ==
  enabled /\ \E i \in Due : purchases[i].turn # loop.turn
FailedNeedNone ==
  enabled /\ \E i \in Due : purchases[i].outcome = "paid_success"
ReviewBlocks == enabled /\ Due # {}

RequiresWhenOff ==
  [query |-> query, turn |-> loop.turn, outcome |-> answer,
   required |-> answer \in Reviewable,
   status |-> IF answer \in Reviewable THEN "pending" ELSE "not_required", attempts |-> 0]
NewPurchase ==
  LET required == answer \in Reviewable /\ enabled IN
  [query |-> query, turn |-> loop.turn, outcome |-> answer, required |-> required,
   status |-> IF required THEN "pending" ELSE "not_required", attempts |-> 0]

RejectedTimes(p, permanent) ==
  IF permanent THEN MaxReviewAttempts ELSE p.attempts + 1

-----------------------------------------------------------------------------
(***************************************************************************)
(* How a run starts and ends.                                              *)
(***************************************************************************)
Begin(l, where) ==
  /\ loop' = l
  /\ pc' = where
  /\ outcome' = "none"

\* The run returns: its checkpoint is removed.
Finish(how) ==
  /\ loop' = FreshLoop
  /\ pc' = "idle"
  /\ outcome' = how
  /\ unfinished' = FALSE
  /\ ckpt' = FreshLoop
  /\ tried' = 0 /\ cut' = 0

\* Nothing is left to execute: no tool was asked for, or its result is known.
Answered(l) == l.tool = NoTool \/ l.result # "none"

\* The call was sent, and the checkpoint that remains does not know its result.
Loses(c) == IF tried > cut /\ ~Answered(c) THEN cut + 1 ELSE cut

\* The run throws or waits: its checkpoint stays.
Leave(how) ==
  /\ loop' = FreshLoop
  /\ pc' = "idle"
  /\ outcome' = how
  /\ UNCHANGED <<unfinished, ckpt, history>>

Mishap(kind) ==
  /\ kind \in Mishaps /\ left > 0
  /\ left' = left - 1
  /\ switched' = (switched \/ kind = "switch")
  /\ UNCHANGED requests

\* A held answer is delivered whatever keeps its housekeeping from finishing.
DeliverHeld == loop.held /\ Finish("completed")
StopRun     == ~loop.held /\ Finish("stopped")

StartTask ==
  /\ pc = "idle" /\ ~unfinished /\ ~pending /\ query < MaxQueries
  /\ query' = query + 1
  /\ unfinished' = TRUE
  /\ ckpt' = FreshLoop
  /\ Begin(FreshLoop, "think")
  /\ UNCHANGED <<pending, answer, books, enabled, history, bounds>>

Resume ==
  /\ pc = "idle" /\ unfinished /\ ~pending
  /\ Begin(ckpt, IF ckpt.tool = NoTool THEN "think"
                 ELSE IF ckpt.result = "none" THEN "tool" ELSE "settle")
  /\ UNCHANGED <<disk, answer, books, enabled, history, bounds>>

ApprovePending ==
  /\ pc = "idle" /\ pending
  /\ pending' = FALSE
  /\ UNCHANGED <<run, query, unfinished, ckpt, answer, books, enabled, history, bounds>>

DeclinePending ==
  /\ pc = "idle" /\ pending
  /\ pending' = FALSE
  /\ Finish("stopped")
  /\ UNCHANGED <<query, answer, books, enabled, bounds>>

-----------------------------------------------------------------------------
(***************************************************************************)
(* A turn: the model answers with a tool request, which is checkpointed.   *)
(***************************************************************************)
NextTurn(l) == [l EXCEPT !.turn = @ + 1, !.tool = NoTool, !.result = "none"]

Requests ==
  {[NoTool EXCEPT !.name = n] : n \in {"call_paid_service", "complete_session"}}
  \cup [name : {"review_paid_service"}, purchase : DOMAIN purchases, on : {FALSE}]
  \cup [name : {"set_crowdcode_enabled"}, purchase : {0}, on : BOOLEAN]

Respond ==
  /\ pc = "think" /\ loop.turn < MaxTurns /\ requests < MaxRequests
  /\ \E t \in Requests : loop' = [loop EXCEPT !.tool = t]
  /\ ckpt' = loop'
  /\ pc' = "tool"
  /\ tried' = 0 /\ cut' = 0
  /\ requests' = requests + 1
  /\ UNCHANGED <<query, pending, unfinished, outcome, answer, books, enabled,
                 switched, left>>

ModelFails ==
  /\ pc = "think" /\ loop.turn < MaxTurns
  /\ DeliverHeld \/ (~loop.held /\ Leave("failed"))
  /\ UNCHANGED <<query, pending, answer, books, enabled, bounds>>

\* The reply, or the checkpoint with its request, cannot be written: the run
\* throws, whatever answer it holds.
ReplyUnsaved ==
  /\ pc = "think" /\ loop.turn < MaxTurns /\ Mishap("disk")
  /\ Leave("failed")
  /\ UNCHANGED <<query, pending, answer, books, enabled>>

OutOfTurns ==
  /\ pc = "think" /\ loop.turn = MaxTurns
  /\ DeliverHeld \/ (~loop.held /\ Finish("max_turns"))
  /\ UNCHANGED <<query, pending, answer, books, enabled, bounds>>

\* reserveBudget asks about a model call or a paid call and nobody can answer.
AskingPrice == (pc = "think" /\ loop.turn < MaxTurns) \/ pc = "reserve"
Pause ==
  /\ AskingPrice
  /\ pending' = TRUE
  /\ DeliverHeld \/ (~loop.held /\ Leave("waiting"))
  /\ UNCHANGED <<query, answer, books, enabled, bounds>>

Declined ==
  /\ AskingPrice
  /\ DeliverHeld \/ StopRun
  /\ UNCHANGED <<query, pending, answer, books, enabled, bounds>>

-----------------------------------------------------------------------------
(***************************************************************************)
(* The tools.  Return hands a result to the loop, which has not saved it.  *)
(***************************************************************************)
Calling(name) == pc = "tool" /\ loop.tool.name = name

Return(r) ==
  /\ loop' = [loop EXCEPT !.result = r]
  /\ pc' = "result"
  /\ UNCHANGED outcome

\* Refused by a mode, the review gate, a rule, the quote, CrowdCode or a human.
CallRefused ==
  /\ Calling("call_paid_service")
  /\ Return("error")
  /\ UNCHANGED <<disk, answer, books, enabled, history, bounds>>

\* A saved follow-up token answered the same request for free.
FollowUpRead ==
  /\ Calling("call_paid_service") /\ ~ReviewBlocks
  /\ \E i \in DOMAIN purchases :
       purchases[i].outcome \in {"paid_success", "paid_unverified"}
  /\ Return("ok")
  /\ UNCHANGED <<disk, answer, books, enabled, history, bounds>>

CallCleared ==
  /\ Calling("call_paid_service") /\ ~ReviewBlocks
  /\ pc' = "reserve"
  /\ UNCHANGED <<loop, outcome, disk, answer, books, enabled, history, bounds>>

\* reserveBudget lets the call through (Budget.tla), and the service is called.
Fetch ==
  /\ pc = "reserve"
  /\ \/ answer' \in Answers \ {"paid_unverified"} /\ UNCHANGED bounds
     \/ answer' = "paid_unverified" /\ Mishap("network")
  /\ tried' = tried + 1
  /\ pc' = "book"
  /\ UNCHANGED <<loop, outcome, disk, books, enabled, cut>>

FetchThrows ==
  /\ pc = "reserve"
  /\ tried' = tried + 1
  /\ Return("error")
  /\ UNCHANGED <<disk, answer, books, enabled, cut, bounds>>

RecordsReceiptsOnly ==
  /\ pc = "book"
  /\ purchases' = IF answer = "unknown" THEN purchases
                  ELSE Append(purchases, NewPurchase)
  /\ pc' = "finalize"
  /\ UNCHANGED <<loop, outcome, disk, answer, charged, enabled, history, bounds>>
RecordPurchase ==
  /\ pc = "book"
  /\ purchases' = Append(purchases, NewPurchase)
  /\ pc' = "finalize"
  /\ UNCHANGED <<loop, outcome, disk, answer, charged, enabled, history, bounds>>

\* The artifact or the purchase cannot be written.
SaveFails ==
  /\ pc = "book" /\ Mishap("disk")
  /\ Return("error")
  /\ UNCHANGED <<disk, answer, books, enabled, history>>

\* CrowdCode's status is asked for again after a payment, and does not answer.
StatusFails ==
  /\ pc = "book" /\ answer \in Reviewable /\ Mishap("outage")
  /\ Return("error")
  /\ UNCHANGED <<disk, answer, books, enabled, history>>

Finalize ==
  /\ pc = "finalize"
  /\ charged' = IF answer \in Charging THEN charged + 1 ELSE charged
  /\ \/ answer \in {"free", "paid_success", "paid_unverified"} /\ Return("ok") /\ UNCHANGED bounds
     \/ answer # "paid_success" /\ Return("error") /\ UNCHANGED bounds
     \/ Mishap("disk") /\ Return("error")
  /\ UNCHANGED <<disk, answer, purchases, enabled, history>>

ReviewRefused ==
  /\ Calling("review_paid_service")
  /\ Return("error")
  /\ UNCHANGED <<disk, answer, books, enabled, history, bounds>>

CanReview ==
  /\ Calling("review_paid_service") /\ enabled
  /\ purchases[loop.tool.purchase].status # "submitted"

ReviewSubmitted ==
  /\ CanReview
  /\ purchases' = [purchases EXCEPT ![loop.tool.purchase].status = "submitted"]
  /\ Return("ok")
  /\ UNCHANGED <<disk, answer, charged, enabled, history, bounds>>

ReviewRejected ==
  /\ CanReview
  /\ \E permanent \in BOOLEAN :
       purchases' = [purchases EXCEPT ![loop.tool.purchase].attempts =
                       RejectedTimes(purchases[loop.tool.purchase], permanent)]
  /\ Return("error")
  /\ UNCHANGED <<disk, answer, charged, enabled, history, bounds>>

SwitchRefused ==
  /\ Calling("set_crowdcode_enabled")
  /\ Return("error")
  /\ UNCHANGED <<disk, answer, books, enabled, history, bounds>>

\* Off also waives the reviews that are due, after the preference is stored.
SwitchPreference ==
  /\ Calling("set_crowdcode_enabled")
  /\ enabled' = loop.tool.on
  /\ \/ loop.tool.on /\ Return("ok")
     \/ ~loop.tool.on /\ pc' = "skip" /\ UNCHANGED <<loop, outcome>>
  /\ UNCHANGED <<disk, answer, books, history, bounds>>

SkipReview ==
  /\ pc = "skip"
  /\ \E i \in Due : purchases' = [purchases EXCEPT ![i].status = "not_required"]
  /\ UNCHANGED <<run, disk, answer, charged, enabled, history, bounds>>

SkipDone ==
  /\ pc = "skip"
  /\ \/ Due = {} /\ Return("ok") /\ UNCHANGED bounds
     \/ Mishap("disk") /\ Return("error")
  /\ UNCHANGED <<disk, answer, books, enabled, history>>

CompleteSession ==
  /\ Calling("complete_session")
  /\ \E r \in {"ok", "error"} : Return(r)
  /\ UNCHANGED <<disk, answer, books, enabled, history, bounds>>

-----------------------------------------------------------------------------
(***************************************************************************)
(* The loop takes a result.                                                *)
(***************************************************************************)
SavesNothing ==
  /\ pc = "result"
  /\ pc' = "settle"
  /\ answer' = "free"
  /\ UNCHANGED <<loop, outcome, disk, books, enabled, history, bounds>>
SaveResult ==
  /\ pc = "result"
  /\ ckpt' = loop
  /\ pc' = "settle"
  /\ answer' = "free"
  /\ UNCHANGED <<loop, outcome, query, pending, unfinished, books, enabled, history, bounds>>

\* The checkpoint with the result cannot be written, or the message after it:
\* the run throws, whatever answer it holds.
ResultUnsaved ==
  /\ pc = "result" /\ Mishap("disk")
  /\ ckpt' \in {ckpt, loop}
  /\ cut' = Loses(ckpt')
  /\ loop' = FreshLoop
  /\ pc' = "idle"
  /\ outcome' = "failed"
  /\ answer' = "free"
  /\ UNCHANGED <<query, pending, unfinished, books, enabled, tried>>

GoOn(l) ==
  /\ loop' = l
  /\ pc' = "think"
  /\ UNCHANGED <<outcome, unfinished, history>>

Settling(r) == pc = "settle" /\ loop.result = r
IsCall      == loop.tool.name = "call_paid_service"
Failures    == IF IsCall THEN loop.failures + 1 ELSE loop.failures

ToolDone ==
  /\ Settling("ok") /\ loop.tool.name # "complete_session"
  /\ GoOn(NextTurn([loop EXCEPT !.failures = IF IsCall THEN 0 ELSE @]))
  /\ UNCHANGED <<query, pending, ckpt, answer, books, enabled, bounds>>

ToolFailed ==
  /\ Settling("error") /\ Failures < MaxServiceFailures
  /\ GoOn(NextTurn([loop EXCEPT !.failures = Failures,
                                !.failed = @ \cup {loop.tool.name}]))
  /\ UNCHANGED <<query, pending, ckpt, answer, books, enabled, bounds>>

\* Three failed paid calls in a row, or the same failure a second time.
GiveUp ==
  /\ Settling("error")
  /\ Failures = MaxServiceFailures \/ loop.tool.name \in loop.failed
  /\ DeliverHeld \/ StopRun
  /\ UNCHANGED <<query, pending, answer, books, enabled, bounds>>

(***************************************************************************)
(* The completion gate.  The model's closing message is the answer, a      *)
(* placeholder, or none.  The gate asks once for the reviews that are due  *)
(* and for a reflection; a second block ends the run.                      *)
(***************************************************************************)
Completing == Settling("ok") /\ loop.tool.name = "complete_session"

Blocked(reflect) == ReviewBlocks \/ (reflect /\ loop.nudges = 0 /\ enabled)
Unanswered(reply) == ~loop.asked /\ ~loop.held /\ reply = "placeholder"
Holds(reply) == loop.held \/ reply = "answer"

Nudge(reply, reflect) ==
  /\ Completing
  /\ ~(Blocked(reflect) /\ loop.nudges = 1)
  /\ Blocked(reflect) \/ Unanswered(reply)
  /\ GoOn(NextTurn([loop EXCEPT !.nudges = IF Blocked(reflect) THEN 1 ELSE @,
                                !.asked = @ \/ Unanswered(reply),
                                !.held = Holds(reply)]))
  /\ ckpt' = loop'
  /\ UNCHANGED <<query, pending, answer, books, enabled, bounds>>

StillBlocked(reply) ==
  /\ Completing /\ Blocked(FALSE) /\ loop.nudges = 1
  /\ Finish(IF Holds(reply) THEN "completed" ELSE "stopped")
  /\ UNCHANGED <<query, pending, answer, books, enabled, bounds>>

Complete(reply, reflect) ==
  /\ Completing /\ ~Blocked(reflect) /\ ~Unanswered(reply)
  /\ \/ (reply # "none" \/ loop.held) /\ Finish("completed")
     \/ reply = "none" /\ ~loop.held /\ Leave("failed")
  /\ UNCHANGED <<query, pending, answer, books, enabled, bounds>>

\* CrowdCode's status is unavailable to the gate, or its nudge cannot be
\* written: the run throws, whatever answer it holds.
GateFails ==
  /\ Completing
  /\ Mishap("outage") \/ Mishap("disk")
  /\ Leave("failed")
  /\ UNCHANGED <<query, pending, answer, books, enabled>>

CompletionGate ==
  \/ \E reply \in {"answer", "placeholder", "none"}, reflect \in BOOLEAN :
       Nudge(reply, reflect) \/ Complete(reply, reflect)
  \/ \E reply \in {"answer", "placeholder", "none"} : StillBlocked(reply)

-----------------------------------------------------------------------------
(***************************************************************************)
(* The environment.                                                        *)
(***************************************************************************)
Crash ==
  /\ pc # "idle" /\ Mishap("crash")
  /\ loop' = FreshLoop
  /\ pc' = "idle"
  /\ outcome' = "none"
  /\ answer' = "free"
  /\ cut' = Loses(ckpt)
  /\ UNCHANGED <<disk, books, enabled, tried>>

\* Another session changes the preference that is this one's default.
PreferenceSwitched ==
  /\ Mishap("switch")
  /\ enabled' = ~enabled
  /\ UNCHANGED <<run, disk, answer, books, history>>

-----------------------------------------------------------------------------
Init ==
  /\ query = 0 /\ pending = FALSE /\ unfinished = FALSE
  /\ ckpt = FreshLoop /\ loop = FreshLoop
  /\ pc = "idle" /\ outcome = "none" /\ answer = "free"
  /\ purchases = <<>> /\ charged = 0
  /\ enabled = TRUE
  /\ tried = 0 /\ cut = 0
  /\ switched = FALSE /\ left = MaxMishaps /\ requests = 0

User  == StartTask \/ Resume \/ ApprovePending \/ DeclinePending
Model == Respond \/ ModelFails \/ ReplyUnsaved \/ OutOfTurns \/ Pause \/ Declined
Buy   == \/ CallRefused \/ FollowUpRead \/ CallCleared \/ Fetch
         \/ FetchThrows \/ RecordPurchase \/ SaveFails \/ StatusFails \/ Finalize
Manage == \/ ReviewRefused \/ ReviewSubmitted \/ ReviewRejected \/ SwitchRefused
          \/ SwitchPreference \/ SkipReview \/ SkipDone \/ CompleteSession
Take  == \/ SaveResult \/ ResultUnsaved \/ ToolDone \/ ToolFailed \/ GiveUp
         \/ CompletionGate \/ GateFails
Step  == Model \/ Buy \/ Manage \/ Take
Next  == User \/ Step \/ Crash \/ PreferenceSwitched
Spec  == Init /\ [][Next]_vars

-----------------------------------------------------------------------------
(***************************************************************************)
(* Properties.                                                             *)
(***************************************************************************)
\* Every variable stays in its type.
TypeOK ==
  /\ query \in 0..MaxQueries /\ charged \in Nat
  /\ pending \in BOOLEAN /\ unfinished \in BOOLEAN /\ enabled \in BOOLEAN
  /\ ckpt \in Loop /\ loop \in Loop
  /\ pc \in PCs /\ outcome \in Outcomes /\ answer \in Answers
  /\ purchases \in Seq(Purchase)
  /\ tried \in Nat /\ cut \in Nat
  /\ switched \in BOOLEAN /\ left \in Nat /\ requests \in Nat

\* The lifecycle keeps the promise of ReviewGate, however crashes, resumed
\* calls and changes of the preference fall: callPaidService (gateway.ts)
\* records a purchase that needs a review only after its own check passed.
Gate == INSTANCE ReviewGate
          WITH due <- Due, on <- enabled, cleared <- pc \in Clearing
ImplementsReviewGate == Gate!Spec

\* Nobody else changed the preference of this session.
Quiet == ~switched

\* Two reviews are never due at once in a query (gateway.ts:318-325): with
\* the agent's own switching, crashes and resumed calls included.
OneReviewDue == Quiet => \A i, j \in Due : i = j

SameCall(i, j) == /\ purchases[i].query = purchases[j].query
                  /\ purchases[i].turn = purchases[j].turn

\* A resumed call leaves no second reviewable receipt: what the interrupted
\* execution recorded makes the gate refuse the repetition (runtime.ts
\* replays a call without a saved result, gateway.ts reads the store first).
OneReceiptPerCall ==
  Quiet => \A i, j \in DOMAIN purchases :
    (purchases[i].required /\ purchases[j].required /\ SameCall(i, j)) => i = j

\* A call is sent again only because it was sent and then lost before its
\* result was in query-checkpoint.json: by a crash, or because that checkpoint
\* could not be written (index.ts:1259-1263, runtime.ts:158-162).  Waits for
\* approval, failed bookings, outages and thrown errors never repeat a payment.
RepeatedOnlyAfterLoss == tried <= 1 + cut

\* A purchase finalized with a charge is in purchases.jsonl, at any crash or
\* failed write: gateway.ts appends the record before it finalizes.
ChargedIsRecorded ==
  charged <= Cardinality({i \in DOMAIN purchases : purchases[i].outcome \in Charging})

(***************************************************************************)
(* What the documents say, and the code does not do.                       *)
(***************************************************************************)
Sending == tried' > tried

\* docs/architecture.md:322: an ambiguous call recorded unknown is not retried.
UnknownNeverRetried ==
  [][Sending => \A i \in DOMAIN purchases :
       (purchases[i].query = query /\ purchases[i].turn = loop.turn)
          => purchases[i].outcome # "unknown"]_vars

\* A run that threw never repeats what it has sent: a disk that cannot take
\* the result makes `resume` pay for the call again, without any crash.
FailedRepeatsNothing ==
  (pc = "idle" /\ unfinished /\ outcome = "failed") => (tried = 0 \/ Answered(ckpt))

\* docs/architecture.md:321: a confirmed payment leaves a receipt, when the
\* call has returned to the loop.
ConfirmedIsRecorded ==
  (pc = "result" /\ answer \in Charging \ {"unknown"}) =>
    \E i \in DOMAIN purchases :
      purchases[i].query = query /\ purchases[i].turn = loop.turn

\* docs/architecture.md:323-324: completion is blocked while a review is due.
CompletionWaitsForReview ==
  [][(outcome # "completed" /\ outcome' = "completed") => ~ReviewBlocks]_vars
=============================================================================
