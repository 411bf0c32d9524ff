---------------------------- MODULE PurchasesProof ----------------------------
(***************************************************************************)
(* Proofs about Purchases, for any number of turns, queries, attempts and  *)
(* mishaps: the types; a call is sent again only after its result was lost *)
(* in a crash or a failed write; the lifecycle implements ReviewGate.tla,  *)
(* and with nobody else switching the preference never two reviews are due *)
(* in a query; purchases.jsonl holds every charge that was finalized, and  *)
(* one reviewable receipt for each call, however often it is executed.     *)
(***************************************************************************)
EXTENDS Purchases, FiniteSetTheorems, TLAPS

-----------------------------------------------------------------------------
(***************************************************************************)
(* Types.  Two facts make TypeOK inductive: a tool is only requested in a  *)
(* turn below the limit, and a review names a purchase that exists.        *)
(***************************************************************************)
Requested(l) == l.turn < MaxTurns /\ l.tool.name \in ToolNames
TurnsInRange ==
  /\ pc \notin {"idle", "think"} => Requested(loop)
  /\ ckpt.tool # NoTool => Requested(ckpt)

NamesARecord(t) == t.name = "review_paid_service" => t.purchase \in DOMAIN purchases
ReviewsNameARecord == NamesARecord(loop.tool) /\ NamesARecord(ckpt.tool)

Typed == TypeOK /\ TurnsInRange /\ ReviewsNameARecord

\* The fields of the loop's memory, and the notes it updates one at a time.
LEMMA LoopFields ==
  ASSUME loop \in Loop
  PROVE  /\ loop.failures \in Nat /\ loop.failures \in 0..(MaxServiceFailures - 1)
         /\ loop.failed \in SUBSET ToolNames
         /\ loop.turn \in 0..MaxTurns /\ loop.tool \in Tool
         /\ loop.nudges \in 0..1 /\ loop.asked \in BOOLEAN /\ loop.held \in BOOLEAN
  BY PurchasesAssumption DEF Loop

LEMMA LoopNotes ==
  ASSUME loop \in Loop
  PROVE  /\ \A n \in 0..(MaxServiceFailures - 1), f \in SUBSET ToolNames :
              [loop EXCEPT !.failures = n, !.failed = f] \in Loop
         /\ \A n \in 0..(MaxServiceFailures - 1) : [loop EXCEPT !.failures = n] \in Loop
         /\ \A n \in 0..1, a \in BOOLEAN, h \in BOOLEAN :
              [loop EXCEPT !.nudges = n, !.asked = a, !.held = h] \in Loop
<1>1. ASSUME NEW n \in 0..(MaxServiceFailures - 1), NEW f \in SUBSET ToolNames
      PROVE  [loop EXCEPT !.failures = n, !.failed = f] \in Loop
  BY DEF Loop
<1>2. ASSUME NEW n \in 0..(MaxServiceFailures - 1)
      PROVE  [loop EXCEPT !.failures = n] \in Loop
  BY DEF Loop
<1>3. ASSUME NEW n \in 0..1, NEW a \in BOOLEAN, NEW h \in BOOLEAN
      PROVE  [loop EXCEPT !.nudges = n, !.asked = a, !.held = h] \in Loop
  BY DEF Loop
<1>4. QED BY <1>1, <1>2, <1>3

LEMMA FreshIsLoop == FreshLoop \in Loop /\ FreshLoop.tool = NoTool
  BY PurchasesAssumption DEF FreshLoop, Loop, Tool, NoTool, Results

LEMMA NextTurnIsLoop ==
  ASSUME NEW l \in Loop, l.turn < MaxTurns
  PROVE  /\ NextTurn(l) \in Loop
         /\ NextTurn(l).tool = NoTool
         /\ NextTurn(l).turn = l.turn + 1
<1>1. NoTool \in Tool /\ "none" \in Results
  BY DEF NoTool, Tool, Results
<1>2. l.turn + 1 \in 0..MaxTurns
  BY PurchasesAssumption DEF Loop
<1> HIDE DEF NoTool, Tool, Results
<1>3. QED BY <1>1, <1>2 DEF NextTurn, Loop

LEMMA NewPurchaseIsPurchase ==
  ASSUME TypeOK
  PROVE  NewPurchase \in Purchase
  BY PurchasesAssumption DEF TypeOK, NewPurchase, Purchase, Loop, Answers, Reviewable, Charging

\* A record of the store is replaced: the store keeps its length.
LEMMA Replaced ==
  ASSUME NEW s \in Seq(Purchase), NEW k \in DOMAIN s, NEW p \in Purchase
  PROVE  LET t == [s EXCEPT ![k] = p] IN
         /\ t \in Seq(Purchase)
         /\ DOMAIN t = DOMAIN s
         /\ t[k] = p
         /\ \A i \in DOMAIN s : i # k => t[i] = s[i]
  OBVIOUS

LEMMA RecordFields ==
  ASSUME purchases \in Seq(Purchase), NEW k \in DOMAIN purchases
  PROVE  /\ purchases[k] \in Purchase
         /\ purchases[k].query \in Nat /\ purchases[k].turn \in Nat
         /\ purchases[k].attempts \in Nat /\ purchases[k].required \in BOOLEAN
<1>1. purchases[k] \in Purchase
  OBVIOUS
<1>2. QED BY <1>1 DEF Purchase

\* The two ways in which a record of the store changes.
LEMMA Marked ==
  ASSUME purchases \in Seq(Purchase), NEW k \in DOMAIN purchases
  PROVE  /\ \A st \in {"not_required", "pending", "submitted"} :
              [purchases[k] EXCEPT !.status = st] \in Purchase
         /\ \A n \in Nat : [purchases[k] EXCEPT !.attempts = n] \in Purchase
<1>1. purchases[k] \in Purchase
  OBVIOUS
<1>2. QED BY <1>1 DEF Purchase

LEMMA TypedInit == Init => Typed
<1> SUFFICES ASSUME Init PROVE Typed
  OBVIOUS
<1>1. TypeOK
  <2>1. ckpt \in Loop /\ loop \in Loop BY FreshIsLoop DEF Init
  <2>2. purchases \in Seq(Purchase) BY DEF Init
  <2>3. left \in Nat /\ query \in 0..MaxQueries BY PurchasesAssumption DEF Init
  <2>4. QED BY <2>1, <2>2, <2>3 DEF Init, TypeOK, PCs, Clearing, Outcomes, Answers, Charging, Reviewable
<1>2. TurnsInRange /\ ReviewsNameARecord
  BY FreshIsLoop DEF Init, TurnsInRange, Requested, ReviewsNameARecord, NamesARecord, NoTool
<1>3. QED BY <1>1, <1>2 DEF Typed

\* A step that ends a run, whatever the reason.
LEMMA EndTyped ==
  ASSUME Typed, NEW how \in Outcomes, Finish(how) \/ Leave(how),
         pending' \in BOOLEAN, left' \in Nat, switched' \in BOOLEAN,
         UNCHANGED <<query, answer, purchases, charged, enabled, requests>>
  PROVE  Typed'
<1>1. /\ loop' \in Loop /\ loop'.tool = NoTool /\ pc' = "idle" /\ outcome' = how
      /\ tried' \in Nat /\ cut' \in Nat /\ unfinished' \in BOOLEAN
      /\ ckpt' \in Loop /\ (ckpt'.tool = NoTool \/ ckpt' = ckpt)
  <2>1. CASE Finish(how) BY <2>1, FreshIsLoop DEF Finish
  <2>2. CASE Leave(how) BY <2>2, FreshIsLoop DEF Leave, history, Typed, TypeOK
  <2>3. QED BY <2>1, <2>2
<1>2. TypeOK'
  BY <1>1 DEF Typed, TypeOK, PCs
<1>3. TurnsInRange'
  BY <1>1 DEF Typed, TurnsInRange, Requested
<1>4. ReviewsNameARecord'
  BY <1>1 DEF Typed, ReviewsNameARecord, NamesARecord, NoTool
<1>5. QED BY <1>2, <1>3, <1>4 DEF Typed

\* A step after which the loop asks the model again.
LEMMA GoOnTyped ==
  ASSUME Typed, loop.turn < MaxTurns, NEW l \in Loop, l.turn = loop.turn,
         GoOn(NextTurn(l)), ckpt' = ckpt \/ ckpt' = loop',
         UNCHANGED <<query, pending, answer, books, enabled, bounds>>
  PROVE  Typed'
<1>1. loop' \in Loop /\ loop'.tool = NoTool /\ pc' = "think"
  BY NextTurnIsLoop DEF GoOn
<1>2. UNCHANGED <<outcome, unfinished, tried, cut>>
  BY DEF GoOn, history
<1>3. TypeOK'
  BY <1>1, <1>2 DEF Typed, TypeOK, PCs, books, bounds
<1>4. TurnsInRange'
  BY <1>1 DEF Typed, TurnsInRange, Requested
<1>5. ReviewsNameARecord'
  BY <1>1 DEF Typed, ReviewsNameARecord, NamesARecord, NoTool, books
<1>6. QED BY <1>3, <1>4, <1>5 DEF Typed

LEMMA TypedUser ==
  ASSUME Typed, User
  PROVE  Typed'
<1> USE FreshIsLoop, PurchasesAssumption
    DEF Typed, TypeOK, TurnsInRange, Requested, ReviewsNameARecord, NamesARecord, PCs,
        Clearing, Outcomes, run, disk, books, history, bounds
<1>1. CASE StartTask
  BY <1>1 DEF StartTask, Begin, NoTool
<1>2. CASE Resume
  BY <1>2 DEF Resume, Begin
<1>3. CASE ApprovePending
  BY <1>3 DEF ApprovePending
<1>4. CASE DeclinePending
  BY <1>4, EndTyped DEF DeclinePending
<1>5. QED BY <1>1, <1>2, <1>3, <1>4 DEF User

LEMMA TypedModel ==
  ASSUME Typed, Model
  PROVE  Typed'
<1> USE FreshIsLoop, PurchasesAssumption
    DEF Typed, TypeOK, TurnsInRange, Requested, ReviewsNameARecord, NamesARecord, PCs,
        Clearing, Outcomes, disk, books, history, bounds
<1>1. CASE Respond
  <2>1. PICK t \in Requests : loop' = [loop EXCEPT !.tool = t]
    BY <1>1 DEF Respond
  <2>2. t \in Tool /\ t.name \in ToolNames /\ NamesARecord(t)
    <3>1. DOMAIN purchases \subseteq Nat OBVIOUS
    <3>2. CASE t \in {[NoTool EXCEPT !.name = n] :
                         n \in {"call_paid_service", "complete_session"}}
      <4>1. PICK n \in {"call_paid_service", "complete_session"} : t = [NoTool EXCEPT !.name = n]
        BY <3>2
      <4>2. QED BY <4>1 DEF Tool, NoTool, ToolNames
    <3>3. CASE t \in [name : {"review_paid_service"}, purchase : DOMAIN purchases, on : {FALSE}]
      BY <3>1, <3>3 DEF Tool, ToolNames
    <3>4. CASE t \in [name : {"set_crowdcode_enabled"}, purchase : {0}, on : BOOLEAN]
      BY <3>4 DEF Tool, ToolNames
    <3>5. QED BY <3>2, <3>3, <3>4 DEF Requests
  <2>3. loop' \in Loop /\ loop'.tool = t /\ loop'.turn = loop.turn
    BY <2>1, <2>2 DEF Loop
  <2>4. QED BY <1>1, <2>2, <2>3 DEF Respond
<1>2. CASE ModelFails
  BY <1>2, EndTyped DEF ModelFails, DeliverHeld
<1>3. CASE OutOfTurns
  BY <1>3, EndTyped DEF OutOfTurns, DeliverHeld
<1>4. CASE Pause
  BY <1>4, EndTyped DEF Pause, DeliverHeld
<1>5. CASE Declined
  BY <1>5, EndTyped DEF Declined, DeliverHeld, StopRun
<1>6. CASE ReplyUnsaved
  BY <1>6, EndTyped DEF ReplyUnsaved, Mishap
<1>7. QED BY <1>1, <1>2, <1>3, <1>4, <1>5, <1>6 DEF Model

\* A tool's result keeps the turn and the tool.
LEMMA ReturnKeeps ==
  ASSUME loop \in Loop, NEW r \in Results, Return(r)
  PROVE  /\ loop' \in Loop /\ loop'.turn = loop.turn /\ loop'.tool = loop.tool
         /\ loop'.result = r /\ pc' = "result" /\ outcome' = outcome
  BY DEF Return, Loop

LEMMA TypedBuy ==
  ASSUME Typed, Buy
  PROVE  Typed'
<1> USE PurchasesAssumption
    DEF Typed, TypeOK, TurnsInRange, Requested, ReviewsNameARecord, NamesARecord, PCs,
        Clearing, disk, books, history, bounds
<1>0. "ok" \in Results /\ "error" \in Results BY DEF Results
<1>1. CASE CallRefused
  BY <1>0, <1>1, ReturnKeeps DEF CallRefused, Calling
<1>2. CASE FollowUpRead
  BY <1>0, <1>2, ReturnKeeps DEF FollowUpRead, Calling
<1>3. CASE CallCleared
  BY <1>3 DEF CallCleared, Calling
<1>4. CASE Fetch
  BY <1>4 DEF Fetch, Mishap, Answers, Charging
<1>5. CASE FetchThrows
  BY <1>0, <1>5, ReturnKeeps DEF FetchThrows
<1>6. CASE RecordPurchase
  BY <1>6, NewPurchaseIsPurchase DEF RecordPurchase
<1>7. CASE SaveFails
  BY <1>0, <1>7, ReturnKeeps DEF SaveFails, Mishap
<1>8. CASE StatusFails
  BY <1>0, <1>8, ReturnKeeps DEF StatusFails, Mishap
<1>9. CASE Finalize
  <2>1. charged' \in Nat BY <1>9 DEF Finalize
  <2>2. Return("ok") \/ Return("error") BY <1>9 DEF Finalize
  <2>3. left' \in Nat /\ switched' \in BOOLEAN /\ requests' \in Nat
    BY <1>9 DEF Finalize, Mishap
  <2>4. QED BY <1>0, <1>9, <2>1, <2>2, <2>3, ReturnKeeps DEF Finalize
<1>10. QED BY <1>1, <1>2, <1>3, <1>4, <1>5, <1>6, <1>7, <1>8, <1>9 DEF Buy

LEMMA TypedManage ==
  ASSUME Typed, Manage
  PROVE  Typed'
<1> USE PurchasesAssumption
    DEF Typed, TypeOK, TurnsInRange, Requested, ReviewsNameARecord, NamesARecord, PCs,
        Clearing, run, disk, books, history, bounds
<1>0. "ok" \in Results /\ "error" \in Results BY DEF Results
<1>1. CASE ReviewRefused
  BY <1>0, <1>1, ReturnKeeps DEF ReviewRefused, Calling
<1>2. CASE ReviewSubmitted
  <2>1. loop.tool.purchase \in DOMAIN purchases
    BY <1>2 DEF ReviewSubmitted, CanReview, Calling
  <2>2. [purchases[loop.tool.purchase] EXCEPT !.status = "submitted"] \in Purchase
    BY <2>1, Marked
  <2>3. purchases' \in Seq(Purchase) /\ DOMAIN purchases' = DOMAIN purchases
    BY <1>2, <2>1, <2>2, Replaced DEF ReviewSubmitted
  <2>4. QED BY <1>0, <1>2, <2>3, ReturnKeeps DEF ReviewSubmitted, CanReview, Calling
<1>3. CASE ReviewRejected
  <2>1. loop.tool.purchase \in DOMAIN purchases
    BY <1>3 DEF ReviewRejected, CanReview, Calling
  <2>2. PICK permanent \in BOOLEAN :
          purchases' = [purchases EXCEPT ![loop.tool.purchase].attempts =
                          RejectedTimes(purchases[loop.tool.purchase], permanent)]
    BY <1>3 DEF ReviewRejected
  <2>3. [purchases[loop.tool.purchase] EXCEPT !.attempts =
           RejectedTimes(purchases[loop.tool.purchase], permanent)] \in Purchase
    <3>1. RejectedTimes(purchases[loop.tool.purchase], permanent) \in Nat
      <4>1. MaxReviewAttempts \in Nat /\ purchases[loop.tool.purchase].attempts + 1 \in Nat
        BY <2>1, RecordFields
      <4>2. QED BY <4>1, Zenon DEF RejectedTimes
    <3>2. QED BY <2>1, <3>1, Marked
  <2>4. purchases' \in Seq(Purchase) /\ DOMAIN purchases' = DOMAIN purchases
    BY <2>1, <2>2, <2>3, Replaced
  <2>5. QED BY <1>0, <1>3, <2>4, ReturnKeeps DEF ReviewRejected, CanReview, Calling
<1>4. CASE SwitchRefused
  BY <1>0, <1>4, ReturnKeeps DEF SwitchRefused, Calling
<1>5. CASE SwitchPreference
  <2>1. enabled' \in BOOLEAN BY <1>5 DEF SwitchPreference, Loop, Tool
  <2>2. CASE Return("ok")
    BY <1>0, <1>5, <2>1, <2>2, ReturnKeeps DEF SwitchPreference, Calling
  <2>3. CASE pc' = "skip" /\ UNCHANGED <<loop, outcome>>
    BY <1>5, <2>1, <2>3 DEF SwitchPreference, Calling
  <2>4. QED BY <1>5, <2>2, <2>3 DEF SwitchPreference
<1>6. CASE SkipReview
  <2>1. PICK i \in Due : purchases' = [purchases EXCEPT ![i].status = "not_required"]
    BY <1>6 DEF SkipReview
  <2>2. i \in DOMAIN purchases BY DEF Due
  <2>3. [purchases[i] EXCEPT !.status = "not_required"] \in Purchase
    BY <2>2, Marked
  <2>4. purchases' \in Seq(Purchase) /\ DOMAIN purchases' = DOMAIN purchases
    BY <2>1, <2>2, <2>3, Replaced
  <2>5. QED BY <1>6, <2>4 DEF SkipReview
<1>7. CASE SkipDone
  <2>1. Return("ok") \/ Return("error") BY <1>7 DEF SkipDone
  <2>2. left' \in Nat /\ switched' \in BOOLEAN /\ requests' \in Nat
    BY <1>7 DEF SkipDone, Mishap
  <2>3. QED BY <1>0, <1>7, <2>1, <2>2, ReturnKeeps DEF SkipDone
<1>8. CASE CompleteSession
  BY <1>0, <1>8, ReturnKeeps DEF CompleteSession, Calling
<1>9. QED BY <1>1, <1>2, <1>3, <1>4, <1>5, <1>6, <1>7, <1>8 DEF Manage

\* The notes with which the loop goes on to its next turn.
LEMMA GoesOn ==
  ASSUME Typed, ToolDone \/ ToolFailed
  PROVE  \E l \in Loop : l.turn = loop.turn /\ GoOn(NextTurn(l))
<1>0. loop \in Loop BY DEF Typed, TypeOK
<1>1. CASE ToolDone
  <2> DEFINE l == [loop EXCEPT !.failures = IF IsCall THEN 0 ELSE @]
  <2>1. (IF IsCall THEN 0 ELSE loop.failures) \in 0..(MaxServiceFailures - 1)
    <3>1. 0 \in 0..(MaxServiceFailures - 1) BY PurchasesAssumption
    <3>2. QED BY <1>0, <3>1, LoopFields, Zenon
  <2>2. l \in Loop /\ l.turn = loop.turn
    BY <1>0, <2>1, LoopNotes DEF Loop
  <2>3. GoOn(NextTurn(l)) BY <1>1 DEF ToolDone
  <2> HIDE DEF l
  <2>4. QED BY <2>2, <2>3
<1>2. CASE ToolFailed
  <2> DEFINE l == [loop EXCEPT !.failures = Failures,
                               !.failed = @ \cup {loop.tool.name}]
  <2>1. Failures \in 0..(MaxServiceFailures - 1)
    <3>1. Failures < MaxServiceFailures BY <1>2 DEF ToolFailed
    <3>2. Failures \in Nat
      <4>1. loop.failures + 1 \in Nat /\ loop.failures \in Nat BY <1>0, LoopFields
      <4>2. QED BY <4>1, Zenon DEF Failures
    <3>3. QED BY <3>1, <3>2, PurchasesAssumption
  <2>2. loop.failed \cup {loop.tool.name} \in SUBSET ToolNames
    BY <1>0, <1>2, LoopFields DEF ToolFailed, Settling, Typed, TurnsInRange, Requested
  <2>3. l \in Loop /\ l.turn = loop.turn
    BY <1>0, <2>1, <2>2, LoopNotes DEF Loop
  <2>4. GoOn(NextTurn(l)) BY <1>2 DEF ToolFailed
  <2> HIDE DEF l
  <2>5. QED BY <2>3, <2>4
<1>3. QED BY <1>1, <1>2

LEMMA NudgeGoesOn ==
  ASSUME Typed, NEW reply, NEW reflect \in BOOLEAN, Nudge(reply, reflect)
  PROVE  \E l \in Loop : l.turn = loop.turn /\ GoOn(NextTurn(l))
<1> DEFINE l == [loop EXCEPT !.nudges = IF Blocked(reflect) THEN 1 ELSE @,
                             !.asked = @ \/ Unanswered(reply),
                             !.held = Holds(reply)]
<1>0. loop \in Loop BY DEF Typed, TypeOK
<1>1. (loop.asked \/ Unanswered(reply)) \in BOOLEAN /\ Holds(reply) \in BOOLEAN
  BY <1>0, LoopFields DEF Unanswered, Holds
<1>2. (IF Blocked(reflect) THEN 1 ELSE loop.nudges) \in 0..1
  <2>1. 1 \in 0..1 /\ loop.nudges \in 0..1 BY <1>0, LoopFields
  <2>2. QED BY <2>1, Zenon
<1>3. l \in Loop BY <1>0, <1>1, <1>2, LoopNotes
<1>4. l.turn = loop.turn BY <1>0 DEF Loop
<1>5. GoOn(NextTurn(l)) BY DEF Nudge
<1> HIDE DEF l
<1>6. QED BY <1>3, <1>4, <1>5

LEMMA TypedTake ==
  ASSUME Typed, Take
  PROVE  Typed'
<1> USE FreshIsLoop, PurchasesAssumption
    DEF Typed, TypeOK, TurnsInRange, Requested, ReviewsNameARecord, NamesARecord, PCs,
        Clearing, Outcomes, disk, books, history, bounds
<1>0. "free" \in Answers BY DEF Answers
<1>1. CASE SaveResult
  BY <1>0, <1>1 DEF SaveResult
<1>2. CASE ToolDone
  <2>1. PICK l \in Loop : l.turn = loop.turn /\ GoOn(NextTurn(l))
    BY <1>2, GoesOn
  <2>2. QED BY <1>2, <2>1, GoOnTyped DEF ToolDone, Settling
<1>3. CASE ToolFailed
  <2>1. PICK l \in Loop : l.turn = loop.turn /\ GoOn(NextTurn(l))
    BY <1>3, GoesOn
  <2>2. QED BY <1>3, <2>1, GoOnTyped DEF ToolFailed, Settling
<1>4. CASE GiveUp
  BY <1>4, EndTyped DEF GiveUp, DeliverHeld, StopRun
<1>5. CASE CompletionGate
  <2>1. ASSUME NEW reply, NEW reflect \in BOOLEAN, Nudge(reply, reflect) PROVE Typed'
    <3>1. PICK l \in Loop : l.turn = loop.turn /\ GoOn(NextTurn(l))
      BY <2>1, NudgeGoesOn
    <3>2. QED BY <2>1, <3>1, GoOnTyped DEF Nudge, Completing, Settling
  <2>2. ASSUME NEW reply, NEW reflect \in BOOLEAN, Complete(reply, reflect) PROVE Typed'
    BY <2>2, EndTyped DEF Complete
  <2>3. ASSUME NEW reply, StillBlocked(reply) PROVE Typed'
    BY <2>3, EndTyped DEF StillBlocked
  <2>4. QED BY <1>5, <2>1, <2>2, <2>3 DEF CompletionGate
<1>6. CASE GateFails
  BY <1>6, EndTyped DEF GateFails, Mishap
<1>7. CASE ResultUnsaved
  <2>1. ckpt' = ckpt \/ ckpt' = loop
    BY <1>7 DEF ResultUnsaved
  <2>2. cut' \in Nat BY <1>7 DEF ResultUnsaved, Loses
  <2>3. QED BY <1>0, <1>7, <2>1, <2>2 DEF ResultUnsaved, Mishap, NoTool
<1>8. QED BY <1>1, <1>2, <1>3, <1>4, <1>5, <1>6, <1>7 DEF Take

\* Every behaviour keeps every variable in its type, a run in its turns, and
\* a review request on a purchase that exists.
LEMMA TypedNext == Typed /\ [Next]_vars => Typed'
<1> SUFFICES ASSUME Typed, [Next]_vars PROVE Typed'
  OBVIOUS
<1>1. CASE User BY <1>1, TypedUser
<1>2. CASE Step
  BY <1>2, TypedModel, TypedBuy, TypedManage, TypedTake DEF Step
<1>3. CASE Crash
  BY <1>3, FreshIsLoop
  DEF Crash, Loses, Mishap, Typed, TypeOK, TurnsInRange, Requested, ReviewsNameARecord,
      NamesARecord, PCs, Outcomes, Answers, Charging, NoTool, disk, books
<1>4. CASE PreferenceSwitched
  BY <1>4
  DEF PreferenceSwitched, Mishap, Typed, TypeOK, TurnsInRange, Requested,
      ReviewsNameARecord, NamesARecord, run, disk, books, history
<1>5. CASE UNCHANGED vars
  BY <1>5
  DEF vars, run, disk, books, history, bounds, Typed, TypeOK, TurnsInRange, Requested,
      ReviewsNameARecord, NamesARecord
<1>6. QED BY <1>1, <1>2, <1>3, <1>4, <1>5 DEF Next

LEMMA TypedAlways == Spec => []Typed
  BY TypedInit, TypedNext, PTL DEF Spec

\* Every variable of the lifecycle stays in its type, with any number of
\* turns, queries, review attempts and mishaps (gateway.ts, runtime.ts).
THEOREM TypeCorrect == Spec => []TypeOK
<1>1. Typed => TypeOK BY DEF Typed
<1>2. QED BY <1>1, TypedAlways, PTL

-----------------------------------------------------------------------------
(***************************************************************************)
(* Repeated payments.  A call is sent from "reserve"; what was sent since  *)
(* it was last lost is one call at most, and none before that point.       *)
(* Across a crash or a run that throws this survives only because the      *)
(* checkpoint of a call that has its result says so.                       *)
(***************************************************************************)

SentOnce ==
  /\ tried <= 1 + cut
  /\ pc \in {"tool", "reserve"} => tried <= cut
  /\ (pc = "idle" /\ unfinished /\ ~Answered(ckpt)) => tried <= cut
  /\ pc \in {"think", "settle"} => Answered(ckpt)
  /\ pc = "result" => loop.result # "none"

LEMMA SentInit == Init => SentOnce
  BY DEF Init, SentOnce

\* A run that ends was not waiting for the answer of a call.
LEMMA EndSent ==
  ASSUME Typed, SentOnce, pc \notin {"book", "finalize", "result", "skip"}, NEW how,
         Finish(how) \/ (pc # "idle" /\ Leave(how))
  PROVE  SentOnce'
<1> USE DEF Typed, TypeOK, SentOnce
<1>1. CASE Finish(how)
  BY <1>1 DEF Finish
<1>2. CASE pc # "idle" /\ Leave(how)
  <2>1. pc' = "idle" /\ UNCHANGED <<unfinished, ckpt, tried, cut>>
    BY <1>2 DEF Leave, history
  <2>2. Answered(ckpt)' = Answered(ckpt)
    BY <2>1 DEF Answered
  <2>3. Answered(ckpt) \/ tried <= cut
    BY <1>2 DEF PCs, Clearing
  <2>4. QED BY <2>1, <2>2, <2>3
<1>3. QED BY <1>1, <1>2

\* A tool that returns, at most after sending its call once.
LEMMA ReturnSent ==
  ASSUME Typed, SentOnce, NEW r \in {"ok", "error"}, Return(r), UNCHANGED cut,
         tried' = tried \/ (pc = "reserve" /\ tried' = tried + 1)
  PROVE  SentOnce'
<1>1. pc' = "result" /\ loop'.result # "none"
  BY ReturnKeeps DEF Results, Typed, TypeOK
<1>2. tried' <= 1 + cut'
  BY DEF Typed, TypeOK, SentOnce
<1>3. QED BY <1>1, <1>2 DEF SentOnce

LEMMA SentUser ==
  ASSUME Typed, SentOnce, User
  PROVE  SentOnce'
<1>1. CASE StartTask
  BY <1>1, FreshIsLoop
  DEF StartTask, Begin, SentOnce, Answered, history
<1>2. CASE Resume
  <2>1. UNCHANGED <<ckpt, unfinished, tried, cut>>
    BY <1>2 DEF Resume, disk, history
  <2>2. CASE ckpt.tool = NoTool
    BY <1>2, <2>1, <2>2 DEF Resume, Begin, SentOnce, Answered
  <2>3. CASE ckpt.tool # NoTool /\ ckpt.result = "none"
    BY <1>2, <2>1, <2>3 DEF Resume, Begin, SentOnce, Answered
  <2>4. CASE ckpt.tool # NoTool /\ ckpt.result # "none"
    BY <1>2, <2>1, <2>4 DEF Resume, Begin, SentOnce, Answered
  <2>5. QED BY <2>2, <2>3, <2>4
<1>3. CASE ApprovePending
  BY <1>3 DEF ApprovePending, SentOnce, Answered, run, history
<1>4. CASE DeclinePending
  BY <1>4, EndSent DEF DeclinePending
<1>5. QED BY <1>1, <1>2, <1>3, <1>4 DEF User

LEMMA SentModel ==
  ASSUME Typed, SentOnce, Model
  PROVE  SentOnce'
<1>1. CASE Respond
  BY <1>1 DEF Respond, SentOnce
<1>2. CASE ModelFails
  BY <1>2, EndSent DEF ModelFails, DeliverHeld
<1>3. CASE OutOfTurns
  BY <1>3, EndSent DEF OutOfTurns, DeliverHeld
<1>4. CASE Pause
  BY <1>4, EndSent DEF Pause, DeliverHeld, AskingPrice
<1>5. CASE Declined
  BY <1>5, EndSent DEF Declined, DeliverHeld, StopRun, AskingPrice
<1>6. CASE ReplyUnsaved
  BY <1>6, EndSent DEF ReplyUnsaved
<1>7. QED BY <1>1, <1>2, <1>3, <1>4, <1>5, <1>6 DEF Model

LEMMA SentBuy ==
  ASSUME Typed, SentOnce, Buy
  PROVE  SentOnce'
<1> USE DEF history
<1>1. CASE CallRefused
  BY <1>1, ReturnSent DEF CallRefused
<1>2. CASE FollowUpRead
  BY <1>2, ReturnSent DEF FollowUpRead
<1>3. CASE CallCleared
  BY <1>3 DEF CallCleared, Calling, SentOnce
<1>4. CASE Fetch
  BY <1>4 DEF Fetch, SentOnce, Typed, TypeOK
<1>5. CASE FetchThrows
  BY <1>5, ReturnSent DEF FetchThrows
<1>6. CASE RecordPurchase
  BY <1>6 DEF RecordPurchase, SentOnce
<1>7. CASE SaveFails
  BY <1>7, ReturnSent DEF SaveFails
<1>8. CASE StatusFails
  BY <1>8, ReturnSent DEF StatusFails
<1>9. CASE Finalize
  BY <1>9, ReturnSent DEF Finalize
<1>10. QED BY <1>1, <1>2, <1>3, <1>4, <1>5, <1>6, <1>7, <1>8, <1>9 DEF Buy

LEMMA SentManage ==
  ASSUME Typed, SentOnce, Manage
  PROVE  SentOnce'
<1> USE DEF history
<1>1. CASE ReviewRefused
  BY <1>1, ReturnSent DEF ReviewRefused
<1>2. CASE ReviewSubmitted
  BY <1>2, ReturnSent DEF ReviewSubmitted
<1>3. CASE ReviewRejected
  BY <1>3, ReturnSent DEF ReviewRejected
<1>4. CASE SwitchRefused
  BY <1>4, ReturnSent DEF SwitchRefused
<1>5. CASE SwitchPreference
  <2>1. CASE Return("ok")
    BY <1>5, <2>1, ReturnSent DEF SwitchPreference
  <2>2. CASE pc' = "skip"
    BY <1>5, <2>2 DEF SwitchPreference, SentOnce
  <2>3. QED BY <1>5, <2>1, <2>2 DEF SwitchPreference
<1>6. CASE SkipReview
  BY <1>6 DEF SkipReview, SentOnce, run, disk
<1>7. CASE SkipDone
  BY <1>7, ReturnSent DEF SkipDone
<1>8. CASE CompleteSession
  BY <1>8, ReturnSent DEF CompleteSession
<1>9. QED BY <1>1, <1>2, <1>3, <1>4, <1>5, <1>6, <1>7, <1>8 DEF Manage

LEMMA SentTake ==
  ASSUME Typed, SentOnce, Take
  PROVE  SentOnce'
<1>1. CASE SaveResult
  BY <1>1 DEF SaveResult, SentOnce, Answered, history
<1>2. CASE ToolDone
  BY <1>2 DEF ToolDone, Settling, GoOn, SentOnce, Answered, history
<1>3. CASE ToolFailed
  BY <1>3 DEF ToolFailed, Settling, GoOn, SentOnce, Answered, history
<1>4. CASE GiveUp
  BY <1>4, EndSent DEF GiveUp, Settling, DeliverHeld, StopRun
<1>5. CASE CompletionGate
  <2>1. ASSUME NEW reply, NEW reflect \in BOOLEAN, Nudge(reply, reflect) PROVE SentOnce'
    <3>1. pc' = "think" /\ pc = "settle" /\ UNCHANGED <<tried, cut>> /\ ckpt' = loop'
      BY <2>1 DEF Nudge, Completing, Settling, GoOn, history
    <3>2. PICK l : loop' = NextTurn(l) BY <2>1 DEF Nudge, GoOn
    <3>3. \A m : NextTurn(m).tool = NoTool BY DEF NextTurn
    <3>4. QED BY <3>1, <3>2, <3>3 DEF SentOnce, Answered
  <2>2. ASSUME NEW reply, NEW reflect \in BOOLEAN, Complete(reply, reflect) PROVE SentOnce'
    BY <2>2, EndSent DEF Complete, Completing, Settling
  <2>3. ASSUME NEW reply, StillBlocked(reply) PROVE SentOnce'
    BY <2>3, EndSent DEF StillBlocked, Completing, Settling
  <2>4. QED BY <1>5, <2>1, <2>2, <2>3 DEF CompletionGate
<1>6. CASE GateFails
  BY <1>6, EndSent DEF GateFails, Completing, Settling
<1>7. CASE ResultUnsaved
  <2>1. tried' = tried /\ cut' = Loses(ckpt') /\ pc' = "idle"
    BY <1>7 DEF ResultUnsaved
  <2>2. Answered(ckpt)' \/ (tried > cut => cut' = cut + 1)
    BY <2>1 DEF Loses, Answered
  <2>3. cut' = cut \/ cut' = cut + 1
    BY <2>1 DEF Loses
  <2>4. QED BY <2>1, <2>2, <2>3 DEF SentOnce, Typed, TypeOK
<1>8. QED BY <1>1, <1>2, <1>3, <1>4, <1>5, <1>6, <1>7 DEF Take

LEMMA SentNext ==
  ASSUME Typed, SentOnce, [Next]_vars
  PROVE  SentOnce'
<1>1. CASE User BY <1>1, SentUser
<1>2. CASE Step
  BY <1>2, SentModel, SentBuy, SentManage, SentTake DEF Step
<1>3. CASE Crash
  <2>1. tried' = tried /\ cut' = Loses(ckpt) /\ pc' = "idle" /\ ckpt' = ckpt
    BY <1>3 DEF Crash, disk
  <2>2. Answered(ckpt)' = Answered(ckpt) BY <2>1 DEF Answered
  <2>3. QED BY <2>1, <2>2 DEF Loses, SentOnce, Typed, TypeOK
<1>4. CASE PreferenceSwitched
  BY <1>4 DEF PreferenceSwitched, SentOnce, Answered, run, disk, history
<1>5. CASE UNCHANGED vars
  BY <1>5 DEF vars, run, disk, history, SentOnce, Answered
<1>6. QED BY <1>1, <1>2, <1>3, <1>4, <1>5 DEF Next

\* A paid call is sent again only because it was sent and then lost before the
\* checkpoint had its result: by a crash, or by a disk that would not take that
\* checkpoint.  No other failure and no pause repeats it (runtime.ts replays
\* exactly what has no saved result).
THEOREM OnlyLossesRepeat == Spec => []RepeatedOnlyAfterLoss
<1>1. Typed /\ SentOnce /\ [Next]_vars => SentOnce'
  BY SentNext
<1>2. SentOnce => RepeatedOnlyAfterLoss
  BY DEF SentOnce, RepeatedOnlyAfterLoss
<1>3. QED BY SentInit, <1>1, <1>2, TypedAlways, PTL DEF Spec

-----------------------------------------------------------------------------
(***************************************************************************)
(* The review gate.                                                        *)
(***************************************************************************)

\* No purchase belongs to a query that has not begun.
PastQueries == \A i \in DOMAIN purchases : purchases[i].query <= query

GateInv == Typed /\ PastQueries

-----------------------------------------------------------------------------
(***************************************************************************)
(* How the store may change.                                               *)
(***************************************************************************)
\* The records that are there stay, with their call, and none is due again.
Kept ==
  /\ DOMAIN purchases' = DOMAIN purchases
  /\ \A i \in DOMAIN purchases :
       /\ purchases'[i].query = purchases[i].query
       /\ purchases'[i].turn = purchases[i].turn
       /\ purchases'[i].outcome = purchases[i].outcome
       /\ purchases'[i].required = purchases[i].required
  /\ Due' \subseteq Due

LEMMA SameStore ==
  ASSUME purchases' = purchases, query' = query
  PROVE  Due' = Due /\ Kept
<1>1. Due' = Due BY DEF Due
<1>2. QED BY <1>1 DEF Kept

\* A review that is submitted, waived or rejected once more.
LEMMA SettledStore ==
  ASSUME Typed, query' = query, NEW k \in DOMAIN purchases, NEW p \in Purchase,
         purchases' = [purchases EXCEPT ![k] = p],
         p.query = purchases[k].query, p.turn = purchases[k].turn,
         p.outcome = purchases[k].outcome, p.required = purchases[k].required,
         p.status = "pending" => /\ purchases[k].status = "pending"
                                 /\ \/ p.attempts >= purchases[k].attempts
                                    \/ p.attempts >= MaxReviewAttempts
  PROVE  Kept
<1>1. purchases \in Seq(Purchase) BY DEF Typed, TypeOK
<1>2. /\ DOMAIN purchases' = DOMAIN purchases
      /\ purchases'[k] = p
      /\ \A i \in DOMAIN purchases : i # k => purchases'[i] = purchases[i]
  BY <1>1, Replaced
<1>3. p.attempts \in Nat /\ purchases[k].attempts \in Nat
  BY <1>1, RecordFields DEF Purchase
<1>4. ASSUME NEW i \in Due' PROVE i \in Due
  <2>1. i \in DOMAIN purchases /\ purchases'[i].status = "pending"
        /\ purchases'[i].attempts < MaxReviewAttempts /\ purchases'[i].query = query
    BY <1>2 DEF Due
  <2>2. CASE i = k
    BY <1>2, <1>3, <2>1, <2>2, PurchasesAssumption DEF Due
  <2>3. CASE i # k
    BY <1>2, <2>1, <2>3 DEF Due
  <2>4. QED BY <2>2, <2>3
<1>5. QED BY <1>2, <1>4 DEF Kept

\* A new record is due exactly when it requires a review.
LEMMA GrownStore ==
  ASSUME Typed, RecordPurchase
  PROVE  /\ DOMAIN purchases' = DOMAIN purchases \cup {Len(purchases) + 1}
         /\ Len(purchases) + 1 \notin DOMAIN purchases
         /\ purchases'[Len(purchases) + 1] = NewPurchase
         /\ \A i \in DOMAIN purchases : purchases'[i] = purchases[i]
         /\ Due' = IF answer \in Reviewable /\ enabled THEN Due \cup {Len(purchases) + 1}
                   ELSE Due
<1>1. purchases \in Seq(Purchase) /\ query' = query /\ NewPurchase \in Purchase
  BY NewPurchaseIsPurchase DEF Typed, TypeOK, RecordPurchase, disk
<1>2. /\ DOMAIN purchases' = DOMAIN purchases \cup {Len(purchases) + 1}
      /\ Len(purchases) + 1 \notin DOMAIN purchases
      /\ purchases'[Len(purchases) + 1] = NewPurchase
      /\ \A i \in DOMAIN purchases : purchases'[i] = purchases[i]
  BY <1>1 DEF RecordPurchase
<1>3. /\ NewPurchase.query = query /\ NewPurchase.attempts = 0
      /\ NewPurchase.required = (answer \in Reviewable /\ enabled)
      /\ NewPurchase.status = IF answer \in Reviewable /\ enabled THEN "pending"
                              ELSE "not_required"
  BY DEF NewPurchase
<1>4. \A i \in DOMAIN purchases : i \in Due' <=> i \in Due
  BY <1>1, <1>2 DEF Due
<1>5. Len(purchases) + 1 \in Due' <=> (answer \in Reviewable /\ enabled)
  BY <1>1, <1>2, <1>3, PurchasesAssumption DEF Due
<1>6. Due \subseteq DOMAIN purchases /\ Due' \subseteq DOMAIN purchases'
  BY DEF Due
<1>7. CASE answer \in Reviewable /\ enabled
  BY <1>2, <1>4, <1>5, <1>6, <1>7
<1>8. CASE ~(answer \in Reviewable /\ enabled)
  <2>1. Len(purchases) + 1 \notin Due' BY <1>5, <1>8
  <2>2. Due' = Due BY <1>2, <1>4, <1>6, <2>1
  <2>3. QED BY <1>2, <1>8, <2>2, Zenon
<1>9. QED BY <1>2, <1>7, <1>8

-----------------------------------------------------------------------------
(***************************************************************************)
(* Every step is a check, a purchase, a change of the preference, or is    *)
(* ordinary: it settles at most, and it does not pass the check.           *)
(***************************************************************************)
Clearance == pc \in Clearing

Ordinary ==
  /\ Kept
  /\ enabled' = enabled
  /\ Clearance' => Clearance
  /\ Clearance => Due' = Due

LEMMA Untouched ==
  ASSUME purchases' = purchases, query' = query, enabled' = enabled,
         Clearance' => Clearance
  PROVE  Ordinary
  BY SameStore DEF Ordinary

LEMMA ReturnClears ==
  ASSUME NEW r, Return(r) PROVE ~Clearance'
  BY DEF Return, Clearance, Clearing

LEMMA EndClears ==
  ASSUME NEW how, Finish(how) \/ Leave(how) PROVE ~Clearance'
  BY DEF Finish, Leave, Clearance, Clearing

LEMMA UserSteps ==
  ASSUME GateInv, User
  PROVE  Ordinary
<1>1. CASE StartTask
  <2>1. query' = query + 1 /\ purchases' = purchases /\ enabled' = enabled
        /\ ~Clearance' /\ ~Clearance
    BY <1>1 DEF StartTask, Begin, books, Clearance, Clearing
  <2>2. query \in Nat /\ purchases \in Seq(Purchase)
    BY PurchasesAssumption DEF GateInv, Typed, TypeOK
  <2>3. Due' = {}
    <3>1. \A i \in DOMAIN purchases : purchases[i].query # query + 1
      BY <2>2, RecordFields DEF GateInv, PastQueries
    <3>2. QED BY <2>1, <3>1 DEF Due
  <2>4. QED BY <2>1, <2>3 DEF Ordinary, Kept
<1>2. CASE Resume
  BY <1>2, Untouched DEF Resume, Begin, disk, books, Clearance, Clearing
<1>3. CASE ApprovePending
  BY <1>3, Untouched DEF ApprovePending, run, books, Clearance
<1>4. CASE DeclinePending
  BY <1>4, Untouched, EndClears DEF DeclinePending, books
<1>5. QED BY <1>1, <1>2, <1>3, <1>4 DEF User

LEMMA ModelSteps ==
  ASSUME GateInv, Model
  PROVE  Ordinary
<1>1. CASE Respond
  BY <1>1, Untouched DEF Respond, books, Clearance, Clearing
<1>2. CASE ModelFails
  BY <1>2, Untouched, EndClears DEF ModelFails, DeliverHeld, books
<1>3. CASE OutOfTurns
  BY <1>3, Untouched, EndClears DEF OutOfTurns, DeliverHeld, books
<1>4. CASE Pause
  BY <1>4, Untouched, EndClears DEF Pause, DeliverHeld, books
<1>5. CASE Declined
  BY <1>5, Untouched, EndClears DEF Declined, DeliverHeld, StopRun, books
<1>6. CASE ReplyUnsaved
  BY <1>6, Untouched, EndClears DEF ReplyUnsaved, books
<1>7. QED BY <1>1, <1>2, <1>3, <1>4, <1>5, <1>6 DEF Model

LEMMA BuySteps ==
  ASSUME GateInv, Buy
  PROVE  Ordinary \/ CallCleared \/ RecordPurchase
<1> USE DEF disk, books
<1>1. CASE CallRefused
  BY <1>1, Untouched, ReturnClears DEF CallRefused
<1>2. CASE FollowUpRead
  BY <1>2, Untouched, ReturnClears DEF FollowUpRead
<1>3. CASE Fetch
  BY <1>3, Untouched DEF Fetch, Clearance, Clearing
<1>4. CASE FetchThrows
  BY <1>4, Untouched, ReturnClears DEF FetchThrows
<1>5. CASE SaveFails
  BY <1>5, Untouched, ReturnClears DEF SaveFails
<1>6. CASE StatusFails
  BY <1>6, Untouched, ReturnClears DEF StatusFails
<1>7. CASE Finalize
  BY <1>7, Untouched, ReturnClears DEF Finalize
<1>8. QED BY <1>1, <1>2, <1>3, <1>4, <1>5, <1>6, <1>7 DEF Buy

LEMMA ManageSteps ==
  ASSUME GateInv, Manage
  PROVE  Ordinary \/ SwitchPreference
<1> USE DEF disk, books
<1>0. purchases \in Seq(Purchase) BY DEF GateInv, Typed, TypeOK
<1>1. CASE ReviewRefused
  BY <1>1, Untouched, ReturnClears DEF ReviewRefused
<1>2. CASE ReviewSubmitted
  <2> DEFINE k == loop.tool.purchase
             p == [purchases[k] EXCEPT !.status = "submitted"]
  <2>1. k \in DOMAIN purchases
    BY <1>2 DEF ReviewSubmitted, CanReview, Calling, GateInv, Typed,
                ReviewsNameARecord, NamesARecord
  <2>2. p \in Purchase BY <1>0, <2>1, Marked
  <2>3. p.query = purchases[k].query /\ p.turn = purchases[k].turn
        /\ p.outcome = purchases[k].outcome /\ p.required = purchases[k].required
        /\ p.status = "submitted"
    BY <1>0, <2>1, RecordFields DEF Purchase
  <2>4. purchases' = [purchases EXCEPT ![k] = p] /\ query' = query /\ enabled' = enabled
    BY <1>2 DEF ReviewSubmitted
  <2> HIDE DEF p, k
  <2>5. Kept BY <2>1, <2>2, <2>3, <2>4, SettledStore DEF GateInv
  <2>6. ~Clearance /\ ~Clearance'
    BY <1>2, ReturnClears DEF ReviewSubmitted, CanReview, Calling, Clearance, Clearing
  <2>7. QED BY <2>4, <2>5, <2>6 DEF Ordinary
<1>3. CASE ReviewRejected
  <2> DEFINE k == loop.tool.purchase
  <2>1. k \in DOMAIN purchases
    BY <1>3 DEF ReviewRejected, CanReview, Calling, GateInv, Typed,
                ReviewsNameARecord, NamesARecord
  <2>2. PICK permanent \in BOOLEAN :
          purchases' = [purchases EXCEPT ![k].attempts = RejectedTimes(purchases[k], permanent)]
    BY <1>3 DEF ReviewRejected
  <2> DEFINE n == RejectedTimes(purchases[k], permanent)
             p == [purchases[k] EXCEPT !.attempts = n]
  <2>3. n = MaxReviewAttempts \/ n = purchases[k].attempts + 1
    BY Zenon DEF RejectedTimes
  <2>4. n \in Nat /\ purchases[k].attempts \in Nat
        /\ (n >= purchases[k].attempts \/ n >= MaxReviewAttempts)
    BY <1>0, <2>1, <2>3, RecordFields, PurchasesAssumption
  <2> HIDE DEF n
  <2>5. p \in Purchase BY <1>0, <2>1, <2>4, Marked
  <2>6. p.query = purchases[k].query /\ p.turn = purchases[k].turn
        /\ p.outcome = purchases[k].outcome /\ p.required = purchases[k].required
        /\ p.status = purchases[k].status /\ p.attempts = n
    BY <1>0, <2>1, RecordFields DEF Purchase
  <2>7. purchases' = [purchases EXCEPT ![k] = p] BY <2>2 DEF n
  <2>8. query' = query /\ enabled' = enabled BY <1>3 DEF ReviewRejected
  <2> HIDE DEF p, k
  <2>9. Kept BY <2>1, <2>4, <2>5, <2>6, <2>7, <2>8, SettledStore DEF GateInv
  <2>10. ~Clearance /\ ~Clearance'
    BY <1>3, ReturnClears DEF ReviewRejected, CanReview, Calling, Clearance, Clearing
  <2>11. QED BY <2>8, <2>9, <2>10 DEF Ordinary
<1>4. CASE SwitchRefused
  BY <1>4, Untouched, ReturnClears DEF SwitchRefused
<1>5. CASE SkipReview
  <2>1. PICK i \in Due : purchases' = [purchases EXCEPT ![i].status = "not_required"]
    BY <1>5 DEF SkipReview
  <2> DEFINE p == [purchases[i] EXCEPT !.status = "not_required"]
  <2>2. i \in DOMAIN purchases BY DEF Due
  <2>3. p \in Purchase BY <1>0, <2>2, Marked
  <2>4. p.query = purchases[i].query /\ p.turn = purchases[i].turn
        /\ p.outcome = purchases[i].outcome /\ p.required = purchases[i].required
        /\ p.status = "not_required"
    BY <1>0, <2>2, RecordFields DEF Purchase
  <2>5. purchases' = [purchases EXCEPT ![i] = p] /\ query' = query /\ enabled' = enabled
    BY <1>5, <2>1 DEF SkipReview
  <2> HIDE DEF p
  <2>6. Kept BY <2>2, <2>3, <2>4, <2>5, SettledStore DEF GateInv
  <2>7. ~Clearance /\ ~Clearance'
    BY <1>5 DEF SkipReview, run, Clearance, Clearing
  <2>8. QED BY <2>5, <2>6, <2>7 DEF Ordinary
<1>6. CASE SkipDone
  BY <1>6, Untouched, ReturnClears DEF SkipDone
<1>7. CASE CompleteSession
  BY <1>7, Untouched, ReturnClears DEF CompleteSession
<1>8. QED BY <1>1, <1>2, <1>3, <1>4, <1>5, <1>6, <1>7 DEF Manage

LEMMA TakeSteps ==
  ASSUME GateInv, Take
  PROVE  Ordinary
<1> USE DEF books, GoOn, Clearance, Clearing
<1>1. CASE SaveResult
  BY <1>1, Untouched DEF SaveResult
<1>2. CASE ToolDone
  BY <1>2, Untouched DEF ToolDone
<1>3. CASE ToolFailed
  BY <1>3, Untouched DEF ToolFailed
<1>4. CASE GiveUp
  BY <1>4, Untouched, EndClears DEF GiveUp, DeliverHeld, StopRun
<1>5. CASE CompletionGate
  <2>1. ASSUME NEW reply, NEW reflect \in BOOLEAN, Nudge(reply, reflect) PROVE Ordinary
    BY <2>1, Untouched DEF Nudge
  <2>2. ASSUME NEW reply, NEW reflect \in BOOLEAN, Complete(reply, reflect) PROVE Ordinary
    BY <2>2, Untouched, EndClears DEF Complete
  <2>3. ASSUME NEW reply, StillBlocked(reply) PROVE Ordinary
    BY <2>3, Untouched, EndClears DEF StillBlocked
  <2>4. QED BY <1>5, <2>1, <2>2, <2>3 DEF CompletionGate
<1>6. CASE GateFails
  BY <1>6, Untouched, EndClears DEF GateFails
<1>7. CASE ResultUnsaved
  BY <1>7, Untouched DEF ResultUnsaved
<1>8. QED BY <1>1, <1>2, <1>3, <1>4, <1>5, <1>6, <1>7 DEF Take

LEMMA Steps ==
  ASSUME GateInv, [Next]_vars
  PROVE  \/ Ordinary \/ CallCleared \/ RecordPurchase
         \/ SwitchPreference \/ PreferenceSwitched
<1>1. CASE Crash
  BY <1>1, Untouched DEF Crash, disk, books, Clearance, Clearing
<1>2. CASE UNCHANGED vars
  BY <1>2, Untouched DEF vars, run, disk, books, Clearance
<1>3. QED
  BY <1>1, <1>2, UserSteps, ModelSteps, BuySteps, ManageSteps, TakeSteps DEF Next, Step
-----------------------------------------------------------------------------
(***************************************************************************)
(* The invariant, and the refinement.                                      *)
(***************************************************************************)
\* Only a new task changes the query, and only another session sets switched.
LEMMA Monotone ==
  ASSUME [Next]_vars
  PROVE  (query' = query \/ query' = query + 1) /\ (switched => switched')
<1> USE DEF disk, bounds
<1>0. ASSUME NEW kind, Mishap(kind) PROVE switched => switched'
  BY <1>0, Zenon DEF Mishap
<1>1. CASE User
  BY <1>1 DEF User, StartTask, Resume, ApprovePending, DeclinePending
<1>2. CASE Model
  BY <1>0, <1>2 DEF Model, Respond, ModelFails, ReplyUnsaved, OutOfTurns, Pause, Declined
<1>3. CASE Buy
  <2>1. CASE CallRefused \/ FollowUpRead \/ CallCleared \/ FetchThrows \/ RecordPurchase
    BY <2>1 DEF CallRefused, FollowUpRead, CallCleared, FetchThrows, RecordPurchase
  <2>2. CASE SaveFails \/ StatusFails \/ Fetch
    BY <1>0, <2>2 DEF SaveFails, StatusFails, Fetch
  <2>3. CASE Finalize
    BY <1>0, <2>3 DEF Finalize
  <2>4. QED BY <1>3, <2>1, <2>2, <2>3 DEF Buy
<1>4. CASE Manage
  <2>1. CASE ReviewRefused \/ SwitchRefused \/ SwitchPreference \/ CompleteSession
    BY <2>1 DEF ReviewRefused, SwitchRefused, SwitchPreference, CompleteSession
  <2>2. CASE ReviewSubmitted \/ ReviewRejected \/ SkipReview
    <3>1. UNCHANGED disk /\ UNCHANGED bounds
      BY <2>2, Zenon DEF ReviewSubmitted, ReviewRejected, SkipReview
    <3>2. QED BY <3>1
  <2>3. CASE SkipDone
    BY <1>0, <2>3 DEF SkipDone
  <2>4. QED BY <1>4, <2>1, <2>2, <2>3 DEF Manage
<1>5. CASE Take
  <2>1. CASE SaveResult \/ ToolDone \/ ToolFailed \/ GiveUp
    BY <2>1 DEF SaveResult, ToolDone, ToolFailed, GiveUp
  <2>2. CASE CompletionGate
    <3>1. ASSUME NEW reply, NEW reflect \in BOOLEAN, Nudge(reply, reflect) \/ Complete(reply, reflect)
          PROVE  query' = query /\ UNCHANGED bounds
      BY <3>1, Zenon DEF Nudge, Complete
    <3>2. ASSUME NEW reply, StillBlocked(reply) PROVE query' = query /\ UNCHANGED bounds
      BY <3>2, Zenon DEF StillBlocked
    <3>3. query' = query /\ UNCHANGED bounds
      BY <2>2, <3>1, <3>2, Zenon DEF CompletionGate
    <3>4. QED BY <3>3
  <2>3. CASE GateFails \/ ResultUnsaved
    BY <1>0, <2>3 DEF GateFails, ResultUnsaved
  <2>4. QED BY <1>5, <2>1, <2>2, <2>3 DEF Take
<1>6. CASE Crash \/ PreferenceSwitched \/ UNCHANGED vars
  BY <1>0, <1>6 DEF Crash, PreferenceSwitched, vars
<1>7. QED BY <1>1, <1>2, <1>3, <1>4, <1>5, <1>6 DEF Next, Step

LEMMA GateInvInit == Init => GateInv
  BY TypedInit DEF Init, GateInv, PastQueries

LEMMA GateInvNext == GateInv /\ [Next]_vars => GateInv'
<1> SUFFICES ASSUME GateInv, [Next]_vars PROVE GateInv'
  OBVIOUS
<1>1. Typed' BY TypedNext DEF GateInv
<1>2. query \in Nat /\ purchases \in Seq(Purchase)
  BY PurchasesAssumption DEF GateInv, Typed, TypeOK
<1>3. query' \in Nat /\ query' >= query
  BY <1>2, Monotone
<1>4. CASE Kept
  <2> SUFFICES ASSUME NEW i \in DOMAIN purchases' PROVE purchases'[i].query <= query'
    BY <1>1 DEF GateInv, PastQueries
  <2>1. i \in DOMAIN purchases /\ purchases'[i].query = purchases[i].query
    BY <1>4 DEF Kept
  <2>2. purchases[i].query \in Nat /\ purchases[i].query <= query
    BY <1>2, <2>1, RecordFields DEF GateInv, PastQueries
  <2>3. QED BY <1>2, <1>3, <2>1, <2>2
<1>5. CASE RecordPurchase
  <2>1. query' = query BY <1>5 DEF RecordPurchase, disk
  <2>2. NewPurchase.query = query BY DEF NewPurchase
  <2>3. \A i \in DOMAIN purchases' : purchases'[i].query <= query
    BY <1>2, <1>5, <2>2, GrownStore DEF GateInv, PastQueries
  <2>4. QED BY <1>1, <2>1, <2>3 DEF GateInv, PastQueries
<1>6. CASE CallCleared \/ SwitchPreference \/ PreferenceSwitched
  BY <1>6, SameStore, <1>4
  DEF CallCleared, SwitchPreference, PreferenceSwitched, disk, books
<1>7. PastQueries'
  <2>1. CASE Ordinary BY <2>1, <1>4 DEF Ordinary, GateInv
  <2>2. QED BY <2>1, <1>5, <1>6, Steps DEF GateInv
<1>8. QED BY <1>1, <1>7 DEF GateInv

LEMMA GateInvAlways == Spec => []GateInv
  BY GateInvInit, GateInvNext, PTL DEF Spec

LEMMA GateStep ==
  ASSUME GateInv, [Next]_vars
  PROVE  [Gate!Next]_(Gate!vars)
<1> USE DEF Gate!Next, Gate!vars
<1>0. enabled \in BOOLEAN /\ enabled' \in BOOLEAN
  BY TypedNext DEF GateInv, Typed, TypeOK
<1>1. CASE Ordinary
  <2>1. enabled' = enabled /\ Due' \subseteq Due
        /\ (Clearance' => Clearance) /\ (Clearance => Due' = Due)
    BY <1>1 DEF Ordinary, Kept
  <2>2. CASE Clearance /\ Clearance'
    BY <2>1, <2>2 DEF Clearance
  <2>3. CASE Clearance /\ ~Clearance'
    BY <2>1, <2>3 DEF Clearance, Gate!Abandon
  <2>4. CASE ~Clearance /\ ~Clearance'
    BY <2>1, <2>4 DEF Clearance, Gate!Settle
  <2>5. QED BY <2>1, <2>2, <2>3, <2>4
<1>2. CASE CallCleared
  <2>1. Due' = Due /\ enabled' = enabled
    BY <1>2, SameStore DEF CallCleared, disk, books
  <2>2. (pc \notin Clearing) /\ pc' \in Clearing
    BY <1>2 DEF CallCleared, Calling, Clearing
  <2>3. Due = {} \/ ~enabled
    BY <1>2 DEF CallCleared, ReviewBlocks
  <2>4. QED BY <2>1, <2>2, <2>3 DEF Gate!Clear
<1>3. CASE RecordPurchase
  <2>1. enabled' = enabled /\ pc \in Clearing /\ pc' \notin Clearing
    BY <1>3 DEF RecordPurchase, Clearing
  <2>2. CASE answer \in Reviewable /\ enabled
    <3>1. Due' = Due \cup {Len(purchases) + 1} /\ Len(purchases) + 1 \notin Due
      BY <1>3, <2>2, GrownStore DEF GateInv, Due
    <3>2. \E p \in Due' : p \notin Due /\ Due' = Due \cup {p}
      BY <3>1
    <3>3. QED BY <2>1, <2>2, <3>2 DEF Gate!Incur
  <2>3. CASE ~(answer \in Reviewable /\ enabled)
    <3>1. Due' = Due BY <1>3, <2>3, GrownStore, Zenon DEF GateInv
    <3>2. QED BY <2>1, <3>1 DEF Gate!Abandon
  <2>4. QED BY <2>2, <2>3
<1>4. CASE SwitchPreference
  <2>1. Due' = Due BY <1>4, SameStore DEF SwitchPreference, disk, books
  <2>2. (pc \in Clearing)' = (pc \in Clearing)
    BY <1>4 DEF SwitchPreference, Calling, Return, Clearing
  <2>3. CASE enabled' = enabled BY <2>1, <2>2, <2>3
  <2>4. CASE enabled' # enabled
    <3>1. enabled' = ~enabled BY <1>0, <2>4
    <3>2. QED BY <2>1, <2>2, <3>1 DEF Gate!Switch
  <2>5. QED BY <2>3, <2>4
<1>5. CASE PreferenceSwitched
  <2>1. Due' = Due BY <1>5, SameStore DEF PreferenceSwitched, disk, books
  <2>2. QED BY <1>5, <2>1 DEF PreferenceSwitched, run, Gate!Switch
<1>6. QED BY <1>1, <1>2, <1>3, <1>4, <1>5, Steps

\* The lifecycle of paid calls implements ReviewGate, with any number of
\* queries, turns and purchases, through every crash, replayed call, failed
\* write and change of the preference (gateway.ts callPaidService).
THEOREM PurchasesImplementReviewGate == Spec => ImplementsReviewGate
<1>1. Init => Gate!Init
  BY DEF Init, Gate!Init, Due, Clearing
<1>2. GateInv /\ [Next]_vars => [Gate!Next]_(Gate!vars)
  BY GateStep
<1>3. QED
  BY <1>1, <1>2, GateInvAlways, PTL DEF Spec, ImplementsReviewGate, Gate!Spec

-----------------------------------------------------------------------------
(***************************************************************************)
(* One review at a time.  A call that has passed the check keeps its room  *)
(* until it is booked: nobody else switches the preference meanwhile.      *)
(***************************************************************************)
ClearedAlone == Quiet => (Clearance /\ enabled => Due = {})
AloneInv == GateInv /\ ClearedAlone /\ OneReviewDue

LEMMA AloneNext ==
  ASSUME AloneInv, [Next]_vars
  PROVE  AloneInv'
<1> USE DEF AloneInv, ClearedAlone, OneReviewDue
<1>1. GateInv' BY GateInvNext
<1>2. switched \in BOOLEAN /\ (Quiet' => Quiet)
  BY Monotone, PurchasesAssumption DEF GateInv, Typed, TypeOK, Quiet
<1>3. CASE Ordinary
  BY <1>1, <1>2, <1>3 DEF Ordinary, Kept
<1>4. CASE CallCleared
  <2>1. Due' = Due /\ enabled' = enabled /\ (enabled => Due = {})
    BY <1>4, SameStore DEF CallCleared, ReviewBlocks, disk, books
  <2>2. QED BY <1>1, <1>2, <2>1
<1>5. CASE RecordPurchase
  <2>1. ~Clearance' /\ Clearance
    BY <1>5 DEF RecordPurchase, Clearance, Clearing
  <2>2. CASE answer \in Reviewable /\ enabled
    <3>1. Due' = Due \cup {Len(purchases) + 1}
      BY <1>5, <2>2, GrownStore DEF GateInv
    <3>2. QED BY <1>1, <1>2, <2>1, <2>2, <3>1
  <2>3. CASE ~(answer \in Reviewable /\ enabled)
    <3>1. Due' = Due BY <1>5, <2>3, GrownStore, Zenon DEF GateInv
    <3>2. QED BY <1>1, <1>2, <2>1, <3>1
  <2>4. QED BY <2>2, <2>3
<1>6. CASE SwitchPreference
  <2>1. Due' = Due BY <1>6, SameStore DEF SwitchPreference, disk, books
  <2>2. ~Clearance'
    BY <1>6 DEF SwitchPreference, Calling, Return, Clearance, Clearing
  <2>3. QED BY <1>1, <1>2, <2>1, <2>2
<1>7. CASE PreferenceSwitched
  <2>1. ~Quiet' BY <1>7 DEF PreferenceSwitched, Mishap, Quiet
  <2>2. QED BY <1>1, <2>1
<1>8. QED BY <1>3, <1>4, <1>5, <1>6, <1>7, Steps

\* With the agent's own switching, crashes and replayed calls, two reviews are
\* never due at once in a query (gateway.ts:318-325).
THEOREM OneReviewAtATime == Spec => []OneReviewDue
<1>1. Init => AloneInv
  BY GateInvInit DEF Init, AloneInv, ClearedAlone, OneReviewDue, Clearance, Clearing, Due
<1>2. AloneInv /\ [Next]_vars => AloneInv'
  BY AloneNext
<1>3. AloneInv => OneReviewDue
  BY DEF AloneInv
<1>4. QED BY <1>1, <1>2, <1>3, PTL DEF Spec

-----------------------------------------------------------------------------
(***************************************************************************)
(* Charges.                                                                *)
(***************************************************************************)
Recorded == {i \in DOMAIN purchases : purchases[i].outcome \in Charging}

ChargesCovered ==
  /\ charged <= Cardinality(Recorded)
  /\ (pc = "finalize" /\ answer \in Charging) => charged + 1 <= Cardinality(Recorded)

LEMMA RecordedFinite ==
  ASSUME Typed
  PROVE  IsFiniteSet(Recorded) /\ Cardinality(Recorded) \in Nat
<1>1. DOMAIN purchases = 1..Len(purchases) /\ Len(purchases) \in Nat
  BY DEF Typed, TypeOK
<1>2. IsFiniteSet(DOMAIN purchases)
  BY <1>1, FS_Interval
<1>3. Recorded \subseteq DOMAIN purchases
  BY DEF Recorded
<1>4. QED BY <1>2, <1>3, FS_Subset, FS_CardinalityType

\* What a step that neither records nor finalizes leaves alone.
BooksKept ==
  /\ charged' = charged
  /\ pc' = "finalize" => pc = "finalize" /\ answer' = answer

LEMMA ReturnBooks ==
  ASSUME NEW r, Return(r), charged' = charged PROVE BooksKept
  BY DEF Return, BooksKept

LEMMA EndBooks ==
  ASSUME NEW how, Finish(how) \/ Leave(how), charged' = charged PROVE BooksKept
  BY DEF Finish, Leave, BooksKept

LEMMA BooksStep ==
  ASSUME [Next]_vars
  PROVE  RecordPurchase \/ Finalize \/ BooksKept
<1> USE DEF books
<1>1. CASE User
  BY <1>1, EndBooks
  DEF User, StartTask, Resume, ApprovePending, DeclinePending, Begin, run, BooksKept
<1>2. CASE Model
  <2>1. CASE Respond BY <2>1 DEF Respond, BooksKept
  <2>2. CASE ModelFails BY <2>2, EndBooks DEF ModelFails, DeliverHeld
  <2>3. CASE OutOfTurns BY <2>3, EndBooks DEF OutOfTurns, DeliverHeld
  <2>4. CASE Pause BY <2>4, EndBooks DEF Pause, DeliverHeld
  <2>5. CASE Declined BY <2>5, EndBooks DEF Declined, DeliverHeld, StopRun
  <2>6. CASE ReplyUnsaved BY <2>6, EndBooks DEF ReplyUnsaved
  <2>7. QED BY <1>2, <2>1, <2>2, <2>3, <2>4, <2>5, <2>6 DEF Model
<1>3. CASE Buy
  <2>1. CASE CallRefused BY <2>1, ReturnBooks DEF CallRefused
  <2>2. CASE FollowUpRead BY <2>2, ReturnBooks DEF FollowUpRead
  <2>3. CASE CallCleared BY <2>3 DEF CallCleared, BooksKept
  <2>4. CASE Fetch BY <2>4 DEF Fetch, BooksKept
  <2>5. CASE FetchThrows BY <2>5, ReturnBooks DEF FetchThrows
  <2>6. CASE SaveFails BY <2>6, ReturnBooks DEF SaveFails
  <2>7. CASE StatusFails BY <2>7, ReturnBooks DEF StatusFails
  <2>8. QED BY <1>3, <2>1, <2>2, <2>3, <2>4, <2>5, <2>6, <2>7 DEF Buy
<1>4. CASE Manage
  <2>1. CASE ReviewRefused BY <2>1, ReturnBooks DEF ReviewRefused
  <2>2. CASE ReviewSubmitted BY <2>2, ReturnBooks DEF ReviewSubmitted
  <2>3. CASE ReviewRejected BY <2>3, ReturnBooks DEF ReviewRejected
  <2>4. CASE SwitchRefused BY <2>4, ReturnBooks DEF SwitchRefused
  <2>5. CASE SwitchPreference
    BY <2>5, ReturnBooks DEF SwitchPreference, BooksKept
  <2>6. CASE SkipReview BY <2>6 DEF SkipReview, run, BooksKept
  <2>7. CASE SkipDone BY <2>7, ReturnBooks DEF SkipDone
  <2>8. CASE CompleteSession BY <2>8, ReturnBooks DEF CompleteSession
  <2>9. QED BY <1>4, <2>1, <2>2, <2>3, <2>4, <2>5, <2>6, <2>7, <2>8 DEF Manage
<1>5. CASE Take
  <2>1. CASE SaveResult BY <2>1 DEF SaveResult, BooksKept
  <2>2. CASE ToolDone BY <2>2 DEF ToolDone, GoOn, BooksKept
  <2>3. CASE ToolFailed BY <2>3 DEF ToolFailed, GoOn, BooksKept
  <2>4. CASE GiveUp BY <2>4, EndBooks DEF GiveUp, DeliverHeld, StopRun
  <2>5. CASE CompletionGate
    <3>1. ASSUME NEW reply, NEW reflect \in BOOLEAN, Nudge(reply, reflect) PROVE BooksKept
      BY <3>1 DEF Nudge, GoOn, BooksKept
    <3>2. ASSUME NEW reply, NEW reflect \in BOOLEAN, Complete(reply, reflect) PROVE BooksKept
      BY <3>2, EndBooks DEF Complete
    <3>3. ASSUME NEW reply, StillBlocked(reply) PROVE BooksKept
      BY <3>3, EndBooks DEF StillBlocked
    <3>4. QED BY <2>5, <3>1, <3>2, <3>3 DEF CompletionGate
  <2>6. CASE GateFails BY <2>6, EndBooks DEF GateFails
  <2>7. CASE ResultUnsaved BY <2>7 DEF ResultUnsaved, BooksKept
  <2>8. QED BY <1>5, <2>1, <2>2, <2>3, <2>4, <2>5, <2>6, <2>7 DEF Take
<1>6. CASE Crash BY <1>6 DEF Crash, BooksKept
<1>7. CASE PreferenceSwitched \/ UNCHANGED vars
  BY <1>7 DEF PreferenceSwitched, vars, run, BooksKept
<1>8. QED BY <1>1, <1>2, <1>3, <1>4, <1>5, <1>6, <1>7 DEF Next, Step

LEMMA KeptOrRecorded ==
  ASSUME GateInv, [Next]_vars
  PROVE  Kept \/ RecordPurchase
<1>1. CASE CallCleared \/ SwitchPreference \/ PreferenceSwitched
  BY <1>1, SameStore DEF CallCleared, SwitchPreference, PreferenceSwitched, disk, books
<1>2. QED BY <1>1, Steps DEF Ordinary

LEMMA ChargesNext ==
  ASSUME GateInv, ChargesCovered, [Next]_vars
  PROVE  ChargesCovered'
<1>1. charged \in Nat /\ Cardinality(Recorded) \in Nat /\ IsFiniteSet(Recorded)
  BY RecordedFinite DEF GateInv, Typed, TypeOK
<1>2. CASE RecordPurchase
  <2>1. charged' = charged /\ answer' = answer
    BY <1>2 DEF RecordPurchase
  <2>2. NewPurchase.outcome = answer BY DEF NewPurchase
  <2>3. CASE answer \in Charging
    <3>1. Recorded' = Recorded \cup {Len(purchases) + 1} /\ Len(purchases) + 1 \notin Recorded
      BY <1>2, <2>2, <2>3, GrownStore DEF GateInv, Recorded
    <3>2. Cardinality(Recorded') = Cardinality(Recorded) + 1
      BY <1>1, <3>1, FS_AddElement
    <3>3. QED BY <1>1, <2>1, <3>2 DEF ChargesCovered
  <2>4. CASE answer \notin Charging
    <3>1. Recorded' = Recorded
      BY <1>2, <2>2, <2>4, GrownStore DEF GateInv, Recorded
    <3>2. QED BY <2>1, <2>4, <3>1 DEF ChargesCovered
  <2>5. QED BY <2>3, <2>4
<1>3. CASE Kept /\ (Finalize \/ BooksKept)
  <2>1. Recorded' = Recorded BY <1>3 DEF Kept, Recorded
  <2>2. CASE Finalize
    <3>1. pc = "finalize" /\ pc' # "finalize"
      BY <2>2 DEF Finalize, Return
    <3>2. charged' = IF answer \in Charging THEN charged + 1 ELSE charged
      BY <2>2 DEF Finalize
    <3>3. QED BY <1>1, <2>1, <3>1, <3>2 DEF ChargesCovered
  <2>3. CASE BooksKept
    BY <1>1, <2>1, <2>3 DEF BooksKept, ChargesCovered
  <2>4. QED BY <1>3, <2>2, <2>3
<1>4. QED BY <1>2, <1>3, BooksStep, KeptOrRecorded

\* However many calls, crashes and failed writes: a purchase finalized with a
\* charge is in purchases.jsonl (gateway.ts appends it before it finalizes).
THEOREM ChargesAreRecorded == Spec => []ChargedIsRecorded
<1>1. Init => ChargesCovered
  <2> SUFFICES ASSUME Init PROVE ChargesCovered
    OBVIOUS
  <2>1. Recorded = {} BY DEF Init, Recorded
  <2>2. Cardinality(Recorded) = 0 BY <2>1, FS_EmptySet
  <2>3. QED BY <2>2 DEF Init, ChargesCovered
<1>2. GateInv /\ ChargesCovered /\ [Next]_vars => ChargesCovered'
  BY ChargesNext
<1>3. ChargesCovered => ChargedIsRecorded
  BY DEF ChargesCovered, ChargedIsRecorded, Recorded
<1>4. QED BY <1>1, <1>2, <1>3, GateInvAlways, PTL DEF Spec

-----------------------------------------------------------------------------
(***************************************************************************)
(* Receipts.  While a call is under way or may be replayed, a receipt it   *)
(* has already left is still due, so the review gate refuses to repeat it. *)
(***************************************************************************)
IsReceipt(i) == i \in DOMAIN purchases /\ purchases[i].required /\ purchases[i].query = query

\* A receipt of this query is of an earlier turn than the checkpoint's, or
\* it is of the checkpointed call and still due.
OfCheckpoint(i) ==
  \/ purchases[i].turn < ckpt.turn
  \/ /\ purchases[i].turn = ckpt.turn
     /\ ckpt.tool.name = "call_paid_service" /\ i \in Due

CallInv ==
  /\ pc # "idle" => unfinished
  /\ pc \notin {"idle", "think"} => ckpt.tool = loop.tool /\ ckpt.turn = loop.turn
  /\ pc \in {"reserve", "book", "finalize"} => loop.tool.name = "call_paid_service"
  /\ pc = "skip" => loop.tool.name = "set_crowdcode_enabled"
  /\ unfinished => \A i \in DOMAIN purchases : IsReceipt(i) => OfCheckpoint(i)
  /\ pc = "think" => \A i \in DOMAIN purchases : IsReceipt(i) => purchases[i].turn < loop.turn

ReceiptInv == AloneInv /\ CallInv /\ OneReceiptPerCall

LEMMA CallInit == Init => CallInv
  BY DEF Init, CallInv

\* A step that touches neither the store nor the query keeps the receipts.
LEMMA SameReceipts ==
  ASSUME purchases' = purchases, query' = query
  PROVE  /\ Due' = Due
         /\ \A i : IsReceipt(i)' = IsReceipt(i)
         /\ (ckpt' = ckpt => \A i : OfCheckpoint(i)' = OfCheckpoint(i))
<1>1. Due' = Due BY SameStore
<1>2. QED BY <1>1 DEF IsReceipt, OfCheckpoint

\* Within one tool request.
LEMMA InsideCall ==
  ASSUME CallInv, UNCHANGED <<purchases, query, ckpt, unfinished>>,
         pc \notin {"idle", "think"}, pc' \notin {"idle", "think"},
         loop'.tool = loop.tool, loop'.turn = loop.turn,
         pc' \in {"reserve", "book", "finalize"} => loop.tool.name = "call_paid_service",
         pc' = "skip" => loop.tool.name = "set_crowdcode_enabled"
  PROVE  CallInv'
  BY SameReceipts DEF CallInv

LEMMA ReturnCall ==
  ASSUME Typed, CallInv, UNCHANGED <<purchases, query, ckpt, unfinished>>,
         pc \notin {"idle", "think"}, NEW r \in {"ok", "error"}, Return(r)
  PROVE  CallInv'
<1>1. loop'.tool = loop.tool /\ loop'.turn = loop.turn /\ pc' = "result"
  BY ReturnKeeps DEF Typed, TypeOK, Results
<1>2. QED BY <1>1, InsideCall

LEMMA EndCall ==
  ASSUME CallInv, UNCHANGED <<purchases, query>>,
         NEW how, Finish(how) \/ (pc # "idle" /\ Leave(how))
  PROVE  CallInv'
<1>1. CASE Finish(how)
  BY <1>1 DEF Finish, CallInv
<1>2. CASE Leave(how)
  <2>1. pc' = "idle" /\ UNCHANGED <<ckpt, unfinished>>
    BY <1>2 DEF Leave
  <2>2. QED BY <2>1, SameReceipts DEF CallInv
<1>3. QED BY <1>1, <1>2

\* The next turn: every receipt so far is of an earlier one.
LEMMA NextCall ==
  ASSUME Typed, CallInv, UNCHANGED <<purchases, query, unfinished>>, pc = "settle",
         NEW l \in Loop, l.turn = loop.turn, GoOn(NextTurn(l)), ckpt' = ckpt \/ ckpt' = loop'
  PROVE  CallInv'
<1>1. loop' = NextTurn(l) /\ pc' = "think" BY DEF GoOn
<1>2. loop.turn \in Nat /\ loop.turn < MaxTurns /\ purchases \in Seq(Purchase)
  BY LoopFields, PurchasesAssumption DEF Typed, TypeOK, TurnsInRange, Requested
<1>3. loop'.turn = loop.turn + 1 /\ loop'.tool = NoTool
  BY <1>1, <1>2, NextTurnIsLoop
<1>4. ASSUME NEW i \in DOMAIN purchases, IsReceipt(i) PROVE purchases[i].turn < loop.turn + 1
  <2>1. OfCheckpoint(i) /\ ckpt.turn = loop.turn BY <1>4 DEF CallInv
  <2>2. purchases[i].turn \in Nat BY <1>2, RecordFields
  <2>3. QED BY <1>2, <2>1, <2>2 DEF OfCheckpoint
<1>5. ASSUME NEW i \in DOMAIN purchases', IsReceipt(i)'
      PROVE  OfCheckpoint(i)' /\ purchases'[i].turn < loop'.turn
  <2>1. i \in DOMAIN purchases /\ IsReceipt(i) /\ purchases'[i].turn < loop'.turn
    BY <1>3, <1>4, <1>5, SameReceipts
  <2>2. CASE ckpt' = ckpt
    BY <2>1, <2>2, SameReceipts DEF CallInv
  <2>3. CASE ckpt' = loop'
    BY <2>1, <2>3 DEF OfCheckpoint
  <2>4. QED BY <2>1, <2>2, <2>3
<1>6. QED BY <1>1, <1>5 DEF CallInv

LEMMA CallUser ==
  ASSUME GateInv, CallInv, User
  PROVE  CallInv'
<1>0. purchases \in Seq(Purchase) /\ query \in Nat
  BY PurchasesAssumption DEF GateInv, Typed, TypeOK
<1>1. CASE StartTask
  <2>1. query' = query + 1 /\ purchases' = purchases /\ unfinished' /\ pc' = "think"
    BY <1>1 DEF StartTask, Begin, books
  <2>2. \A i \in DOMAIN purchases' : ~IsReceipt(i)'
    BY <1>0, <2>1, RecordFields DEF GateInv, PastQueries, IsReceipt
  <2>3. QED BY <2>1, <2>2 DEF CallInv
<1>2. CASE Resume
  <2>1. UNCHANGED <<purchases, query, ckpt, unfinished>> /\ unfinished /\ loop' = ckpt
        /\ pc' = IF ckpt.tool = NoTool THEN "think"
                 ELSE IF ckpt.result = "none" THEN "tool" ELSE "settle"
    BY <1>2 DEF Resume, Begin, disk, books
  <2>2. CASE ckpt.tool = NoTool
    <3>1. ckpt.tool.name # "call_paid_service" BY <2>2 DEF NoTool
    <3>2. pc' = "think" BY <2>1, <2>2
    <3>3. QED BY <2>1, <3>1, <3>2, SameReceipts DEF CallInv, OfCheckpoint
  <2>3. CASE ckpt.tool # NoTool
    <3>1. pc' \in {"tool", "settle"} BY <2>1, <2>3
    <3>2. QED BY <2>1, <3>1, SameReceipts DEF CallInv
  <2>4. QED BY <2>2, <2>3
<1>3. CASE ApprovePending
  BY <1>3, SameReceipts DEF ApprovePending, run, books, CallInv
<1>4. CASE DeclinePending
  BY <1>4, EndCall DEF DeclinePending, books
<1>5. QED BY <1>1, <1>2, <1>3, <1>4 DEF User

LEMMA CallModel ==
  ASSUME GateInv, CallInv, Model
  PROVE  CallInv'
<1> USE DEF books
<1>1. CASE Respond
  <2>1. PICK t \in Requests : loop' = [loop EXCEPT !.tool = t]
    BY <1>1 DEF Respond
  <2>2. loop'.turn = loop.turn
    BY <2>1 DEF GateInv, Typed, TypeOK, Loop
  <2>3. UNCHANGED <<purchases, query, unfinished>> /\ ckpt' = loop' /\ pc = "think" /\ pc' = "tool"
    BY <1>1 DEF Respond
  <2>4. \A i \in DOMAIN purchases' : IsReceipt(i)' => OfCheckpoint(i)'
    BY <2>2, <2>3, SameReceipts DEF CallInv, OfCheckpoint
  <2>5. QED BY <2>3, <2>4 DEF CallInv
<1>2. CASE ModelFails
  BY <1>2, EndCall DEF ModelFails, DeliverHeld
<1>3. CASE OutOfTurns
  BY <1>3, EndCall DEF OutOfTurns, DeliverHeld
<1>4. CASE Pause
  BY <1>4, EndCall DEF Pause, AskingPrice, DeliverHeld
<1>5. CASE Declined
  BY <1>5, EndCall DEF Declined, DeliverHeld, StopRun
<1>6. CASE ReplyUnsaved
  BY <1>6, EndCall DEF ReplyUnsaved
<1>7. QED BY <1>1, <1>2, <1>3, <1>4, <1>5, <1>6 DEF Model

LEMMA CallBuy ==
  ASSUME GateInv, CallInv, Buy
  PROVE  CallInv'
<1> USE DEF disk, books, GateInv
<1>1. CASE CallRefused
  BY <1>1, ReturnCall DEF CallRefused, Calling
<1>2. CASE FollowUpRead
  BY <1>2, ReturnCall DEF FollowUpRead, Calling
<1>3. CASE CallCleared
  BY <1>3, InsideCall DEF CallCleared, Calling
<1>4. CASE Fetch
  BY <1>4, InsideCall DEF Fetch, CallInv
<1>5. CASE FetchThrows
  BY <1>5, ReturnCall DEF FetchThrows
<1>6. CASE RecordPurchase
  <2>0. PICK n : n = Len(purchases) + 1
    OBVIOUS
  <2>1. UNCHANGED <<query, ckpt, unfinished, loop>> /\ pc = "book" /\ pc' = "finalize"
    BY <1>6 DEF RecordPurchase
  <2>2. NewPurchase.required = (answer \in Reviewable /\ enabled) /\ NewPurchase.turn = loop.turn
    BY DEF NewPurchase
  <2>3. Due \subseteq Due'
    BY <1>6, GrownStore, Zenon
  <2>4. ASSUME NEW i \in DOMAIN purchases, IsReceipt(i)' PROVE OfCheckpoint(i)'
    <3>1. purchases'[i] = purchases[i] BY <1>6, GrownStore
    <3>2. OfCheckpoint(i) BY <2>1, <2>4, <3>1 DEF IsReceipt, CallInv
    <3>3. QED BY <2>1, <2>3, <3>1, <3>2 DEF OfCheckpoint
  <2>5. ASSUME IsReceipt(n)' PROVE OfCheckpoint(n)'
    <3>1. purchases'[n] = NewPurchase BY <1>6, <2>0, GrownStore
    <3>2. answer \in Reviewable /\ enabled BY <2>2, <2>5, <3>1 DEF IsReceipt
    <3>3. n \in Due' BY <1>6, <2>0, <3>2, GrownStore
    <3>4. QED BY <2>1, <2>2, <3>1, <3>3 DEF OfCheckpoint, CallInv
  <2>6. DOMAIN purchases' = DOMAIN purchases \cup {n} BY <1>6, <2>0, GrownStore
  <2>7. \A i \in DOMAIN purchases' : IsReceipt(i)' => OfCheckpoint(i)'
    BY <2>4, <2>5, <2>6
  <2>8. QED BY <2>1, <2>7 DEF CallInv
<1>7. CASE SaveFails
  BY <1>7, ReturnCall DEF SaveFails
<1>8. CASE StatusFails
  BY <1>8, ReturnCall DEF StatusFails
<1>9. CASE Finalize
  BY <1>9, ReturnCall DEF Finalize
<1>10. QED BY <1>1, <1>2, <1>3, <1>4, <1>5, <1>6, <1>7, <1>8, <1>9 DEF Buy

\* A settled review is never one of the checkpointed call.
LEMMA SettleCall ==
  ASSUME GateInv, CallInv, Kept, UNCHANGED <<query, ckpt, unfinished>>,
         pc \notin {"idle", "think"}, pc' \notin {"idle", "think"},
         pc' \notin {"reserve", "book", "finalize"}, pc' = "skip" => pc = "skip",
         loop'.tool = loop.tool, loop'.turn = loop.turn,
         loop.tool.name # "call_paid_service"
  PROVE  CallInv'
<1>1. ASSUME NEW i \in DOMAIN purchases', IsReceipt(i)' PROVE OfCheckpoint(i)'
  <2>1. i \in DOMAIN purchases /\ IsReceipt(i)
    BY <1>1 DEF Kept, IsReceipt
  <2>2. OfCheckpoint(i) BY <2>1 DEF CallInv
  <2>3. purchases[i].turn < ckpt.turn BY <2>2 DEF OfCheckpoint, CallInv
  <2>4. QED BY <2>1, <2>3 DEF Kept, OfCheckpoint
<1>2. QED BY <1>1 DEF CallInv

LEMMA CallManage ==
  ASSUME GateInv, CallInv, Manage
  PROVE  CallInv'
<1> USE DEF disk, books, GateInv
<1>0. SwitchPreference \/ Kept
  BY ManageSteps DEF Ordinary
<1>1. CASE ReviewRefused
  BY <1>1, ReturnCall DEF ReviewRefused, Calling
<1>2. CASE ReviewSubmitted \/ ReviewRejected
  <2>1. pc = "tool" /\ loop.tool.name = "review_paid_service"
        /\ UNCHANGED <<query, ckpt, unfinished>> /\ (Return("ok") \/ Return("error"))
    BY <1>2, Zenon DEF ReviewSubmitted, ReviewRejected, CanReview, Calling
  <2>2. loop'.tool = loop.tool /\ loop'.turn = loop.turn /\ pc' = "result"
    BY <2>1, ReturnKeeps DEF Typed, TypeOK, Results
  <2>3. Kept BY <1>0, <2>1 DEF SwitchPreference, Calling
  <2>4. QED BY <2>1, <2>2, <2>3, SettleCall
<1>3. CASE SwitchRefused
  BY <1>3, ReturnCall DEF SwitchRefused, Calling
<1>4. CASE SwitchPreference
  <2>1. pc = "tool" /\ loop.tool.name = "set_crowdcode_enabled"
        /\ UNCHANGED <<purchases, query, ckpt, unfinished>>
    BY <1>4 DEF SwitchPreference, Calling
  <2>2. CASE Return("ok") BY <2>1, <2>2, ReturnCall
  <2>3. CASE pc' = "skip" /\ loop' = loop BY <2>1, <2>3, InsideCall
  <2>4. QED BY <1>4, <2>2, <2>3 DEF SwitchPreference
<1>5. CASE SkipReview
  <2>1. pc = "skip" /\ pc' = pc /\ loop' = loop /\ UNCHANGED <<query, ckpt, unfinished>>
    BY <1>5, Zenon DEF SkipReview, run
  <2>2. loop.tool.name = "set_crowdcode_enabled" BY <2>1 DEF CallInv
  <2>3. Kept BY <1>0, <2>1 DEF SwitchPreference, Calling
  <2>4. QED BY <2>1, <2>2, <2>3, SettleCall
<1>6. CASE SkipDone
  BY <1>6, ReturnCall DEF SkipDone
<1>7. CASE CompleteSession
  BY <1>7, ReturnCall DEF CompleteSession, Calling
<1>8. QED BY <1>1, <1>2, <1>3, <1>4, <1>5, <1>6, <1>7 DEF Manage

LEMMA CallTake ==
  ASSUME GateInv, CallInv, Take
  PROVE  CallInv'
<1> USE DEF books, GateInv
<1>1. CASE SaveResult
  <2>1. UNCHANGED <<purchases, query, unfinished>> /\ ckpt' = loop /\ loop' = loop
        /\ pc = "result" /\ pc' = "settle"
    BY <1>1 DEF SaveResult
  <2>2. \A i : IsReceipt(i) /\ OfCheckpoint(i) => OfCheckpoint(i)'
    BY <2>1, SameReceipts DEF CallInv, OfCheckpoint
  <2>3. QED BY <2>1, <2>2, SameReceipts DEF CallInv
<1>2. CASE ToolDone
  <2>1. PICK l \in Loop : l.turn = loop.turn /\ GoOn(NextTurn(l))
    BY <1>2, GoesOn
  <2>2. QED BY <1>2, <2>1, NextCall DEF ToolDone, Settling, GoOn
<1>3. CASE ToolFailed
  <2>1. PICK l \in Loop : l.turn = loop.turn /\ GoOn(NextTurn(l))
    BY <1>3, GoesOn
  <2>2. QED BY <1>3, <2>1, NextCall DEF ToolFailed, Settling, GoOn
<1>4. CASE GiveUp
  BY <1>4, EndCall DEF GiveUp, DeliverHeld, StopRun
<1>5. CASE CompletionGate
  <2>1. ASSUME NEW reply, NEW reflect \in BOOLEAN, Nudge(reply, reflect) PROVE CallInv'
    <3>1. PICK l \in Loop : l.turn = loop.turn /\ GoOn(NextTurn(l))
      BY <2>1, NudgeGoesOn
    <3>2. QED BY <2>1, <3>1, NextCall DEF Nudge, Completing, Settling, GoOn
  <2>2. ASSUME NEW reply, NEW reflect \in BOOLEAN, Complete(reply, reflect) PROVE CallInv'
    BY <2>2, EndCall DEF Complete, Completing, Settling
  <2>3. ASSUME NEW reply, StillBlocked(reply) PROVE CallInv'
    BY <2>3, EndCall DEF StillBlocked
  <2>4. QED BY <1>5, <2>1, <2>2, <2>3 DEF CompletionGate
<1>6. CASE GateFails
  BY <1>6, EndCall DEF GateFails, Completing, Settling
<1>7. CASE ResultUnsaved
  <2>1. UNCHANGED <<purchases, query, unfinished>> /\ pc = "result" /\ pc' = "idle"
        /\ (ckpt' = ckpt \/ ckpt' = loop)
    BY <1>7 DEF ResultUnsaved
  <2>2. \A i : IsReceipt(i) /\ OfCheckpoint(i) => OfCheckpoint(i)'
    BY <2>1, SameReceipts DEF CallInv, OfCheckpoint
  <2>3. QED BY <2>1, <2>2, SameReceipts DEF CallInv
<1>8. QED BY <1>1, <1>2, <1>3, <1>4, <1>5, <1>6, <1>7 DEF Take

LEMMA CallNext ==
  ASSUME GateInv, CallInv, [Next]_vars
  PROVE  CallInv'
<1>1. CASE Crash
  BY <1>1, SameReceipts DEF Crash, disk, books, CallInv
<1>2. CASE PreferenceSwitched \/ UNCHANGED vars
  <2>1. UNCHANGED <<purchases, query, ckpt, unfinished, pc, loop>>
    BY <1>2 DEF PreferenceSwitched, vars, run, disk, books
  <2>2. QED BY <2>1, SameReceipts DEF CallInv
<1>3. QED
  BY <1>1, <1>2, CallUser, CallModel, CallBuy, CallManage, CallTake DEF Next, Step

LEMMA ReceiptNext ==
  ASSUME ReceiptInv, [Next]_vars
  PROVE  ReceiptInv'
<1> USE DEF ReceiptInv
<1>1. AloneInv' BY AloneNext
<1>2. CallInv' BY CallNext DEF AloneInv
<1>3. Quiet' => Quiet BY Monotone DEF Quiet
<1>4. CASE Kept
  <2>1. OneReceiptPerCall'
    BY <1>3, <1>4 DEF Kept, OneReceiptPerCall, SameCall
  <2>2. QED BY <1>1, <1>2, <2>1
<1>5. CASE RecordPurchase
  <2> DEFINE n == Len(purchases) + 1
  <2>1. /\ DOMAIN purchases' = DOMAIN purchases \cup {n} /\ n \notin DOMAIN purchases
        /\ purchases'[n] = NewPurchase
        /\ \A i \in DOMAIN purchases : purchases'[i] = purchases[i]
    BY <1>5, GrownStore DEF AloneInv, GateInv
  <2>2. NewPurchase.required = (answer \in Reviewable /\ enabled) /\ NewPurchase.turn = loop.turn
        /\ NewPurchase.query = query
    BY DEF NewPurchase
  <2> HIDE DEF n
  <2>3. ASSUME Quiet', NEW i \in DOMAIN purchases, purchases[i].required,
               NewPurchase.required, purchases[i].query = query, purchases[i].turn = loop.turn
        PROVE  FALSE
    <3>1. pc = "book" BY <1>5 DEF RecordPurchase
    <3>2. ckpt.turn = loop.turn /\ OfCheckpoint(i)
      BY <2>3, <3>1 DEF CallInv, IsReceipt
    <3>3. i \in Due
      <4>1. loop.turn \in Nat
        BY LoopFields DEF AloneInv, GateInv, Typed, TypeOK
      <4>2. QED BY <2>3, <3>2, <4>1 DEF OfCheckpoint
    <3>4. Due = {}
      BY <1>3, <2>2, <2>3, <3>1 DEF AloneInv, ClearedAlone, Clearance, Clearing
    <3>5. QED BY <3>3, <3>4
  <2>4. OneReceiptPerCall'
    <3> SUFFICES ASSUME Quiet', NEW i \in DOMAIN purchases', NEW j \in DOMAIN purchases',
                        purchases'[i].required, purchases'[j].required, SameCall(i, j)'
                 PROVE  i = j
      BY DEF OneReceiptPerCall
    <3>1. CASE i \in DOMAIN purchases /\ j \in DOMAIN purchases
      BY <1>3, <2>1, <3>1 DEF OneReceiptPerCall, SameCall
    <3>2. CASE i \in DOMAIN purchases /\ j = n
      BY <2>1, <2>2, <2>3, <3>2 DEF SameCall
    <3>3. CASE i = n /\ j \in DOMAIN purchases
      BY <2>1, <2>2, <2>3, <3>3 DEF SameCall
    <3>4. QED BY <2>1, <3>1, <3>2, <3>3
  <2>5. QED BY <1>1, <1>2, <2>4
<1>6. QED BY <1>4, <1>5, KeptOrRecorded DEF AloneInv

\* However often a call is executed again after a crash, it leaves one
\* reviewable receipt (runtime.ts replays, gateway.ts:318-325 refuses).
THEOREM OneReceiptForEachCall == Spec => []OneReceiptPerCall
<1>1. Init => ReceiptInv
  BY CallInit, GateInvInit
  DEF Init, ReceiptInv, AloneInv, ClearedAlone, OneReviewDue, OneReceiptPerCall,
      Clearance, Clearing, Due
<1>2. ReceiptInv /\ [Next]_vars => ReceiptInv'
  BY ReceiptNext
<1>3. ReceiptInv => OneReceiptPerCall
  BY DEF ReceiptInv
<1>4. QED BY <1>1, <1>2, <1>3, PTL DEF Spec
=============================================================================
