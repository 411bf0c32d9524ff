--------------------------- MODULE ModelCallsProof ---------------------------
(***************************************************************************)
(* Model calls, for any number of callers, slots and calls and whatever    *)
(* the lanes and the sellers do: what a call paid is charged or reserved,  *)
(* and it pays once, but for answers that were cut off and a payment that  *)
(* a cancel dropped; what is taken from a streamed answer is the answer.   *)
(*                                                                         *)
(* The first two hold together: an attempt is begun with nothing settled   *)
(* but what was cut off, is signed with a reservation, and what it leaves  *)
(* settled ends the ladder - in a completion that is booked, in an error   *)
(* called uncertain, or in a cancel.  The lanes are a matter of their own: *)
(* who stands in one, and who is served, follows from where the calls are. *)
(***************************************************************************)
EXTENDS ModelCalls, Stream, SequenceTheorems, FiniteSetTheorems, TLAPS

\* Nothing is settled but what was cut off.
Even(it) == it.settled <= it.cut
\* One call's part of the invariant.
Kept(it) ==
  /\ it.settled <= it.cut + 1
  /\ it.pc \in {"sign", "sent", "body"} => it.owed
  /\ ~Even(it) =>
       \/ it.pc = "book" /\ it.paid /\ it.owed
       \/ it.pc \in {"failed", "catch"} /\ it.err = "uncertain" /\ it.owed
       \/ it.pc \in {"catch", "idle"} /\ it.dropped

CallsInv ==
  /\ primary \in Kinds /\ aborted \in BOOLEAN
  /\ call \in [Callers -> Call]
  /\ \A c \in Callers : Kept(call[c])

-----------------------------------------------------------------------------
\* A call that is set to a record that is kept leaves the invariant as it was.
LEMMA SetKeeps ==
  ASSUME CallsInv, NEW c \in Callers, NEW new \in Call, Kept(new), Set(c, new),
         UNCHANGED <<primary, aborted>>
  PROVE  CallsInv'
BY DEF CallsInv, Set, Kept, Call

\* One whose place alone changes, to one that asks for no more.
LEMMA GotoKeeps ==
  ASSUME CallsInv, NEW c \in Callers, NEW pc \in PCs, Goto(c, pc), Kept([call[c] EXCEPT !.pc = pc]),
         UNCHANGED <<primary, aborted>>
  PROVE  CallsInv'
<1>1. [call[c] EXCEPT !.pc = pc] \in Call BY DEF CallsInv, Call
<1>2. Set(c, [call[c] EXCEPT !.pc = pc]) BY DEF Set, Goto, CallsInv
<1> QED BY <1>1, <1>2, SetKeeps

\* A new call begins with nothing settled.
LEMMA StartKept ==
  ASSUME NEW kind \in Kinds
  PROVE  /\ Start(kind) \in Call /\ Kept(Start(kind)) /\ Even(Start(kind))
<1>1. 0 \in Nat /\ 0 \in 0..2 OBVIOUS
<1>2. Start(kind) \in Call BY <1>1 DEF Start, Call, PCs, Rungs, Errors
<1>3. Start(kind).settled = 0 /\ Start(kind).cut = 0 /\ Start(kind).pc = "idle" BY DEF Start
<1>4. Even(Start(kind)) BY <1>3 DEF Even
<1>5. Kept(Start(kind)) BY <1>3, <1>4 DEF Kept
<1> QED BY <1>2, <1>4, <1>5

LEMMA BackupIsAKind == Backup \in Kinds
BY DEF Backup, Kinds

\* An attempt that throws.
LEMMA FailKeeps ==
  ASSUME CallsInv, NEW c \in Callers, NEW err \in Errors, NEW settled \in {0, 1},
         Even(call[c]), settled = 1 => call[c].owed /\ err = "uncertain",
         Fail(c, err, settled), UNCHANGED <<primary, aborted>>
  PROVE  CallsInv'
<1> DEFINE sum == call[c].settled + settled
           new == [call[c] EXCEPT !.pc = "failed", !.err = err, !.settled = sum]
<1>1. call[c] \in Call BY DEF CallsInv
<1>2. sum \in Nat /\ call[c].settled \in Nat /\ call[c].cut \in Nat BY <1>1 DEF Call
<1>3. new \in Call BY <1>1, <1>2 DEF Call, PCs
<1>4. new.settled = sum /\ new.cut = call[c].cut /\ new.pc = "failed" /\ new.err = err
      /\ new.owed = call[c].owed
  BY <1>1 DEF Call
<1>5. Set(c, new) BY DEF Fail
<1>7. sum <= call[c].cut + 1 /\ (settled = 0 => sum <= call[c].cut) BY <1>2 DEF Even
<1> HIDE DEF new, sum
<1>8. new.settled <= new.cut + 1 /\ (settled = 0 => Even(new)) BY <1>4, <1>7 DEF Even
<1>9. settled = 1 => new.owed /\ new.err = "uncertain" BY <1>4
<1>6. Kept(new) BY <1>4, <1>8, <1>9 DEF Kept
<1> QED BY <1>3, <1>5, <1>6, SetKeeps

\* One whose paid answer is cut off.
LEMMA CutOffKeeps ==
  ASSUME CallsInv, NEW c \in Callers, Lost \in Errors, Even(call[c]),
         CutOff(c), UNCHANGED <<primary, aborted>>
  PROVE  CallsInv'
<1> DEFINE sum == call[c].settled + 1
           cuts == call[c].cut + 1
           new == [call[c] EXCEPT !.pc = "failed", !.err = Lost, !.settled = sum, !.cut = cuts]
<1>1. call[c] \in Call BY DEF CallsInv
<1>2. sum \in Nat /\ cuts \in Nat /\ sum <= cuts BY <1>1 DEF Call, Even
<1>3. new \in Call BY <1>1, <1>2 DEF Call, PCs
<1>4. new.settled = sum /\ new.cut = cuts /\ new.pc = "failed" BY <1>1 DEF Call
<1>5. Set(c, new) BY DEF CutOff
<1> HIDE DEF new
<1>6. Even(new) BY <1>2, <1>4 DEF Even
<1>7. Kept(new) BY <1>2, <1>4, <1>6 DEF Kept
<1> QED BY <1>3, <1>5, <1>7, SetKeeps

LEMMA AnswerKeeps ==
  ASSUME CallsInv, NEW c \in Callers, NEW paid \in BOOLEAN,
         Even(call[c]), paid => call[c].owed,
         Answer(c, paid), UNCHANGED <<primary, aborted>>
  PROVE  CallsInv'
<1> DEFINE more == IF paid THEN 1 ELSE 0
           sum == call[c].settled + more
           new == [call[c] EXCEPT !.pc = "book", !.paid = paid, !.settled = sum]
<1>1. call[c] \in Call BY DEF CallsInv
<1>8. more \in {0, 1} /\ (more = 1 => paid) OBVIOUS
<1>2. sum \in Nat /\ call[c].settled \in Nat /\ call[c].cut \in Nat BY <1>1, <1>8 DEF Call
<1>3. new \in Call BY <1>1, <1>2 DEF Call, PCs
<1>4. new.settled = sum /\ new.cut = call[c].cut /\ new.pc = "book" /\ new.paid = paid
      /\ new.owed = call[c].owed
  BY <1>1 DEF Call
<1>5. Set(c, new) BY DEF Answer
<1>7. sum <= call[c].cut + 1 /\ (more = 0 => sum <= call[c].cut) BY <1>2, <1>8 DEF Even
<1> HIDE DEF new, more, sum
<1>9. new.settled <= new.cut + 1 /\ (more = 0 => Even(new)) BY <1>4, <1>7 DEF Even
<1>10. more = 1 => new.owed /\ new.paid BY <1>4, <1>8
<1>6. Kept(new) BY <1>4, <1>8, <1>9, <1>10 DEF Kept
<1> QED BY <1>3, <1>5, <1>6, SetKeeps

LEMMA ReserveKeeps ==
  ASSUME CallsInv, NEW c \in Callers, NEW next \in {"request", "sign"},
         Even(call[c]), Reserve(c, next), UNCHANGED <<primary, aborted>>
  PROVE  CallsInv'
<1> DEFINE held == [call[c] EXCEPT !.owed = TRUE, !.pc = next]
           not  == [call[c] EXCEPT !.owed = FALSE, !.pc = "failed", !.err = "fatal"]
<1>1. call[c] \in Call BY DEF CallsInv
<1>2. held \in Call /\ not \in Call BY <1>1 DEF Call, PCs, Errors
<1>3. Kept(held) /\ Kept(not) BY <1>1 DEF Call, Kept, Even
<1>4. Set(c, held) \/ Set(c, not) BY DEF Reserve
<1> QED BY <1>2, <1>3, <1>4, SetKeeps

\* Where nothing but what was cut off can be settled yet.
LEMMA Unsettled ==
  ASSUME CallsInv, NEW c \in Callers, call[c].pc \notin {"book", "failed", "catch", "idle"}
  PROVE  call[c] \in Call /\ Even(call[c])
BY DEF CallsInv, Kept, Call

LEMMA BeginKeeps ==
  ASSUME CallsInv, NEW c \in Callers, Begin(c)
  PROVE  CallsInv'
<1> DEFINE kind  == IF Degraded THEN Backup ELSE primary
           early == mode = "ask" \/ failovers < Threshold
           new   == [Start(kind) EXCEPT !.pc = "attempt", !.early = early]
<1>1. kind \in Kinds BY BackupIsAKind DEF CallsInv
<1>2. Start(kind) \in Call /\ Even(Start(kind)) BY <1>1, StartKept
<1>3. early \in BOOLEAN OBVIOUS
<1>4. new \in Call BY <1>2, <1>3 DEF Call, PCs
<1>5. Kept(new)
  <2>1. new.settled = 0 /\ new.cut = 0 /\ new.pc = "attempt" BY <1>2 DEF Call, Start
  <2> HIDE DEF new
  <2> QED BY <2>1 DEF Kept, Even
<1>6. Set(c, new) /\ UNCHANGED <<primary, aborted>> BY DEF Begin
<1> QED BY <1>4, <1>5, <1>6, SetKeeps

LEMMA AttemptKeeps ==
  ASSUME CallsInv, NEW c \in Callers, Attempt(c)
  PROVE  CallsInv'
<1>0. UNCHANGED <<primary, aborted>> BY DEF Attempt
<1>1. call[c] \in Call /\ Even(call[c]) BY Unsettled DEF Attempt, At
<1>2. CASE Reserve(c, "request") BY <1>0, <1>1, <1>2, ReserveKeeps
<1>3. CASE Goto(c, "request")
  <2>1. Kept([call[c] EXCEPT !.pc = "request"]) BY <1>1 DEF Kept, Even, Call
  <2>2. "request" \in PCs BY DEF PCs
  <2> QED BY <1>0, <1>3, <2>1, <2>2, GotoKeeps
<1>4. ASSUME NEW new \in {[call[c] EXCEPT !.pc = "queued", !.resigned = FALSE],
                          [call[c] EXCEPT !.pc = "queued", !.signs = 0]},
             Set(c, new)
      PROVE  CallsInv'
  <2>1. 0 \in 0..2 OBVIOUS
  <2>2. new \in Call BY <1>1, <2>1 DEF Call, PCs
  <2>3. new.settled = call[c].settled /\ new.cut = call[c].cut /\ new.pc = "queued"
    BY <1>1, <1>4 DEF Call
  <2>5. call[c].settled \in Nat /\ call[c].cut \in Nat BY <1>1 DEF Call
  <2>6. Even(new) /\ new.settled <= new.cut + 1 BY <1>1, <2>3, <2>5 DEF Even
  <2>4. Kept(new) BY <2>3, <2>6 DEF Kept
  <2> QED BY <1>0, <1>4, <2>2, <2>4, SetKeeps
<1> QED BY <1>2, <1>3, <1>4 DEF Attempt

LEMMA TurnKeeps ==
  ASSUME CallsInv, NEW c \in Callers, Turn(c)
  PROVE  CallsInv'
<1> DEFINE pc == IF Proxy(c) /\ challenge THEN "authorize" ELSE "request"
<1>1. call[c] \in Call /\ Even(call[c]) BY Unsettled DEF Turn, At
<1>2. pc \in PCs /\ pc \in {"authorize", "request"} BY DEF PCs
<1>3. Kept([call[c] EXCEPT !.pc = pc]) BY <1>1, <1>2 DEF Kept, Even, Call
<1>4. Goto(c, pc) /\ UNCHANGED <<primary, aborted>> BY DEF Turn, shared
<1> QED BY <1>2, <1>3, <1>4, GotoKeeps

LEMMA LostIsAnError == Lost \in {"fatal", "transient"} /\ Lost \in Errors
BY DEF Lost, Errors

LEMMA RequestKeeps ==
  ASSUME CallsInv, NEW c \in Callers, Request(c)
  PROVE  CallsInv'
<1>0. UNCHANGED <<primary, aborted>> BY DEF Request
<1>1. call[c] \in Call /\ Even(call[c]) BY Unsettled DEF Request, At
<1> DEFINE signs == IF Proxy(c) THEN 1 ELSE 0
           new   == [call[c] EXCEPT !.pc = "authorize", !.signs = signs]
<1>2. CASE Set(c, new)
  <2>1. signs \in 0..2 OBVIOUS
  <2>2. new \in Call BY <1>1, <2>1 DEF Call, PCs
  <2>3. Kept(new) BY <1>1 DEF Kept, Even, Call
  <2> QED BY <1>0, <1>2, <2>2, <2>3, SetKeeps
<1>3. ASSUME NEW err \in {"fatal", Lost, "credit"}, Fail(c, err, 0) PROVE CallsInv'
  <2>1. err \in Errors BY LostIsAnError DEF Errors
  <2>2. 0 \in {0, 1} /\ 0 # 1 OBVIOUS
  <2> QED BY <1>0, <1>1, <1>3, <2>1, <2>2, FailKeeps
<1>4. CASE Answer(c, FALSE) BY <1>0, <1>1, <1>4, AnswerKeeps
<1> QED BY <1>2, <1>3, <1>4 DEF Request

LEMMA AuthorizeKeeps ==
  ASSUME CallsInv, NEW c \in Callers, Authorize(c)
  PROVE  CallsInv'
<1>1. call[c] \in Call /\ Even(call[c]) BY Unsettled DEF Authorize, At
<1> QED BY <1>1, ReserveKeeps DEF Authorize

LEMMA SignKeeps ==
  ASSUME CallsInv, NEW c \in Callers, Sign(c)
  PROVE  CallsInv'
<1>0. UNCHANGED <<primary, aborted>> BY DEF Sign
<1>1. call[c] \in Call /\ Even(call[c]) /\ call[c].owed
  BY Unsettled DEF Sign, At, CallsInv, Kept
<1>2. CASE Goto(c, "sent")
  <2>1. Kept([call[c] EXCEPT !.pc = "sent"]) BY <1>1 DEF Kept, Even, Call
  <2>2. "sent" \in PCs BY DEF PCs
  <2> QED BY <1>0, <1>2, <2>1, <2>2, GotoKeeps
<1>3. ASSUME NEW err \in {"fatal", "transient"}, Fail(c, err, 0) PROVE CallsInv'
  <2>1. err \in Errors BY DEF Errors
  <2>2. 0 \in {0, 1} /\ 0 # 1 OBVIOUS
  <2> QED BY <1>0, <1>1, <1>3, <2>1, <2>2, FailKeeps
<1> QED BY <1>2, <1>3 DEF Sign

LEMMA SentKeeps ==
  ASSUME CallsInv, NEW c \in Callers, Sent(c)
  PROVE  CallsInv'
<1>0. UNCHANGED <<primary, aborted>> BY DEF Sent
<1>1. call[c] \in Call /\ Even(call[c]) /\ call[c].owed
  BY Unsettled DEF Sent, At, CallsInv, Kept
<1>2. CASE Goto(c, "body")
  <2>1. Kept([call[c] EXCEPT !.pc = "body"]) BY <1>1 DEF Kept, Even, Call
  <2>2. "body" \in PCs BY DEF PCs
  <2> QED BY <1>0, <1>2, <2>1, <2>2, GotoKeeps
<1>3. CASE Answer(c, TRUE) BY <1>0, <1>1, <1>3, AnswerKeeps
<1>4. ASSUME NEW settled \in {0, 1}, Fail(c, "uncertain", settled) PROVE CallsInv'
  <2>1. "uncertain" \in Errors BY DEF Errors
  <2> QED BY <1>0, <1>1, <1>4, <2>1, FailKeeps
<1>5. ASSUME NEW err \in {"transient", "fatal"}, Fail(c, err, 0) PROVE CallsInv'
  <2>1. err \in Errors BY DEF Errors
  <2>2. 0 \in {0, 1} /\ 0 # 1 OBVIOUS
  <2> QED BY <1>0, <1>1, <1>5, <2>1, <2>2, FailKeeps
<1> DEFINE again == [call[c] EXCEPT !.pc = "request", !.resigned = TRUE]
           more  == [call[c] EXCEPT !.pc = "authorize", !.signs = @ + 1]
<1>6. CASE Set(c, again)
  <2>1. again \in Call BY <1>1 DEF Call, PCs
  <2>2. Kept(again) BY <1>1 DEF Kept, Even, Call
  <2> QED BY <1>0, <1>6, <2>1, <2>2, SetKeeps
<1>7. CASE call[c].signs < 2 /\ Set(c, more)
  <2>1. call[c].signs \in 0..2 BY <1>1 DEF Call
  <2>2. call[c].signs + 1 \in 0..2 BY <1>7, <2>1
  <2>3. more \in Call BY <1>1, <2>2 DEF Call, PCs
  <2>4. Kept(more) BY <1>1 DEF Kept, Even, Call
  <2> QED BY <1>0, <1>7, <2>3, <2>4, SetKeeps
<1> QED BY <1>2, <1>3, <1>4, <1>5, <1>6, <1>7 DEF Sent

LEMMA BodyKeeps ==
  ASSUME CallsInv, NEW c \in Callers, Body(c)
  PROVE  CallsInv'
<1>0. UNCHANGED <<primary, aborted>> BY DEF Body
<1>1. call[c] \in Call /\ Even(call[c]) /\ call[c].owed
  BY Unsettled DEF Body, At, CallsInv, Kept
<1>2. CASE Answer(c, TRUE) BY <1>0, <1>1, <1>2, AnswerKeeps
<1>3. CASE Fail(c, "uncertain", 1)
  <2>1. "uncertain" \in Errors /\ 1 \in {0, 1} BY DEF Errors
  <2> QED BY <1>0, <1>1, <1>3, <2>1, FailKeeps
<1>4. CASE CutOff(c) BY <1>0, <1>1, <1>4, LostIsAnError, CutOffKeeps
<1> QED BY <1>2, <1>3, <1>4 DEF Body

-----------------------------------------------------------------------------
\* An attempt is made again only when nothing is settled.
LEMMA AgainKeeps ==
  ASSUME CallsInv, NEW c \in Callers, NEW rung \in Rungs, Even(call[c]),
         Again(c, rung), UNCHANGED <<primary, aborted>>
  PROVE  CallsInv'
<1> DEFINE new == [call[c] EXCEPT !.pc = "attempt", !.rung = rung, !.err = "none"]
<1>1. call[c] \in Call BY DEF CallsInv
<1>2. new \in Call BY <1>1 DEF Call, PCs, Errors
<1>3. Kept(new) BY <1>1 DEF Call, Kept, Even
<1>4. Set(c, new) BY DEF Again
<1> QED BY <1>2, <1>3, <1>4, SetKeeps

\* A failure that is not uncertain has settled nothing but what was cut off.
LEMMA FailedIsKept ==
  ASSUME CallsInv, NEW c \in Callers, call[c].pc = "failed"
  PROVE  /\ call[c] \in Call
         /\ call[c].err # "uncertain" => Even(call[c])
         /\ Kept([call[c] EXCEPT !.pc = "catch"])
BY DEF CallsInv, Kept, Even, Call

LEMMA EscalateKeeps ==
  ASSUME CallsInv, NEW c \in Callers, Escalate(c)
  PROVE  CallsInv'
<1>0. UNCHANGED <<primary, aborted>> BY DEF Escalate, shared
<1>1. call[c] \in Call /\ (call[c].err # "uncertain" => Even(call[c]))
      /\ Kept([call[c] EXCEPT !.pc = "catch"])
  BY FailedIsKept DEF Escalate, At
<1>2. CASE aborted
  <2> DEFINE lost == Uncertain(c) /\ call[c].settled > 0
             new == [call[c] EXCEPT !.pc = "catch", !.err = "fatal", !.dropped = lost]
  <2>1. new \in Call BY <1>1 DEF Call, PCs, Errors
  <2>2. new.settled = call[c].settled /\ new.cut = call[c].cut /\ new.pc = "catch"
        /\ new.dropped = lost
    BY <1>1 DEF Call
  <2>3. call[c].settled \in Nat /\ call[c].cut \in Nat /\ call[c].settled <= call[c].cut + 1
    BY <1>1 DEF Call, CallsInv, Kept
  <2>4. Set(c, new) BY <1>2 DEF Escalate
  <2>5. ~Even(call[c]) => lost BY <1>1, <2>3 DEF Even, Uncertain
  <2> HIDE DEF new, lost
  <2>6. Kept(new) BY <2>2, <2>3, <2>5 DEF Kept, Even
  <2> QED BY <1>0, <2>1, <2>4, <2>6, SetKeeps
<1>3. CASE ~aborted /\ call[c].err = "credit"
  <2>1. Goto(c, "topup") BY <1>3 DEF Escalate
  <2>2. Kept([call[c] EXCEPT !.pc = "topup"]) BY <1>1, <1>3 DEF Kept, Even, Call
  <2>3. "topup" \in PCs BY DEF PCs
  <2> QED BY <1>0, <2>1, <2>2, <2>3, GotoKeeps
<1>4. CASE ~aborted /\ call[c].err = "transient"
  <2>1. Again(c, "retry") BY <1>4 DEF Escalate
  <2>2. "retry" \in Rungs BY DEF Rungs
  <2> QED BY <1>0, <1>1, <1>4, <2>1, <2>2, AgainKeeps
<1>5. CASE ~aborted /\ call[c].err # "credit" /\ call[c].err # "transient"
  <2>1. Goto(c, "catch") BY <1>5 DEF Escalate
  <2>2. "catch" \in PCs BY DEF PCs
  <2> QED BY <1>0, <1>1, <2>1, <2>2, GotoKeeps
<1> QED BY <1>2, <1>3, <1>4, <1>5 DEF CallsInv

LEMMA RescueKeeps ==
  ASSUME CallsInv, NEW c \in Callers, Rescue(c)
  PROVE  CallsInv'
<1> DEFINE new == [call[c] EXCEPT !.pc = "attempt", !.rung = "rescue", !.err = "none",
                                  !.used = Backup]
<1>1. call[c] \in Call /\ Even(call[c]) BY FailedIsKept DEF Rescue, At
<1>2. new \in Call BY <1>1, BackupIsAKind DEF Call, PCs, Errors, Rungs
<1>3. Kept(new) BY <1>1 DEF Call, Kept, Even
<1>4. Set(c, new) /\ UNCHANGED <<primary, aborted>> BY DEF Rescue
<1> QED BY <1>2, <1>3, <1>4, SetKeeps

LEMMA GiveUpKeeps ==
  ASSUME CallsInv, NEW c \in Callers, GiveUp(c)
  PROVE  CallsInv'
<1>1. Kept([call[c] EXCEPT !.pc = "catch"]) BY FailedIsKept DEF GiveUp, At
<1>2. "catch" \in PCs BY DEF PCs
<1>3. Goto(c, "catch") /\ UNCHANGED <<primary, aborted>> BY DEF GiveUp, shared
<1> QED BY <1>1, <1>2, <1>3, GotoKeeps

LEMMA TopUpKeeps ==
  ASSUME CallsInv, NEW c \in Callers, TopUp(c) \/ Deposit(c)
  PROVE  CallsInv'
<1>0. UNCHANGED <<primary, aborted>> BY DEF TopUp, Deposit, shared
<1>1. call[c] \in Call /\ Even(call[c]) BY Unsettled DEF TopUp, Deposit, At
<1>2. ASSUME NEW pc \in {"catch", "deposit"}, Goto(c, pc) PROVE CallsInv'
  <2>1. Kept([call[c] EXCEPT !.pc = pc]) BY <1>1 DEF Kept, Even, Call
  <2>2. pc \in PCs BY DEF PCs
  <2> QED BY <1>0, <1>2, <2>1, <2>2, GotoKeeps
<1>3. CASE Again(c, "topped")
  <2>1. "topped" \in Rungs BY DEF Rungs
  <2> QED BY <1>0, <1>1, <1>3, <2>1, AgainKeeps
<1> QED BY <1>2, <1>3 DEF TopUp, Deposit

\* What ends leaves nothing settled but what was cut off or dropped: a payment is charged
\* where it may have been made.
LEMMA EndKeeps ==
  ASSUME CallsInv, NEW c \in Callers, NEW cost \in {0, 1},
         Even(call[c]) \/ cost = 1 \/ call[c].dropped,
         End(c, cost), UNCHANGED <<primary, aborted>>
  PROVE  CallsInv'
<1> DEFINE left == call[c].settled - cost
           new  == [Start(primary) EXCEPT !.settled = left, !.cut = call[c].cut,
                                          !.dropped = call[c].dropped]
<1>1. Start(primary) \in Call /\ Kept(Start(primary)) BY StartKept DEF CallsInv
<1>2. CASE call[c].settled <= cost
  <2>1. Set(c, Start(primary)) BY <1>2 DEF End
  <2> QED BY <1>1, <2>1, SetKeeps
<1>3. CASE ~(call[c].settled <= cost)
  <2>1. call[c] \in Call /\ call[c].settled \in Nat /\ call[c].cut \in Nat
        /\ call[c].dropped \in BOOLEAN /\ call[c].settled <= call[c].cut + 1
    BY DEF CallsInv, Call, Kept
  <2>2. left \in Nat /\ left <= call[c].cut + 1 /\ (left <= call[c].cut \/ call[c].dropped)
    BY <1>3, <2>1 DEF Even
  <2>3. new \in Call BY <1>1, <2>1, <2>2 DEF Call
  <2>4. new.settled = left /\ new.cut = call[c].cut /\ new.dropped = call[c].dropped /\ new.pc = "idle"
    BY <1>1 DEF Call, Start
  <2>5. Set(c, new) BY <1>3 DEF End
  <2> HIDE DEF new, left
  <2>6. Kept(new) BY <2>1, <2>2, <2>4 DEF Kept, Even
  <2> QED BY <2>3, <2>5, <2>6, SetKeeps
<1> QED BY <1>2, <1>3

LEMMA BookKeeps ==
  ASSUME CallsInv, NEW c \in Callers, Book(c)
  PROVE  CallsInv'
<1>1. Even(call[c]) \/ call[c].paid BY DEF Book, At, CallsInv, Kept
<1>2. PICK cost \in IF call[c].paid THEN {1} ELSE IF call[c].owed THEN {0, 1} ELSE {0} : End(c, cost)
  BY DEF Book
<1>3. cost \in {0, 1} /\ (call[c].paid => cost = 1) BY <1>2
<1>4. UNCHANGED <<primary, aborted>> BY DEF Book
<1> QED BY <1>1, <1>2, <1>3, <1>4, EndKeeps

LEMMA CatchKeeps ==
  ASSUME CallsInv, NEW c \in Callers, Catch(c)
  PROVE  CallsInv'
<1> DEFINE cost == IF call[c].owed /\ Uncertain(c) THEN 1 ELSE 0
<1>1. Even(call[c]) \/ (call[c].owed /\ call[c].err = "uncertain") \/ call[c].dropped
  <2>1. call[c].pc = "catch" /\ Kept(call[c]) BY DEF Catch, At, CallsInv
  <2> QED BY <2>1 DEF Kept
<1>2. cost \in {0, 1} /\ (Even(call[c]) \/ cost = 1 \/ call[c].dropped) BY <1>1 DEF Uncertain
<1>3. End(c, cost) /\ UNCHANGED <<primary, aborted>> BY DEF Catch, shared
<1> QED BY <1>2, <1>3, EndKeeps

-----------------------------------------------------------------------------
LEMMA CallsInitially == Init => CallsInv
<1> SUFFICES ASSUME Init PROVE CallsInv OBVIOUS
<1>1. primary \in Kinds /\ aborted \in BOOLEAN BY ModelCallsAssumption DEF Init
<1>2. Start(primary) \in Call /\ Kept(Start(primary)) BY <1>1, StartKept
<1> QED BY <1>1, <1>2 DEF Init, CallsInv

LEMMA CallsStep == CallsInv /\ [Next]_vars => CallsInv'
<1> SUFFICES ASSUME CallsInv, [Next]_vars PROVE CallsInv' OBVIOUS
<1>1. CASE UNCHANGED vars BY <1>1 DEF vars, shared, CallsInv
<1>2. CASE Abort \/ NewRun BY <1>2 DEF Abort, NewRun, CallsInv
<1>3. ASSUME NEW c \in Callers, Begin(c) PROVE CallsInv' BY <1>3, BeginKeeps
<1>4. ASSUME NEW c \in Callers, Step(c) PROVE CallsInv'
  BY <1>4, AttemptKeeps, TurnKeeps, RequestKeeps, AuthorizeKeeps, SignKeeps, SentKeeps,
     BodyKeeps, EscalateKeeps, RescueKeeps, GiveUpKeeps, TopUpKeeps, BookKeeps, CatchKeeps DEF Step
<1> QED BY <1>1, <1>2, <1>3, <1>4 DEF Next

LEMMA CallsAlways == Spec => []CallsInv
BY CallsInitially, CallsStep, PTL DEF Spec

\* What was paid for a model call is charged or still reserved, in every behaviour, except
\* the answers of Venice that were cut off (crowdcode-venice.ts:145) and the payment that
\* was uncertain when its run was cancelled (index.ts:427): no other payment is lost.
THEOREM PaymentsAreAccounted == Spec => []PaidIsAccounted
<1>1. ASSUME CallsInv, NEW c \in Callers
      PROVE  call[c].settled <= One(call[c].owed) + call[c].cut + One(call[c].dropped)
  <2>1. call[c].settled \in Nat /\ call[c].cut \in Nat BY <1>1 DEF CallsInv, Call
  <2>2. /\ call[c].settled <= call[c].cut + 1
        /\ call[c].settled <= call[c].cut \/ call[c].owed \/ call[c].dropped
    BY <1>1 DEF CallsInv, Kept, Even
  <2> QED BY <2>1, <2>2 DEF One
<1>2. CallsInv => PaidIsAccounted BY <1>1 DEF PaidIsAccounted
<1> QED BY <1>2, CallsAlways, PTL

\* A retry, a rescue or a top-up pays a second time for a call only after an answer of
\* Venice that was cut off, once for each; no other payment that may have been settled is
\* followed by another (index.ts:427-467, crowdcode-venice.ts:145).
THEOREM OnlyCutOffsPayAgain == Spec => []PaidOnceButForCuts
<1>1. ASSUME CallsInv, NEW c \in Callers PROVE call[c].settled <= 1 + call[c].cut
  <2>1. call[c].settled \in Nat /\ call[c].cut \in Nat BY <1>1 DEF CallsInv, Call
  <2>2. call[c].settled <= call[c].cut + 1 BY <1>1 DEF CallsInv, Kept
  <2> QED BY <2>1, <2>2
<1>2. CallsInv => PaidOnceButForCuts BY <1>1 DEF PaidOnceButForCuts
<1> QED BY <1>2, CallsAlways, PTL

-----------------------------------------------------------------------------
(***************************************************************************)
(* The lanes.  Who is in one is known from the calls: a call of Venice     *)
(* stands in its lane once until it is settled, and its first is served;   *)
(* the count of the proxy's slots is that of its calls that do not wait.   *)
(***************************************************************************)
Within == {"queued", "request", "authorize", "sign", "sent", "body"}
Served == {"request", "authorize", "sign", "sent", "body"}
In(c, kind) == call[c].used = kind /\ call[c].pc \in Within

Has(s, x) == \E i \in 1..Len(s) : s[i] = x
Once(s)   == \A i, j \in 1..Len(s) : s[i] = s[j] => i = j

LaneInv ==
  /\ lane \in Seq(Callers) /\ Once(lane)
  /\ \A c \in Callers : In(c, "venice") <=> Has(lane, c)
  /\ \A c \in Callers : In(c, "venice") /\ ~At(c, "queued") => lane[1] = c

Holders == {c \in Callers : In(c, "openrouter-x402-proxy") /\ ~Has(slots.waiters, c)}
SlotsInv ==
  /\ slots \in [active : 0..MaxSlots, waiters : Seq(Callers)] /\ Once(slots.waiters)
  /\ \A c \in Callers : Has(slots.waiters, c) =>
                          In(c, "openrouter-x402-proxy") /\ At(c, "queued")
  /\ IsFiniteSet(Holders) /\ Cardinality(Holders) = slots.active

LanesInv == LaneInv /\ SlotsInv

LEMMA JoinedOnce ==
  ASSUME NEW S, NEW s \in Seq(S), NEW x \in S, Once(s), ~Has(s, x)
  PROVE  /\ Append(s, x) \in Seq(S) /\ Once(Append(s, x))
         /\ \A y : Has(Append(s, x), y) <=> Has(s, y) \/ y = x
         /\ \A y : Has(s, y) => Append(s, x)[1] = s[1]
<1> DEFINE t == Append(s, x)
<1>1. t \in Seq(S) /\ Len(t) = Len(s) + 1 /\ Len(s) \in Nat
      /\ (\A i \in 1..Len(s) : t[i] = s[i]) /\ t[Len(s) + 1] = x
  BY AppendProperties, LenProperties
<1> HIDE DEF t
<1>2. \A i \in 1..Len(t) : i \in 1..Len(s) \/ i = Len(s) + 1 BY <1>1
<1>3. 1..Len(s) \subseteq 1..Len(t) /\ Len(s) + 1 \in 1..Len(t) BY <1>1
<1>4. Once(t) BY <1>1, <1>2 DEF Once, Has
<1>5. \A y : Has(t, y) <=> Has(s, y) \/ y = x BY <1>1, <1>2, <1>3 DEF Has
<1>6. ASSUME NEW y, Has(s, y) PROVE t[1] = s[1]
  <2>1. 1 \in 1..Len(s) BY <1>1, <1>6 DEF Has
  <2> QED BY <2>1, <1>1
<1> QED BY <1>1, <1>4, <1>5, <1>6 DEF t

LEMMA LeftOnce ==
  ASSUME NEW S, NEW s \in Seq(S), Once(s), s # <<>>
  PROVE  /\ Tail(s) \in Seq(S) /\ Once(Tail(s)) /\ s[1] \in S
         /\ \A y : Has(Tail(s), y) <=> Has(s, y) /\ y # s[1]
<1> DEFINE t == Tail(s)
<1>1. t \in Seq(S) /\ Len(t) = Len(s) - 1 /\ Len(s) \in Nat \ {0}
      /\ (\A i \in 1..Len(t) : t[i] = s[i + 1])
  BY HeadTailProperties, LenProperties, EmptySeq
<1>2. s[1] \in S /\ 1 \in 1..Len(s) BY <1>1, ElementOfSeq
<1> HIDE DEF t
<1>3. \A i \in 1..Len(t) : i + 1 \in 1..Len(s) /\ i + 1 # 1 BY <1>1
<1>4. \A i \in 1..Len(s) : i # 1 => i - 1 \in 1..Len(t) /\ t[i - 1] = s[i] BY <1>1
<1>5. Once(t)
  <2> SUFFICES ASSUME NEW i \in 1..Len(t), NEW j \in 1..Len(t), t[i] = t[j] PROVE i = j
    BY DEF Once
  <2>1. i + 1 = j + 1 BY <1>1, <1>3 DEF Once
  <2> QED BY <2>1
<1>6. ASSUME NEW y PROVE Has(t, y) <=> Has(s, y) /\ y # s[1]
  <2>1. ASSUME NEW i \in 1..Len(t), t[i] = y PROVE Has(s, y) /\ y # s[1]
    BY <2>1, <1>1, <1>2, <1>3 DEF Once, Has
  <2>2. ASSUME NEW i \in 1..Len(s), s[i] = y, y # s[1] PROVE Has(t, y)
    BY <2>2, <1>4 DEF Has
  <2> QED BY <2>1, <2>2 DEF Has
<1> QED BY <1>1, <1>2, <1>5, <1>6 DEF t

-----------------------------------------------------------------------------
\* A step of a caller joins a lane, stays where it is, leaves, or is outside.
Alone(c) == \A d \in Callers \ {c} : call'[d] = call[d]

Outside(c) ==
  /\ Alone(c) /\ call[c].pc \notin Within /\ call'[c].pc \notin Within
  /\ UNCHANGED <<lane, slots>>
Joins(c) ==
  /\ Alone(c) /\ call[c].pc \notin Within /\ call'[c].used = call[c].used
  /\ IF Venice(c) \/ Proxy(c) THEN call'[c].pc = "queued" ELSE call'[c].pc \in Within
  /\ lane' = IF Venice(c) THEN Append(lane, c) ELSE lane
  /\ slots' = IF ~Proxy(c) THEN slots
              ELSE IF slots.active < MaxSlots
                THEN [slots EXCEPT !.active = @ + 1]
                ELSE [slots EXCEPT !.waiters = Append(@, c)]
Stays(c) ==
  /\ Alone(c) /\ call[c].pc \in Within
  /\ call'[c].pc \in Served /\ call'[c].used = call[c].used
  /\ At(c, "queued") => (Venice(c) => Head(lane) = c) /\ (Proxy(c) => ~Has(slots.waiters, c))
  /\ UNCHANGED <<lane, slots>>
Leaves(c) ==
  /\ Alone(c) /\ (Venice(c) \/ Proxy(c) => call[c].pc \in Served)
  /\ call'[c].pc \notin Within
  /\ Leave(c)

LEMMA OthersAreIn ==
  ASSUME NEW c \in Callers, Alone(c), NEW d \in Callers, d # c
  PROVE  /\ \A kind : In(d, kind)' <=> In(d, kind)
         /\ At(d, "queued")' <=> At(d, "queued")
BY DEF Alone, In, At

LEMMA LaneKept ==
  ASSUME LaneInv, NEW c \in Callers, Outside(c) \/ Joins(c) \/ Stays(c) \/ Leaves(c)
  PROVE  LaneInv'
<1>1. CASE /\ Alone(c) /\ lane' = lane
           /\ In(c, "venice")' <=> In(c, "venice")
           /\ In(c, "venice")' /\ ~At(c, "queued")' => lane[1] = c
  <2>1. Once(lane)' <=> Once(lane) BY <1>1 DEF Once
  <2>2. \A d : Has(lane, d)' <=> Has(lane, d) BY <1>1 DEF Has
  <2>3. ASSUME NEW d \in Callers
        PROVE  /\ In(d, "venice")' <=> Has(lane, d)'
               /\ In(d, "venice")' /\ ~At(d, "queued")' => lane'[1] = d
    BY <1>1, <2>2, OthersAreIn DEF LaneInv
  <2> QED BY <1>1, <2>1, <2>3 DEF LaneInv
<1>2. CASE Outside(c) BY <1>1, <1>2 DEF Outside, In
<1>3. CASE Joins(c) /\ ~Venice(c) BY <1>1, <1>3 DEF Joins, In, Venice, Within
<1>4. CASE Joins(c) /\ Venice(c)
  <2>1. lane' = Append(lane, c) /\ Alone(c) /\ call'[c].pc = "queued" /\ call'[c].used = "venice"
    BY <1>4 DEF Joins, Venice
  <2>2. ~In(c, "venice") BY <1>4 DEF Joins, In
  <2>3. ~Has(lane, c) BY <2>2 DEF LaneInv
  <2>4. lane' \in Seq(Callers) /\ Once(lane')
        /\ (\A d : Has(lane', d) <=> Has(lane, d) \/ d = c)
        /\ \A d : Has(lane, d) => lane'[1] = lane[1]
    BY <2>1, <2>3, JoinedOnce DEF LaneInv
  <2>5. In(c, "venice")' /\ At(c, "queued")' BY <2>1 DEF In, At, Within
  <2>6. ASSUME NEW d \in Callers
        PROVE  /\ In(d, "venice")' <=> Has(lane', d)
               /\ In(d, "venice")' /\ ~At(d, "queued")' => lane'[1] = d
    BY <2>1, <2>4, <2>5, OthersAreIn DEF LaneInv
  <2> QED BY <2>4, <2>6 DEF LaneInv, Has, Once
<1>5. CASE Stays(c)
  <2>1. In(c, "venice")' <=> In(c, "venice") BY <1>5 DEF Stays, In, Within, Served
  <2>2. ASSUME In(c, "venice") PROVE lane[1] = c
    <3>1. CASE At(c, "queued") BY <2>2, <3>1, <1>5 DEF Stays, In, Venice
    <3> QED BY <2>2, <3>1 DEF LaneInv
  <2> QED BY <1>1, <1>5, <2>1, <2>2 DEF Stays
<1>6. CASE Leaves(c) /\ ~Venice(c)
  <2>1. ~In(c, "venice")' /\ ~In(c, "venice") BY <1>6 DEF Leaves, In, Venice
  <2> QED BY <1>1, <1>6, <2>1 DEF Leaves, Leave
<1>7. CASE Leaves(c) /\ Venice(c)
  <2>1. lane' = Tail(lane) /\ Alone(c) BY <1>7 DEF Leaves, Leave
  <2>2. In(c, "venice") /\ ~At(c, "queued") /\ ~In(c, "venice")'
    BY <1>7 DEF Leaves, In, At, Venice, Within, Served
  <2>3. lane[1] = c /\ Has(lane, c) BY <2>2 DEF LaneInv
  <2>4. lane # <<>> BY <2>3 DEF Has
  <2>5. lane' \in Seq(Callers) /\ Once(lane') /\ \A d : Has(lane', d) <=> Has(lane, d) /\ d # c
    BY <2>1, <2>3, <2>4, LeftOnce DEF LaneInv
  <2>6. ASSUME NEW d \in Callers
        PROVE  /\ In(d, "venice")' <=> Has(lane', d)
               /\ In(d, "venice")' /\ ~At(d, "queued")' => lane'[1] = d
    BY <2>1, <2>2, <2>3, <2>5, OthersAreIn DEF LaneInv
  <2> QED BY <2>5, <2>6 DEF LaneInv, Has, Once
<1> QED BY <1>2, <1>3, <1>4, <1>5, <1>6, <1>7

LEMMA SlotsKept ==
  ASSUME SlotsInv, call \in [Callers -> Call],
         NEW c \in Callers, Outside(c) \/ Joins(c) \/ Stays(c) \/ Leaves(c)
  PROVE  SlotsInv'
<1> DEFINE proxy == "openrouter-x402-proxy"
<1>0. MaxSlots \in Nat \ {0} BY ModelCallsAssumption
<1>1. /\ slots = [active |-> slots.active, waiters |-> slots.waiters]
      /\ slots.active \in 0..MaxSlots /\ slots.waiters \in Seq(Callers)
  BY DEF SlotsInv
<1>2. CASE /\ Alone(c) /\ slots' = slots
           /\ In(c, proxy)' <=> In(c, proxy)
           /\ Has(slots.waiters, c) => In(c, proxy)' /\ At(c, "queued")'
  <2>1. Once(slots.waiters)' <=> Once(slots.waiters) BY <1>2 DEF Once
  <2>2. \A d : Has(slots.waiters, d)' <=> Has(slots.waiters, d) BY <1>2 DEF Has
  <2>3. ASSUME NEW d \in Callers
        PROVE  /\ In(d, proxy)' <=> In(d, proxy)
               /\ Has(slots.waiters, d)' => In(d, proxy)' /\ At(d, "queued")'
    BY <1>2, <2>2, OthersAreIn DEF SlotsInv
  <2>4. Holders' = Holders BY <2>2, <2>3 DEF Holders
  <2> QED BY <1>2, <2>1, <2>3, <2>4 DEF SlotsInv
<1>3. CASE Outside(c) BY <1>2, <1>3 DEF Outside, In, SlotsInv
<1>4. CASE Joins(c) /\ ~Proxy(c)
  <2>1. ~In(c, proxy) /\ ~In(c, proxy)' BY <1>4 DEF Joins, In, Proxy
  <2> QED BY <1>2, <1>4, <2>1 DEF Joins, SlotsInv
<1>5. CASE Stays(c)
  <2>1. In(c, proxy)' <=> In(c, proxy) BY <1>5 DEF Stays, In, Within, Served
  <2>2. ~Has(slots.waiters, c) BY <1>5 DEF Stays, SlotsInv, In, Proxy
  <2> QED BY <1>2, <1>5, <2>1, <2>2 DEF Stays
<1>6. CASE Leaves(c) /\ ~Proxy(c)
  <2>1. ~In(c, proxy) /\ ~In(c, proxy)' BY <1>6 DEF Leaves, In, Proxy
  <2> QED BY <1>2, <1>6, <2>1 DEF Leaves, Leave, SlotsInv
<1>7. CASE Joins(c) /\ Proxy(c)
  <2>1. Alone(c) /\ ~In(c, proxy) /\ In(c, proxy)' /\ At(c, "queued")'
    BY <1>7 DEF Joins, In, At, Proxy, Within
  <2>2. ~Has(slots.waiters, c) /\ c \notin Holders BY <2>1 DEF SlotsInv, Holders
  <2>3. CASE slots.active < MaxSlots
    <3>1. slots' = [active |-> slots.active + 1, waiters |-> slots.waiters]
      BY <1>1, <1>7, <2>3 DEF Joins
    <3>2. slots.active + 1 \in 0..MaxSlots BY <1>0, <1>1, <2>3
    <3>3. slots'.active = slots.active + 1 /\ slots'.waiters = slots.waiters BY <3>1
    <3>4. ASSUME NEW d \in Callers
          PROVE  /\ Has(slots'.waiters, d) => In(d, proxy)' /\ At(d, "queued")'
                 /\ d \in Holders' <=> d \in Holders \/ d = c
      BY <2>1, <2>2, <3>3, OthersAreIn DEF SlotsInv, Holders
    <3>5. Holders' = Holders \cup {c} BY <3>4 DEF Holders
    <3>6. IsFiniteSet(Holders \cup {c}) /\ Cardinality(Holders \cup {c}) = Cardinality(Holders) + 1
      BY <2>2, FS_AddElement DEF SlotsInv
    <3>7. IsFiniteSet(Holders)' /\ Cardinality(Holders)' = slots'.active
      BY <3>3, <3>5, <3>6 DEF SlotsInv
    <3>8. slots' \in [active : 0..MaxSlots, waiters : Seq(Callers)] BY <1>1, <3>1, <3>2
    <3>9. Once(slots.waiters)' BY <3>3 DEF SlotsInv, Once
    <3> QED BY <3>4, <3>7, <3>8, <3>9 DEF SlotsInv, Has
  <2>4. CASE ~(slots.active < MaxSlots)
    <3> DEFINE longer == Append(slots.waiters, c)
    <3>1. slots' = [active |-> slots.active, waiters |-> longer]
      BY <1>1, <1>7, <2>4 DEF Joins
    <3>2. longer \in Seq(Callers) /\ Once(longer)
          /\ \A d : Has(longer, d) <=> Has(slots.waiters, d) \/ d = c
      BY <1>1, <2>2, JoinedOnce DEF SlotsInv
    <3> HIDE DEF longer
    <3>3. slots'.active = slots.active /\ slots'.waiters = longer BY <3>1
    <3>4. ASSUME NEW d \in Callers
          PROVE  /\ Has(slots'.waiters, d) => In(d, proxy)' /\ At(d, "queued")'
                 /\ d \in Holders' <=> d \in Holders
      BY <2>1, <2>2, <3>2, <3>3, OthersAreIn DEF SlotsInv, Holders
    <3>5. Holders' = Holders BY <3>4 DEF Holders
    <3>7. IsFiniteSet(Holders)' /\ Cardinality(Holders)' = slots'.active
      BY <3>3, <3>5 DEF SlotsInv
    <3>8. slots' \in [active : 0..MaxSlots, waiters : Seq(Callers)] BY <1>1, <3>1, <3>2
    <3>9. Once(slots.waiters)' BY <3>2, <3>3 DEF Once
    <3> QED BY <3>4, <3>7, <3>8, <3>9 DEF SlotsInv, Has
  <2> QED BY <2>3, <2>4
<1>8. CASE Leaves(c) /\ Proxy(c)
  <2>1. Alone(c) /\ In(c, proxy) /\ ~At(c, "queued") /\ ~In(c, proxy)'
    BY <1>8 DEF Leaves, In, At, Proxy, Within, Served
  <2>2. ~Has(slots.waiters, c) /\ c \in Holders BY <2>1 DEF SlotsInv, Holders
  <2>3. CASE slots.waiters = <<>>
    <3>1. slots' = [active |-> slots.active - 1, waiters |-> slots.waiters]
      BY <1>1, <1>8, <2>3 DEF Leaves, Leave, Release
    <3>2. slots'.active = slots.active - 1 /\ slots'.waiters = slots.waiters BY <3>1
    <3>3. ASSUME NEW d \in Callers
          PROVE  /\ Has(slots'.waiters, d) => In(d, proxy)' /\ At(d, "queued")'
                 /\ d \in Holders' <=> d \in Holders /\ d # c
      BY <2>1, <2>2, <3>2, OthersAreIn DEF SlotsInv, Holders
    <3>4. Holders' = Holders \ {c} BY <3>3 DEF Holders
    <3>5. IsFiniteSet(Holders \ {c}) /\ Cardinality(Holders \ {c}) = Cardinality(Holders) - 1
      BY <2>2, FS_RemoveElement DEF SlotsInv
    <3>6. IsFiniteSet(Holders)' /\ Cardinality(Holders)' = slots'.active
      BY <3>2, <3>4, <3>5 DEF SlotsInv
    <3>7. Cardinality(Holders \ {c}) \in Nat BY <3>5, FS_CardinalityType
    <3>8. slots.active - 1 \in 0..MaxSlots BY <1>0, <1>1, <3>5, <3>7 DEF SlotsInv
    <3>9. slots' \in [active : 0..MaxSlots, waiters : Seq(Callers)] BY <1>1, <3>1, <3>8
    <3>10. Once(slots.waiters)' BY <3>2 DEF SlotsInv, Once
    <3> QED BY <3>3, <3>6, <3>9, <3>10 DEF SlotsInv, Has
  <2>4. CASE slots.waiters # <<>>
    <3> DEFINE shorter == Tail(slots.waiters)
    <3>1. PICK e : e = slots.waiters[1] OBVIOUS
    <3>2. slots' = [active |-> slots.active, waiters |-> shorter]
      BY <1>1, <1>8, <2>4 DEF Leaves, Leave, Release
    <3>3. shorter \in Seq(Callers) /\ Once(shorter) /\ e \in Callers
          /\ \A d : Has(shorter, d) <=> Has(slots.waiters, d) /\ d # e
      BY <1>1, <2>4, <3>1, LeftOnce DEF SlotsInv
    <3>4. Has(slots.waiters, e)
      <4>1. Len(slots.waiters) \in Nat \ {0} BY <1>1, <2>4, EmptySeq, LenProperties
      <4> QED BY <3>1, <4>1 DEF Has
    <3> HIDE DEF shorter
    <3>5. e # c /\ In(e, proxy) /\ e \notin Holders /\ e \notin Holders \ {c}
      BY <2>2, <3>3, <3>4 DEF SlotsInv, Holders
    <3>6. slots'.active = slots.active /\ slots'.waiters = shorter BY <3>2
    <3>7. ASSUME NEW d \in Callers
          PROVE  /\ Has(slots'.waiters, d) => In(d, proxy)' /\ At(d, "queued")'
                 /\ d \in Holders' <=> (d \in Holders /\ d # c) \/ d = e
      BY <2>1, <2>2, <3>3, <3>5, <3>6, OthersAreIn DEF SlotsInv, Holders
    <3>8. Holders' = (Holders \ {c}) \cup {e} BY <3>3, <3>7 DEF Holders
    <3>9. IsFiniteSet(Holders \ {c}) /\ Cardinality(Holders \ {c}) = Cardinality(Holders) - 1
      BY <2>2, FS_RemoveElement DEF SlotsInv
    <3>10. /\ IsFiniteSet((Holders \ {c}) \cup {e})
           /\ Cardinality((Holders \ {c}) \cup {e}) = Cardinality(Holders \ {c}) + 1
      BY <3>5, <3>9, FS_AddElement
    <3>11. IsFiniteSet(Holders)' /\ Cardinality(Holders)' = slots'.active
      BY <1>1, <3>6, <3>8, <3>9, <3>10 DEF SlotsInv
    <3>12. slots' \in [active : 0..MaxSlots, waiters : Seq(Callers)] BY <1>1, <3>2, <3>3
    <3>13. Once(slots.waiters)' BY <3>3, <3>6 DEF Once
    <3> QED BY <3>7, <3>11, <3>12, <3>13 DEF SlotsInv, Has
  <2> QED BY <2>3, <2>4
<1> QED BY <1>3, <1>4, <1>5, <1>6, <1>7, <1>8

-----------------------------------------------------------------------------
\* What each action is to the lanes.
Moves(c) == Outside(c) \/ Joins(c) \/ Stays(c) \/ Leaves(c)

LEMMA SetIs ==
  ASSUME call \in [Callers -> Call], NEW c \in Callers, NEW new, Set(c, new)
  PROVE  call'[c] = new /\ Alone(c) /\ call[c] \in Call
BY DEF Set, Alone

LEMMA GotoIs ==
  ASSUME call \in [Callers -> Call], NEW c \in Callers, NEW pc, Goto(c, pc)
  PROVE  call'[c].pc = pc /\ call'[c].used = call[c].used /\ Alone(c)
BY DEF Goto, Alone, Call

LEMMA FailLeaves ==
  ASSUME call \in [Callers -> Call], NEW c \in Callers, NEW err, NEW settled,
         Venice(c) \/ Proxy(c) => call[c].pc \in Served, Fail(c, err, settled)
  PROVE  Leaves(c)
<1> DEFINE new == [call[c] EXCEPT !.pc = "failed", !.err = err, !.settled = @ + settled]
<1>1. call'[c] = new /\ Alone(c) /\ call[c] \in Call BY SetIs DEF Fail
<1>2. call'[c].pc = "failed" BY <1>1 DEF Call
<1> QED BY <1>1, <1>2 DEF Leaves, Fail, Within

LEMMA CutOffLeaves ==
  ASSUME call \in [Callers -> Call], NEW c \in Callers, call[c].pc \in Served, CutOff(c)
  PROVE  Leaves(c)
<1> DEFINE new == [call[c] EXCEPT !.pc = "failed", !.err = Lost, !.settled = @ + 1, !.cut = @ + 1]
<1>1. call'[c] = new /\ Alone(c) /\ call[c] \in Call BY SetIs DEF CutOff
<1>2. call'[c].pc = "failed" BY <1>1 DEF Call
<1> QED BY <1>1, <1>2 DEF Leaves, CutOff, Within

LEMMA AnswerLeaves ==
  ASSUME call \in [Callers -> Call], NEW c \in Callers, NEW paid,
         Venice(c) \/ Proxy(c) => call[c].pc \in Served, Answer(c, paid)
  PROVE  Leaves(c)
<1> DEFINE new == [call[c] EXCEPT !.pc = "book", !.paid = paid,
                                  !.settled = @ + (IF paid THEN 1 ELSE 0)]
<1>1. call'[c] = new /\ Alone(c) /\ call[c] \in Call BY SetIs DEF Answer
<1>2. call'[c].pc = "book" BY <1>1 DEF Call
<1> QED BY <1>1, <1>2 DEF Leaves, Answer, Within

LEMMA ReserveMoves ==
  ASSUME call \in [Callers -> Call], NEW c \in Callers, NEW next \in Served,
         Venice(c) \/ Proxy(c) => call[c].pc \in Served,
         call[c].pc # "queued", Reserve(c, next)
  PROVE  Moves(c)
<1>1. CASE Set(c, [call[c] EXCEPT !.owed = TRUE, !.pc = next]) /\ UNCHANGED <<lane, slots>>
  <2>1. call'[c] = [call[c] EXCEPT !.owed = TRUE, !.pc = next] /\ Alone(c) /\ call[c] \in Call
    BY <1>1, SetIs
  <2>2. call'[c].pc = next /\ call'[c].used = call[c].used BY <2>1 DEF Call
  <2>3. CASE call[c].pc \in Within BY <1>1, <2>1, <2>2, <2>3 DEF Moves, Stays, At
  <2>4. CASE call[c].pc \notin Within
    BY <1>1, <2>1, <2>2, <2>4 DEF Moves, Joins, Within, Served
  <2> QED BY <2>3, <2>4
<1>2. CASE /\ Leave(c)
           /\ Set(c, [call[c] EXCEPT !.owed = FALSE, !.pc = "failed", !.err = "fatal"])
  <2>1. call'[c] = [call[c] EXCEPT !.owed = FALSE, !.pc = "failed", !.err = "fatal"]
        /\ Alone(c) /\ call[c] \in Call
    BY <1>2, SetIs
  <2>2. call'[c].pc = "failed" BY <2>1 DEF Call
  <2> QED BY <1>2, <2>1, <2>2 DEF Moves, Leaves, Within
<1> QED BY <1>1, <1>2 DEF Reserve

\* In a lane the call goes on with what it was.
LEMMA SetStays ==
  ASSUME call \in [Callers -> Call], NEW c \in Callers, NEW new, Set(c, new),
         call[c].pc \in Served, new.pc \in Served, new.used = call[c].used,
         UNCHANGED <<lane, slots>>
  PROVE  Moves(c)
<1>1. call'[c] = new /\ Alone(c) BY SetIs
<1> QED BY <1>1 DEF Moves, Stays, At, Within, Served

LEMMA SetOutside ==
  ASSUME call \in [Callers -> Call], NEW c \in Callers, NEW new, Set(c, new),
         call[c].pc \notin Within, new.pc \notin Within, UNCHANGED <<lane, slots>>
  PROVE  Moves(c)
<1>1. call'[c] = new /\ Alone(c) BY SetIs
<1> QED BY <1>1 DEF Moves, Outside

LEMMA GotoOutside ==
  ASSUME call \in [Callers -> Call], NEW c \in Callers, NEW pc, Goto(c, pc),
         call[c].pc \notin Within, pc \notin Within, UNCHANGED <<lane, slots>>
  PROVE  Moves(c)
<1>1. call'[c].pc = pc /\ Alone(c) BY GotoIs
<1> QED BY <1>1 DEF Moves, Outside

LEMMA AttemptMoves ==
  ASSUME call \in [Callers -> Call], NEW c \in Callers, Attempt(c)
  PROVE  Moves(c)
<1>0. call[c].pc = "attempt" /\ call[c] \in Call BY DEF Attempt, At
<1>1. CASE ~Quotes(call[c].used) /\ Reserve(c, "request")
  <2>1. ~Venice(c) /\ ~Proxy(c) BY <1>1 DEF Quotes, Venice, Proxy
  <2>2. "request" \in Served BY DEF Served
  <2>3. call[c].pc # "queued" BY <1>0
  <2> QED BY <1>1, <2>1, <2>2, <2>3, ReserveMoves
<1>2. CASE call[c].used = "blockrun" /\ Goto(c, "request") /\ UNCHANGED <<lane, slots>>
  <2>1. call'[c].pc = "request" /\ call'[c].used = call[c].used /\ Alone(c) BY <1>2, GotoIs
  <2> QED BY <1>0, <1>2, <2>1 DEF Moves, Joins, Venice, Proxy, Within
<1>3. CASE /\ Venice(c) /\ lane' = Append(lane, c)
           /\ Set(c, [call[c] EXCEPT !.pc = "queued", !.resigned = FALSE])
           /\ UNCHANGED slots
  <2>1. call'[c] = [call[c] EXCEPT !.pc = "queued", !.resigned = FALSE] /\ Alone(c)
    BY <1>3, SetIs
  <2>2. call'[c].pc = "queued" /\ call'[c].used = call[c].used BY <1>0, <2>1 DEF Call
  <2> QED BY <1>0, <1>3, <2>1, <2>2 DEF Moves, Joins, Venice, Proxy, Within
<1>4. CASE /\ Proxy(c)
           /\ slots' = IF slots.active < MaxSlots
                         THEN [slots EXCEPT !.active = @ + 1]
                         ELSE [slots EXCEPT !.waiters = Append(@, c)]
           /\ Set(c, [call[c] EXCEPT !.pc = "queued", !.signs = 0])
           /\ UNCHANGED lane
  <2>1. call'[c] = [call[c] EXCEPT !.pc = "queued", !.signs = 0] /\ Alone(c)
    BY <1>4, SetIs
  <2>2. call'[c].pc = "queued" /\ call'[c].used = call[c].used BY <1>0, <2>1 DEF Call
  <2> QED BY <1>0, <1>4, <2>1, <2>2 DEF Moves, Joins, Venice, Proxy, Within
<1> QED BY <1>1, <1>2, <1>3, <1>4 DEF Attempt

LEMMA TurnMoves ==
  ASSUME call \in [Callers -> Call], NEW c \in Callers, Turn(c)
  PROVE  Moves(c)
<1> DEFINE pc == IF Proxy(c) /\ challenge THEN "authorize" ELSE "request"
<1>1. Goto(c, pc) /\ pc \in Served /\ UNCHANGED <<lane, slots>>
  BY DEF Turn, shared, Served
<1>2. call'[c].pc = pc /\ call'[c].used = call[c].used /\ Alone(c) BY <1>1, GotoIs
<1>3. (Venice(c) => Head(lane) = c) /\ (Proxy(c) => ~Has(slots.waiters, c))
      /\ call[c].pc = "queued"
  BY DEF Turn, Waits, Has, At
<1> HIDE DEF pc
<1> QED BY <1>1, <1>2, <1>3 DEF Moves, Stays, Within

LEMMA RequestMoves ==
  ASSUME call \in [Callers -> Call], NEW c \in Callers, Request(c)
  PROVE  Moves(c)
<1>0. call[c].pc = "request" /\ call[c].pc \in Served /\ call[c] \in Call
  BY DEF Request, At, Served
<1> DEFINE new == [call[c] EXCEPT !.pc = "authorize", !.signs = IF Proxy(c) THEN 1 ELSE 0]
<1>1. CASE Set(c, new) /\ UNCHANGED <<lane, slots>>
  <2>1. new.pc \in Served /\ new.used = call[c].used BY <1>0 DEF Call, Served
  <2> HIDE DEF new
  <2> QED BY <1>0, <1>1, <2>1, SetStays
<1>2. ASSUME NEW err, Fail(c, err, 0) PROVE Moves(c) BY <1>0, <1>2, FailLeaves DEF Moves
<1>3. CASE Answer(c, FALSE) BY <1>0, <1>3, AnswerLeaves DEF Moves
<1> QED BY <1>1, <1>2, <1>3 DEF Request

LEMMA AuthorizeMoves ==
  ASSUME call \in [Callers -> Call], NEW c \in Callers, Authorize(c)
  PROVE  Moves(c)
<1>1. call[c].pc = "authorize" /\ call[c].pc \in Served /\ call[c].pc # "queued"
  BY DEF Authorize, At, Served
<1>2. "sign" \in Served BY DEF Served
<1> QED BY <1>1, <1>2, ReserveMoves DEF Authorize

LEMMA SignMoves ==
  ASSUME call \in [Callers -> Call], NEW c \in Callers, Sign(c)
  PROVE  Moves(c)
<1>0. call[c].pc = "sign" /\ call[c].pc \in Served BY DEF Sign, At, Served
<1>1. CASE Goto(c, "sent") /\ UNCHANGED <<lane, slots>>
  <2>1. call'[c].pc = "sent" /\ call'[c].used = call[c].used /\ Alone(c) BY <1>1, GotoIs
  <2> QED BY <1>0, <1>1, <2>1 DEF Moves, Stays, At, Within, Served
<1>2. ASSUME NEW err, Fail(c, err, 0) PROVE Moves(c) BY <1>0, <1>2, FailLeaves DEF Moves
<1> QED BY <1>1, <1>2 DEF Sign

LEMMA SentMoves ==
  ASSUME call \in [Callers -> Call], NEW c \in Callers, Sent(c)
  PROVE  Moves(c)
<1>0. call[c].pc = "sent" /\ call[c].pc \in Served /\ call[c] \in Call
  BY DEF Sent, At, Served
<1>1. CASE Goto(c, "body") /\ UNCHANGED <<lane, slots>>
  <2>1. call'[c].pc = "body" /\ call'[c].used = call[c].used /\ Alone(c) BY <1>1, GotoIs
  <2> QED BY <1>0, <1>1, <2>1 DEF Moves, Stays, At, Within, Served
<1>2. CASE Answer(c, TRUE) BY <1>0, <1>2, AnswerLeaves DEF Moves
<1>3. ASSUME NEW err, NEW settled, Fail(c, err, settled) PROVE Moves(c)
  BY <1>0, <1>3, FailLeaves DEF Moves
<1> DEFINE again == [call[c] EXCEPT !.pc = "request", !.resigned = TRUE]
           more  == [call[c] EXCEPT !.pc = "authorize", !.signs = @ + 1]
<1>4. ASSUME NEW new \in {again, more}, Set(c, new), UNCHANGED <<lane, slots>>
      PROVE  Moves(c)
  <2>1. new.pc \in Served /\ new.used = call[c].used BY <1>0 DEF Call, Served
  <2> QED BY <1>0, <1>4, <2>1, SetStays
<1> QED BY <1>1, <1>2, <1>3, <1>4 DEF Sent

LEMMA BodyMoves ==
  ASSUME call \in [Callers -> Call], NEW c \in Callers, Body(c)
  PROVE  Moves(c)
<1>0. call[c].pc = "body" /\ call[c].pc \in Served BY DEF Body, At, Served
<1>1. CASE Answer(c, TRUE) BY <1>0, <1>1, AnswerLeaves DEF Moves
<1>2. ASSUME NEW err, NEW settled, Fail(c, err, settled) PROVE Moves(c)
  BY <1>0, <1>2, FailLeaves DEF Moves
<1>3. CASE CutOff(c) BY <1>0, <1>3, CutOffLeaves DEF Moves
<1> QED BY <1>1, <1>2, <1>3 DEF Body

LEMMA StartIsOutside ==
  ASSUME NEW kind
  PROVE  Start(kind).pc = "idle" /\ Start(kind).pc \notin Within
BY DEF Start, Within

LEMMA AgainOutside ==
  ASSUME call \in [Callers -> Call], NEW c \in Callers, NEW rung, Again(c, rung),
         call[c].pc \notin Within, UNCHANGED <<lane, slots>>
  PROVE  Moves(c)
<1> DEFINE new == [call[c] EXCEPT !.pc = "attempt", !.rung = rung, !.err = "none"]
<1>1. Set(c, new) /\ call[c] \in Call BY DEF Again
<1>2. new.pc \notin Within BY <1>1 DEF Call, Within
<1> QED BY <1>1, <1>2, SetOutside

\* Begin and the ladder are outside the lanes.
LEMMA LadderMoves ==
  ASSUME call \in [Callers -> Call], NEW c \in Callers,
         Begin(c) \/ Escalate(c) \/ Rescue(c) \/ GiveUp(c) \/ TopUp(c) \/ Deposit(c)
           \/ Book(c) \/ Catch(c)
  PROVE  Moves(c)
<1>1. call[c].pc \notin Within /\ UNCHANGED <<lane, slots>> /\ call[c] \in Call
  BY DEF Begin, Escalate, Rescue, GiveUp, TopUp, Deposit, Book, Catch, At, Within, shared
<1>2. {"attempt", "catch", "topup", "deposit"} \cap Within = {} BY DEF Within
<1>3. ASSUME NEW pc \in {"catch", "topup", "deposit"}, Goto(c, pc) PROVE Moves(c)
  BY <1>1, <1>2, <1>3, GotoOutside
<1>4. ASSUME NEW rung, Again(c, rung) PROVE Moves(c) BY <1>1, <1>4, AgainOutside
<1>5. ASSUME NEW cost, End(c, cost) PROVE Moves(c)
  <2> DEFINE
           new == IF call[c].settled <= cost
                    THEN Start(primary)
                    ELSE [Start(primary) EXCEPT !.settled = call[c].settled - cost,
                                                !.cut = call[c].cut, !.dropped = call[c].dropped]
  <2>1. new.pc \notin Within BY StartIsOutside DEF Start
  <2> QED BY <1>1, <1>5, <2>1, SetOutside DEF End
<1>6. CASE Begin(c)
  <2> DEFINE new == [Start(IF Degraded THEN Backup ELSE primary)
                       EXCEPT !.pc = "attempt", !.early = mode = "ask" \/ failovers < Threshold]
  <2>1. new.pc \notin Within BY <1>2 DEF Start, Within
  <2> QED BY <1>1, <1>6, <2>1, SetOutside DEF Begin
<1>7. CASE Escalate(c)
  <2> DEFINE new == [call[c] EXCEPT !.pc = "catch", !.err = "fatal",
                                    !.dropped = Uncertain(c) /\ call[c].settled > 0]
  <2>1. new.pc \notin Within BY <1>1 DEF Call, Within
  <2>2. Set(c, new) => Moves(c) BY <1>1, <2>1, SetOutside
  <2>3. CASE aborted BY <1>7, <2>2, <2>3 DEF Escalate
  <2>4. CASE ~aborted BY <1>3, <1>4, <1>7, <2>4 DEF Escalate
  <2> QED BY <2>3, <2>4
<1>8. CASE Rescue(c)
  <2> DEFINE new == [call[c] EXCEPT !.pc = "attempt", !.rung = "rescue", !.err = "none",
                                    !.used = Backup]
  <2>1. new.pc \notin Within BY <1>1 DEF Call, Within
  <2> QED BY <1>1, <1>8, <2>1, SetOutside DEF Rescue
<1>9. CASE GiveUp(c) \/ TopUp(c) BY <1>3, <1>9 DEF GiveUp, TopUp
<1>10. CASE Deposit(c) BY <1>3, <1>4, <1>10 DEF Deposit
<1>11. CASE Book(c) \/ Catch(c) BY <1>5, <1>11 DEF Book, Catch
<1> QED BY <1>6, <1>7, <1>8, <1>9, <1>10, <1>11

-----------------------------------------------------------------------------
LEMMA LanesInitially == Init => LanesInv
<1> SUFFICES ASSUME Init PROVE LanesInv OBVIOUS
<1>1. \A c \in Callers : \A kind : ~In(c, kind) BY StartIsOutside DEF Init, In
<1>2. \A x : ~Has(<<>>, x) BY DEF Has
<1>3. Once(<<>>) BY DEF Once
<1>4. Holders = {} BY <1>1 DEF Holders
<1>5. IsFiniteSet(Holders) /\ Cardinality(Holders) = 0 BY <1>4, FS_EmptySet
<1>6. LaneInv BY <1>1, <1>2, <1>3 DEF Init, LaneInv
<1>7. 0 \in 0..MaxSlots BY ModelCallsAssumption
<1>8. slots = [active |-> 0, waiters |-> <<>>] BY DEF Init
<1>9. slots.active = 0 /\ slots.waiters = <<>> BY <1>8
<1>10. slots \in [active : 0..MaxSlots, waiters : Seq(Callers)] BY <1>7, <1>8
<1> QED BY <1>2, <1>3, <1>5, <1>6, <1>9, <1>10 DEF LanesInv, SlotsInv

LEMMA LanesStep == CallsInv /\ LanesInv /\ [Next]_vars => LanesInv'
<1> SUFFICES ASSUME CallsInv, LanesInv, [Next]_vars PROVE LanesInv' OBVIOUS
<1>0. call \in [Callers -> Call] BY DEF CallsInv
<1>1. CASE UNCHANGED <<call, lane, slots>>
  <2>1. LaneInv' BY <1>1 DEF LanesInv, LaneInv, In, At, Has, Once
  <2>2. /\ \A c \in Callers : Has(slots.waiters, c)' <=> Has(slots.waiters, c)
        /\ \A c \in Callers : In(c, "openrouter-x402-proxy")' <=> In(c, "openrouter-x402-proxy")
        /\ \A c \in Callers : At(c, "queued")' <=> At(c, "queued")
        /\ Once(slots.waiters)' <=> Once(slots.waiters)
    BY <1>1 DEF In, At, Has, Once
  <2>3. Holders' = Holders BY <2>2 DEF Holders
  <2> QED BY <1>1, <2>1, <2>2, <2>3 DEF LanesInv, SlotsInv
<1>2. ASSUME NEW c \in Callers, Moves(c) PROVE LanesInv'
  BY <1>0, <1>2, LaneKept, SlotsKept DEF LanesInv, Moves
<1>3. ASSUME NEW c \in Callers, Begin(c) \/ Step(c) PROVE Moves(c)
  BY <1>0, <1>3, AttemptMoves, TurnMoves, RequestMoves, AuthorizeMoves, SignMoves, SentMoves,
     BodyMoves, LadderMoves DEF Step
<1>4. CASE Abort \/ NewRun \/ UNCHANGED vars BY <1>1, <1>4 DEF Abort, NewRun, vars, shared
<1> QED BY <1>2, <1>3, <1>4 DEF Next

\* While a payment is signed and open its amount is reserved; there is one payment of
\* Venice under way, and the proxy serves MaxSlots calls at once, whatever fails in the
\* lanes (crowdcode-venice.ts:89-93, x402-proxy.ts:143-152).
THEOREM LanesServeInTurn == Spec => []LanesAreExclusive
<1>1. CallsInv /\ LanesInv => LanesAreExclusive
  <2> SUFFICES ASSUME CallsInv, LanesInv PROVE LanesAreExclusive OBVIOUS
  <2> DEFINE Active(kind) == {c \in Callers : call[c].used = kind
               /\ call[c].pc \in {"request", "authorize", "sign", "sent", "body"}}
  <2>1. \A c \in Callers : call[c].pc \in {"sent", "body"} => call[c].owed
    BY DEF CallsInv, Kept
  <2>2. Active("venice") \subseteq {lane[1]}
    BY DEF LanesInv, LaneInv, In, At, Within
  <2>3. Cardinality(Active("venice")) <= 1
    <3>1. IsFiniteSet({lane[1]}) /\ Cardinality({lane[1]}) = 1 BY FS_Singleton
    <3>2. Cardinality(Active("venice")) <= Cardinality({lane[1]}) BY <2>2, <3>1, FS_Subset
    <3> QED BY <3>1, <3>2
  <2>4. Active("openrouter-x402-proxy") \subseteq Holders
    BY DEF LanesInv, SlotsInv, Holders, In, At, Within
  <2>5. Cardinality(Active("openrouter-x402-proxy")) <= MaxSlots
    <3>1. /\ IsFiniteSet(Holders) /\ Cardinality(Holders) = slots.active
          /\ slots.active \in 0..MaxSlots
      BY DEF LanesInv, SlotsInv
    <3>2. /\ IsFiniteSet(Active("openrouter-x402-proxy"))
          /\ Cardinality(Active("openrouter-x402-proxy")) <= Cardinality(Holders)
      BY <2>4, <3>1, FS_Subset
    <3>3. Cardinality(Active("openrouter-x402-proxy")) \in Nat BY <3>2, FS_CardinalityType
    <3>4. MaxSlots \in Nat BY ModelCallsAssumption
    <3> QED BY <3>1, <3>2, <3>3, <3>4
  <2> QED BY <2>1, <2>3, <2>5 DEF LanesAreExclusive
<1> QED BY <1>1, CallsInitially, CallsStep, LanesInitially, LanesStep, PTL DEF Spec

-----------------------------------------------------------------------------
(***************************************************************************)
(* Parking.  A call that was begun while its primary was parked is on the  *)
(* backup, and stays there.                                                *)
(***************************************************************************)
ParkedInv ==
  /\ failovers \in Nat
  /\ \A c \in Callers : ~At(c, "idle") => call[c].early \/ call[c].used # primary

\* A step that leaves the call what it began as, or puts it on the backup, or ends it.
Carries(c) ==
  /\ Alone(c)
  /\ \/ call'[c].pc = "idle"
     \/ /\ call[c].pc # "idle" /\ call'[c].early = call[c].early
        /\ call'[c].used = call[c].used \/ call'[c].used = Backup

LEMMA BackupIsAnother == Backup # primary
BY DEF Backup

LEMMA SetCarries ==
  ASSUME call \in [Callers -> Call], NEW c \in Callers, NEW new, Set(c, new),
         ~At(c, "idle"), new.early = call[c].early,
         new.used = call[c].used \/ new.used = Backup
  PROVE  Carries(c)
BY SetIs DEF Carries, At

LEMMA GotoCarries ==
  ASSUME call \in [Callers -> Call], NEW c \in Callers, NEW pc, Goto(c, pc), ~At(c, "idle")
  PROVE  Carries(c)
BY DEF Goto, Carries, Alone, At, Call

LEMMA FailCarries ==
  ASSUME call \in [Callers -> Call], NEW c \in Callers, NEW err, NEW settled,
         Fail(c, err, settled), ~At(c, "idle")
  PROVE  Carries(c)
<1> DEFINE new == [call[c] EXCEPT !.pc = "failed", !.err = err, !.settled = @ + settled]
<1>1. Set(c, new) /\ call[c] \in Call BY DEF Fail
<1>2. new.early = call[c].early /\ new.used = call[c].used BY <1>1 DEF Call
<1> QED BY <1>1, <1>2, SetCarries

LEMMA CutOffCarries ==
  ASSUME call \in [Callers -> Call], NEW c \in Callers, CutOff(c), ~At(c, "idle")
  PROVE  Carries(c)
<1> DEFINE new == [call[c] EXCEPT !.pc = "failed", !.err = Lost, !.settled = @ + 1, !.cut = @ + 1]
<1>1. Set(c, new) /\ call[c] \in Call BY DEF CutOff
<1>2. new.early = call[c].early /\ new.used = call[c].used BY <1>1 DEF Call
<1> QED BY <1>1, <1>2, SetCarries

LEMMA AnswerCarries ==
  ASSUME call \in [Callers -> Call], NEW c \in Callers, NEW paid, Answer(c, paid), ~At(c, "idle")
  PROVE  Carries(c)
<1> DEFINE new == [call[c] EXCEPT !.pc = "book", !.paid = paid,
                                  !.settled = @ + (IF paid THEN 1 ELSE 0)]
<1>1. Set(c, new) /\ call[c] \in Call BY DEF Answer
<1>2. new.early = call[c].early /\ new.used = call[c].used BY <1>1 DEF Call
<1> QED BY <1>1, <1>2, SetCarries

LEMMA ReserveCarries ==
  ASSUME call \in [Callers -> Call], NEW c \in Callers, NEW next, Reserve(c, next), ~At(c, "idle")
  PROVE  Carries(c)
<1> DEFINE held == [call[c] EXCEPT !.owed = TRUE, !.pc = next]
           not  == [call[c] EXCEPT !.owed = FALSE, !.pc = "failed", !.err = "fatal"]
<1>1. call[c] \in Call OBVIOUS
<1>2. /\ held.early = call[c].early /\ held.used = call[c].used
      /\ not.early = call[c].early /\ not.used = call[c].used
  BY <1>1 DEF Call
<1>3. Set(c, held) \/ Set(c, not) BY DEF Reserve
<1> QED BY <1>2, <1>3, SetCarries

LEMMA AgainCarries ==
  ASSUME call \in [Callers -> Call], NEW c \in Callers, NEW rung, Again(c, rung), ~At(c, "idle")
  PROVE  Carries(c)
<1> DEFINE new == [call[c] EXCEPT !.pc = "attempt", !.rung = rung, !.err = "none"]
<1>1. Set(c, new) /\ call[c] \in Call BY DEF Again
<1>2. new.early = call[c].early /\ new.used = call[c].used BY <1>1 DEF Call
<1> QED BY <1>1, <1>2, SetCarries

LEMMA EndCarries ==
  ASSUME call \in [Callers -> Call], NEW c \in Callers, NEW cost, End(c, cost)
  PROVE  Carries(c)
<1> DEFINE
           new == IF call[c].settled <= cost
                    THEN Start(primary)
                    ELSE [Start(primary) EXCEPT !.settled = call[c].settled - cost,
                                                !.cut = call[c].cut, !.dropped = call[c].dropped]
<1>1. new.pc = "idle" BY DEF Start
<1>2. call'[c] = new /\ Alone(c) BY SetIs DEF End
<1> QED BY <1>1, <1>2 DEF Carries

LEMMA AttemptsCarry ==
  ASSUME call \in [Callers -> Call], NEW c \in Callers,
         Attempt(c) \/ Turn(c) \/ Request(c) \/ Authorize(c) \/ Sign(c) \/ Sent(c) \/ Body(c)
  PROVE  Carries(c)
<1>1. ~At(c, "idle") /\ call[c] \in Call
  BY DEF At, Attempt, Turn, Request, Authorize, Sign, Sent, Body
<1>2. ASSUME NEW pc, Goto(c, pc) PROVE Carries(c) BY <1>1, <1>2, GotoCarries
<1>3. ASSUME NEW err, NEW settled, Fail(c, err, settled) PROVE Carries(c)
  BY <1>1, <1>3, FailCarries
<1>4. ASSUME NEW paid, Answer(c, paid) PROVE Carries(c) BY <1>1, <1>4, AnswerCarries
<1>5. ASSUME NEW next, Reserve(c, next) PROVE Carries(c) BY <1>1, <1>5, ReserveCarries
<1>6. ASSUME NEW new, Set(c, new),
             new \in {[call[c] EXCEPT !.pc = "queued", !.resigned = FALSE],
                     [call[c] EXCEPT !.pc = "queued", !.signs = 0],
                     [call[c] EXCEPT !.pc = "authorize", !.signs = IF Proxy(c) THEN 1 ELSE 0],
                     [call[c] EXCEPT !.pc = "request", !.resigned = TRUE],
                     [call[c] EXCEPT !.pc = "authorize", !.signs = @ + 1]}
      PROVE  Carries(c)
  <2>1. new.early = call[c].early /\ new.used = call[c].used BY <1>1, <1>6 DEF Call
  <2> QED BY <1>1, <1>6, <2>1, SetCarries
<1>7. CASE Attempt(c) BY <1>2, <1>5, <1>6, <1>7 DEF Attempt
<1>8. CASE Turn(c) BY <1>2, <1>8 DEF Turn
<1>9. CASE Request(c) BY <1>3, <1>4, <1>6, <1>9 DEF Request
<1>10. CASE Authorize(c) BY <1>5, <1>10 DEF Authorize
<1>11. CASE Sign(c) BY <1>2, <1>3, <1>11 DEF Sign
<1>12. CASE Sent(c) BY <1>2, <1>3, <1>4, <1>6, <1>12 DEF Sent
<1>13. CASE Body(c) BY <1>1, <1>3, <1>4, <1>13, CutOffCarries DEF Body
<1> QED BY <1>7, <1>8, <1>9, <1>10, <1>11, <1>12, <1>13

LEMMA LadderCarries ==
  ASSUME call \in [Callers -> Call], NEW c \in Callers,
         Escalate(c) \/ Rescue(c) \/ GiveUp(c) \/ TopUp(c) \/ Deposit(c) \/ Book(c) \/ Catch(c)
  PROVE  Carries(c)
<1>1. ~At(c, "idle") /\ call[c] \in Call
  BY DEF At, Escalate, Rescue, GiveUp, TopUp, Deposit, Book, Catch
<1>2. ASSUME NEW pc, Goto(c, pc) PROVE Carries(c) BY <1>1, <1>2, GotoCarries
<1>3. ASSUME NEW rung, Again(c, rung) PROVE Carries(c) BY <1>1, <1>3, AgainCarries
<1>4. ASSUME NEW cost, End(c, cost) PROVE Carries(c) BY <1>4, EndCarries
<1>5. CASE Escalate(c)
  <2> DEFINE new == [call[c] EXCEPT !.pc = "catch", !.err = "fatal",
                                    !.dropped = Uncertain(c) /\ call[c].settled > 0]
  <2>1. new.early = call[c].early /\ new.used = call[c].used BY <1>1 DEF Call
  <2>2. Set(c, new) => Carries(c) BY <1>1, <2>1, SetCarries
  <2>3. CASE aborted BY <1>5, <2>2, <2>3 DEF Escalate
  <2>4. CASE ~aborted BY <1>2, <1>3, <1>5, <2>4 DEF Escalate
  <2> QED BY <2>3, <2>4
<1>6. CASE Rescue(c)
  <2> DEFINE new == [call[c] EXCEPT !.pc = "attempt", !.rung = "rescue", !.err = "none",
                                    !.used = Backup]
  <2>1. new.early = call[c].early /\ new.used = Backup BY <1>1 DEF Call
  <2> QED BY <1>1, <1>6, <2>1, SetCarries DEF Rescue
<1>7. CASE GiveUp(c) \/ TopUp(c) BY <1>2, <1>7 DEF GiveUp, TopUp
<1>8. CASE Deposit(c) BY <1>2, <1>3, <1>8 DEF Deposit
<1>9. CASE Book(c) \/ Catch(c) BY <1>4, <1>9 DEF Book, Catch
<1> QED BY <1>5, <1>6, <1>7, <1>8, <1>9

LEMMA ParkedStep == CallsInv /\ ParkedInv /\ [Next]_vars => ParkedInv'
<1> SUFFICES ASSUME CallsInv, ParkedInv, [Next]_vars PROVE ParkedInv' OBVIOUS
<1>0. call \in [Callers -> Call] BY DEF CallsInv
<1>1. primary' = primary
  BY DEF Next, Abort, NewRun, Begin, Step, Attempt, Turn, Request, Authorize, Sign, Sent, Body,
         Escalate, Rescue, GiveUp, TopUp, Deposit, Book, Catch, vars, shared
<1> DEFINE Fits == \A c \in Callers : ~At(c, "idle") => call[c].early \/ call[c].used # primary
<1>6. failovers' \in Nat
  <2>1. failovers' \in {failovers, failovers + 1, 0}
    BY DEF Next, Abort, NewRun, Begin, Step, Attempt, Turn, Request, Authorize, Sign, Sent, Body,
           Escalate, Rescue, GiveUp, TopUp, Deposit, Book, Catch, vars, shared
  <2> QED BY <2>1 DEF ParkedInv
<1>2. ASSUME NEW c \in Callers, Carries(c) PROVE Fits'
  <2>1. \A d \in Callers : d # c => call'[d] = call[d] BY <1>2 DEF Carries, Alone
  <2>2. ~At(c, "idle")' => call'[c].early \/ call'[c].used # primary
    BY <1>2, BackupIsAnother DEF Carries, ParkedInv, At
  <2> QED BY <1>1, <2>1, <2>2 DEF ParkedInv, At
<1>3. ASSUME NEW c \in Callers, Begin(c) PROVE Fits'
  <2> DEFINE kind == IF Degraded THEN Backup ELSE primary
             new  == [Start(kind) EXCEPT !.pc = "attempt",
                                         !.early = mode = "ask" \/ failovers < Threshold]
  <2>1. call'[c] = new /\ Alone(c) BY <1>0, <1>3, SetIs DEF Begin
  <2>2. new.used = kind /\ (new.early <=> mode = "ask" \/ failovers < Threshold) BY DEF Start
  <2>3. CASE mode = "ask" \/ failovers < Threshold
    BY <1>1, <2>1, <2>2, <2>3 DEF ParkedInv, At, Alone
  <2>4. CASE ~(mode = "ask" \/ failovers < Threshold)
    <3>1. failovers \in Nat /\ Threshold \in Nat BY ModelCallsAssumption DEF ParkedInv
    <3>2. Degraded BY <2>4, <3>1 DEF Degraded
    <3> QED BY <1>1, <2>1, <2>2, <3>2, BackupIsAnother DEF ParkedInv, At, Alone
  <2> QED BY <2>3, <2>4
<1>4. ASSUME NEW c \in Callers, Step(c) PROVE Fits'
  <2>1. Carries(c) BY <1>0, <1>4, AttemptsCarry, LadderCarries DEF Step
  <2> QED BY <1>2, <2>1
<1>5. CASE Abort \/ NewRun \/ UNCHANGED vars
  BY <1>5 DEF Abort, NewRun, vars, shared, ParkedInv, At
<1>7. CASE Fits' BY <1>6, <1>7 DEF ParkedInv
<1> QED BY <1>3, <1>4, <1>5, <1>7 DEF Next

\* A parked primary is used again only when a call that was begun before it was parked,
\* or in ask mode, is answered (index.ts:392-400, 452, 465).
THEOREM ParkedIsLeftAlone == Spec => ParkedIsLeft
<1>1. Init => ParkedInv
  <2> SUFFICES ASSUME Init PROVE ParkedInv OBVIOUS
  <2>1. \A c \in Callers : At(c, "idle") BY StartIsOutside DEF Init, At
  <2>2. failovers \in Nat BY DEF Init
  <2> QED BY <2>1, <2>2 DEF ParkedInv
<1>2. CallsInv /\ ParkedInv /\ [Next]_vars =>
        [failovers >= Threshold /\ failovers' < Threshold =>
           \E c \in Callers : At(c, "book") /\ call[c].early]_vars
  <2> SUFFICES ASSUME ParkedInv, [Next]_vars, failovers >= Threshold, failovers' < Threshold
               PROVE  \E c \in Callers : At(c, "book") /\ call[c].early
    OBVIOUS
  <2>1. failovers \in Nat /\ Threshold \in Nat BY ModelCallsAssumption DEF ParkedInv
  <2>2. failovers' # failovers /\ failovers' # failovers + 1 BY <2>1
  <2>3. PICK c \in Callers : Book(c)
    BY <2>2 DEF Next, Abort, NewRun, Begin, Step, Attempt, Turn, Request, Authorize, Sign, Sent,
                Body, Escalate, Rescue, GiveUp, TopUp, Deposit, Catch, vars, shared
  <2>4. At(c, "book") /\ call[c].used = primary BY <2>2, <2>3 DEF Book
  <2> QED BY <2>4 DEF ParkedInv, At
<1> QED BY <1>1, <1>2, CallsInitially, CallsStep, ParkedStep, PTL DEF Spec, ParkedIsLeft

-----------------------------------------------------------------------------
(***************************************************************************)
(* The stream of an answer.  What is kept of a call is what its pieces so  *)
(* far make; and once the seller has said why it stops, either all has     *)
(* been sent or the answer is known to be cut.                             *)
(***************************************************************************)
StreamSpec == StreamInit /\ [][StreamNext]_streamVars

Reasons == {"none", "stop", "length", "done"}
Halves  == Nat \X Nat
Entry   == [id : Nat, name : Seq(Halves), args : Seq(Halves)]
Half(c, entry) ==
  /\ entry.id \in {0, c} /\ entry.args = <<<<c, 1>>>>
  /\ entry.name = IF reply.style.names = "halves" THEN <<<<c, 1>>>> ELSE Name(c)
Whole(c, entry) ==
  entry.id \in {0, c} /\ entry.name = Name(c) /\ entry.args = Args(c)

StreamTyped ==
  /\ reply \in [text : Nat, calls : 0..MaxEntries, style : Styles]
  /\ sent \in [text : Nat, halves : [Calls -> 0..2], reason : Reasons]
  /\ heard \in [text : Nat, reason : Reasons, done : BOOLEAN, usage : BOOLEAN]
  /\ entries \in [Calls -> Entry]
EntriesInv ==
  \A c \in Calls :
    /\ c > reply.calls => sent.halves[c] = 0
    /\ sent.halves[c] = 0 => entries[c] = NoEntry
    /\ sent.halves[c] = 1 => Half(c, entries[c]) /\ ~reply.style.together
    /\ sent.halves[c] = 2 => Whole(c, entries[c])
EndInv ==
  /\ heard.text = sent.text
  /\ heard.done \/ heard.reason # "none" => sent.reason # "none"
  /\ sent.reason # "none" => AllSent \/ heard.reason = "length"
  /\ outcome = "accepted" => heard.done \/ heard.reason # "none"
StreamInv == StreamTyped /\ EntriesInv /\ EndInv

-----------------------------------------------------------------------------
LEMMA HalvesAreNames ==
  ASSUME NEW c \in Nat
  PROVE  /\ <<c, 1>> \in Halves /\ <<c, 2>> \in Halves
         /\ <<<<c, 1>>>> \in Seq(Halves) /\ <<<<c, 2>>>> \in Seq(Halves)
         /\ Name(c) \in Seq(Halves) /\ Args(c) \in Seq(Halves)
         /\ <<<<c, 1>>>> \o <<<<c, 2>>>> = Name(c)
         /\ Name(c) # <<>> /\ <<<<c, 1>>>> # <<<<c, 2>>>> /\ Args(c) = Name(c)
<1>1. <<c, 1>> \in Halves /\ <<c, 2>> \in Halves BY DEF Halves
<1> DEFINE a == <<c, 1>>  b == <<c, 2>>
<1>2. a \in Halves /\ b \in Halves /\ a # b BY <1>1
<1> HIDE DEF a, b
<1>3. <<a>> \in Seq(Halves) /\ <<b>> \in Seq(Halves) /\ <<a, b>> \in Seq(Halves) BY <1>2
<1>4. <<a>> \o <<b>> = <<a, b>>
  <2>1. /\ Len(<<a>> \o <<b>>) = 2 /\ (<<a>> \o <<b>>)[1] = a /\ (<<a>> \o <<b>>)[2] = b
        /\ <<a>> \o <<b>> \in Seq(Halves)
    BY <1>3, ConcatProperties
  <2>2. <<a, b>>[1] = a /\ <<a, b>>[2] = b /\ Len(<<a, b>>) = 2 OBVIOUS
  <2> DEFINE l == <<a>> \o <<b>>  r == <<a, b>>
  <2>3. l \in Seq(Halves) /\ r \in Seq(Halves) /\ Len(l) = Len(r) BY <1>3, <2>1, <2>2
  <2>4. \A i \in 1..Len(l) : l[i] = r[i]
    <3>1. l[1] = r[1] /\ l[2] = r[2] /\ Len(l) = 2 BY <2>1, <2>2
    <3> HIDE DEF l, r
    <3> QED BY <3>1
  <2> HIDE DEF l, r
  <2>5. l = r BY <2>3, <2>4, SeqEqual
  <2> QED BY <2>5 DEF l, r
<1>5. <<a>> # <<b>> /\ <<a, b>> # <<>> BY <1>2
<1> QED BY <1>1, <1>3, <1>4, <1>5 DEF a, b, Name, Args

\* The first piece of a call, put to no entry.
LEMMA FirstPiece ==
  ASSUME NEW c \in Nat, reply.style \in Styles
  PROVE  Added(NoEntry, Delta(c, 1)) \in Entry /\ Half(c, Added(NoEntry, Delta(c, 1)))
<1> DEFINE new == Added(NoEntry, Delta(c, 1))
<1>1. Delta(c, 1).id \in {0, c} BY DEF Delta
<1>2. Delta(c, 1).args = <<<<c, 1>>>> BY DEF Delta, Args
<1>3. Delta(c, 1).name = IF reply.style.names = "halves" THEN <<<<c, 1>>>> ELSE Name(c)
  BY DEF Delta, Styles, Name
<1>4. new.id \in {0, c} BY <1>1 DEF Added, NoEntry
<1>5. new.args = <<<<c, 1>>>> BY <1>2, HalvesAreNames DEF Added, NoEntry
<1>6. new.name = IF reply.style.names = "halves" THEN <<<<c, 1>>>> ELSE Name(c)
  BY <1>3, HalvesAreNames DEF Added, NoEntry, WithName
<1>7. new = [id |-> new.id, name |-> new.name, args |-> new.args] BY DEF Added
<1>8. new \in Entry
  <2>1. new.id \in Nat BY <1>4
  <2>2. new.name \in Seq(Halves) BY <1>6, HalvesAreNames
  <2>3. new.args \in Seq(Halves) BY <1>5, HalvesAreNames
  <2> QED BY <1>7, <2>1, <2>2, <2>3 DEF Entry
<1> QED BY <1>4, <1>5, <1>6, <1>8 DEF Half

\* The second piece, put to the first.
LEMMA SecondPiece ==
  ASSUME NEW c \in Nat, reply.style \in Styles, NEW entry \in Entry, Half(c, entry)
  PROVE  Added(entry, Delta(c, 2)) \in Entry /\ Whole(c, Added(entry, Delta(c, 2)))
<1> DEFINE new == Added(entry, Delta(c, 2))
<1>1. Delta(c, 2).id = 0 BY DEF Delta
<1>2. Delta(c, 2).args = <<<<c, 2>>>> BY DEF Delta, Args
<1>3. Delta(c, 2).name = IF reply.style.names = "halves" THEN <<<<c, 2>>>>
                         ELSE IF reply.style.names = "repeated" THEN Name(c) ELSE <<>>
  BY DEF Delta, Styles, Name
<1>4. new.id \in {0, c} BY <1>1 DEF Added, Half
<1>5. new.args = Args(c) BY <1>2, HalvesAreNames DEF Added, Half
<1>6. <<<<c, 2>>>> # <<>> OBVIOUS
<1>7. new.name = Name(c)
  BY <1>3, <1>6, HalvesAreNames DEF Added, Half, WithName
<1>8. new = [id |-> new.id, name |-> new.name, args |-> new.args] BY DEF Added
<1>9. new \in Entry
  <2>1. new.id \in Nat BY <1>4
  <2>2. new.name \in Seq(Halves) /\ new.args \in Seq(Halves) BY <1>5, <1>7, HalvesAreNames
  <2> QED BY <1>8, <2>1, <2>2 DEF Entry
<1> QED BY <1>4, <1>5, <1>7, <1>9 DEF Whole

-----------------------------------------------------------------------------
LEMMA StreamStarts == StreamInit => StreamInv
<1> SUFFICES ASSUME StreamInit PROVE StreamInv OBVIOUS
<1>1. PICK t \in 0..MaxText, n \in 0..MaxEntries, style \in Styles :
        reply = [text |-> t, calls |-> n, style |-> style]
  BY DEF StreamInit
<1>2. NoEntry \in Entry BY DEF NoEntry, Entry
<1>3. StreamTyped
  <2>1. reply \in [text : Nat, calls : 0..MaxEntries, style : Styles] BY <1>1, StreamAssumption
  <2>2. sent \in [text : Nat, halves : [Calls -> 0..2], reason : Reasons] BY DEF StreamInit, Reasons
  <2>3. heard \in [text : Nat, reason : Reasons, done : BOOLEAN, usage : BOOLEAN]
    BY DEF StreamInit, Reasons
  <2>4. entries \in [Calls -> Entry] BY <1>2 DEF StreamInit
  <2> QED BY <2>1, <2>2, <2>3, <2>4 DEF StreamTyped
<1>4. EntriesInv BY DEF EntriesInv, StreamInit
<1>5. EndInv BY <1>1 DEF EndInv, StreamInit
<1> QED BY <1>3, <1>4, <1>5 DEF StreamInv

LEMMA TextKeeps == StreamInv /\ Text => StreamInv'
<1> SUFFICES ASSUME StreamInv, Text PROVE StreamInv' OBVIOUS
<1>1. StreamTyped' BY DEF StreamInv, StreamTyped, Text
<1>2. EntriesInv' BY DEF StreamInv, StreamTyped, EntriesInv, Half, Whole, Text
<1>3. EndInv' BY DEF StreamInv, StreamTyped, EndInv, Text, Flows, AllSent
<1> QED BY <1>1, <1>2, <1>3 DEF StreamInv

LEMMA PieceKeeps ==
  ASSUME StreamInv, NEW c \in Calls, CallPiece(c)
  PROVE  StreamInv'
<1> DEFINE half == sent.halves[c] + 1
           new  == Added(entries[c], Delta(c, half))
<1>1. /\ reply.style \in Styles /\ c \in Nat /\ entries[c] \in Entry
      /\ sent.halves[c] \in 0..2 /\ half \in {1, 2} /\ c <= reply.calls /\ ~reply.style.together
  <2>1. c \in Nat BY DEF Calls
  <2>2. reply.style \in Styles BY DEF StreamInv, StreamTyped
  <2>3. entries[c] \in Entry BY DEF StreamInv, StreamTyped
  <2>4. sent.halves[c] \in 0..2 BY DEF StreamInv, StreamTyped
  <2> QED BY <2>1, <2>2, <2>3, <2>4 DEF CallPiece
<1>2. half = 1 => new \in Entry /\ Half(c, new)
  <2> SUFFICES ASSUME half = 1 PROVE new \in Entry /\ Half(c, new) OBVIOUS
  <2>1. entries[c] = NoEntry BY <1>1 DEF StreamInv, EntriesInv
  <2> QED BY <1>1, <2>1, FirstPiece
<1>3. half = 2 => new \in Entry /\ Whole(c, new)
  <2> SUFFICES ASSUME half = 2 PROVE new \in Entry /\ Whole(c, new) OBVIOUS
  <2>1. Half(c, entries[c]) BY <1>1 DEF StreamInv, EntriesInv
  <2> QED BY <1>1, <2>1, SecondPiece
<1>4. /\ sent' = [sent EXCEPT !.halves[c] = half] /\ entries' = [entries EXCEPT ![c] = new]
      /\ UNCHANGED <<reply, heard, outcome>>
  BY DEF CallPiece
<1>5. new \in Entry BY <1>1, <1>2, <1>3
<1> HIDE DEF half, new
<1>6. StreamTyped' BY <1>1, <1>4, <1>5 DEF StreamInv, StreamTyped
<1>7. ASSUME NEW d \in Calls
      PROVE  /\ d > reply.calls => sent'.halves[d] = 0
             /\ sent'.halves[d] = 0 => entries'[d] = NoEntry
             /\ sent'.halves[d] = 1 => Half(d, entries'[d]) /\ ~reply.style.together
             /\ sent'.halves[d] = 2 => Whole(d, entries'[d])
  <2>1. CASE d = c
    <3>1. sent'.halves[c] = half /\ entries'[c] = new BY <1>4 DEF StreamInv, StreamTyped
    <3> QED BY <1>1, <1>2, <1>3, <2>1, <3>1 DEF Calls, StreamInv, StreamTyped
  <2>2. CASE d # c
    <3>1. sent'.halves[d] = sent.halves[d] /\ entries'[d] = entries[d]
      BY <1>4, <2>2 DEF StreamInv, StreamTyped
    <3> QED BY <3>1 DEF StreamInv, EntriesInv
  <2> QED BY <2>1, <2>2
<1>8. EntriesInv' BY <1>4, <1>7 DEF EntriesInv, Half, Whole
<1>9. EndInv' BY <1>4 DEF StreamInv, StreamTyped, EndInv, CallPiece, Flows
<1> QED BY <1>6, <1>8, <1>9 DEF StreamInv

LEMMA TogetherKeeps == StreamInv /\ CallsTogether => StreamInv'
<1> SUFFICES ASSUME StreamInv, CallsTogether PROVE StreamInv' OBVIOUS
<1> DEFINE Made(c) == IF c > reply.calls THEN NoEntry
                      ELSE [id |-> Delta(c, 1).id, name |-> Name(c), args |-> Args(c)]
<1>1. /\ sent' = [sent EXCEPT !.halves = [c \in Calls |-> IF c <= reply.calls THEN 2 ELSE 0]]
      /\ entries' = [c \in Calls |-> Made(c)]
      /\ UNCHANGED <<reply, heard, outcome>>
  BY DEF CallsTogether
<1>2. NoEntry \in Entry BY DEF NoEntry, Entry
<1>3. ASSUME NEW c \in Calls
      PROVE  Made(c) \in Entry /\ (c <= reply.calls => Whole(c, Made(c)))
  <2>1. c \in Nat BY DEF Calls
  <2>2. Delta(c, 1).id \in {0, c} BY DEF Delta
  <2>3. Name(c) \in Seq(Halves) /\ Args(c) \in Seq(Halves) BY <2>1, HalvesAreNames
  <2>4. [id |-> Delta(c, 1).id, name |-> Name(c), args |-> Args(c)] \in Entry
    BY <2>1, <2>2, <2>3 DEF Entry
  <2>5. c <= reply.calls => Whole(c, Made(c))
    BY <2>1, <2>2 DEF Whole, StreamInv, StreamTyped
  <2> QED BY <1>2, <2>4, <2>5
<1> HIDE DEF Made
<1>4. entries' \in [Calls -> Entry] BY <1>1, <1>3
<1>5. StreamTyped' BY <1>1, <1>4 DEF StreamInv, StreamTyped
<1>6. ASSUME NEW c \in Calls
      PROVE  /\ c > reply.calls => sent'.halves[c] = 0
             /\ sent'.halves[c] = 0 => entries'[c] = NoEntry
             /\ sent'.halves[c] # 1
             /\ sent'.halves[c] = 2 => Whole(c, entries'[c])
  <2>1. c \in Nat /\ reply.calls \in Nat BY DEF Calls, StreamInv, StreamTyped
  <2>2. sent'.halves[c] = IF c <= reply.calls THEN 2 ELSE 0 BY <1>1 DEF StreamInv, StreamTyped
  <2>3. entries'[c] = Made(c) BY <1>1
  <2>4. c > reply.calls => Made(c) = NoEntry BY DEF Made
  <2> QED BY <1>3, <2>1, <2>2, <2>3, <2>4
<1>7. EntriesInv' BY <1>1, <1>6 DEF EntriesInv, Whole
<1>8. EndInv' BY <1>1 DEF StreamInv, StreamTyped, EndInv, CallsTogether, Flows
<1> QED BY <1>5, <1>7, <1>8 DEF StreamInv

\* Steps that leave the pieces alone.
LEMMA RestKeeps ==
  ASSUME StreamInv, FinishStream \/ Usage \/ Done \/ EndOfStream \/ Breaks
  PROVE  StreamInv'
<1>1. /\ sent'.halves = sent.halves /\ sent'.text = sent.text /\ UNCHANGED <<reply, entries>>
      /\ StreamTyped'
  <2>1. CASE FinishStream BY <2>1 DEF StreamInv, StreamTyped, FinishStream, Reasons
  <2>2. CASE Usage BY <2>2 DEF StreamInv, StreamTyped, Usage
  <2>3. CASE Done BY <2>3 DEF StreamInv, StreamTyped, Done, Reasons
  <2>4. CASE EndOfStream \/ Breaks BY <2>4 DEF StreamInv, StreamTyped, EndOfStream, Breaks
  <2> QED BY <2>1, <2>2, <2>3, <2>4
<1>2. EntriesInv' BY <1>1 DEF StreamInv, EntriesInv, Half, Whole
<1>3. AllSent' <=> AllSent BY <1>1 DEF AllSent
<1>4. EndInv'
  <2>1. CASE FinishStream BY <1>3, <2>1 DEF StreamInv, StreamTyped, EndInv, FinishStream, Flows
  <2>2. CASE Usage BY <1>3, <2>2 DEF StreamInv, StreamTyped, EndInv, Usage
  <2>3. CASE Done BY <1>3, <2>3 DEF StreamInv, StreamTyped, EndInv, Done
  <2>4. CASE EndOfStream BY <1>3, <2>4 DEF StreamInv, StreamTyped, EndInv, EndOfStream, Accepts
  <2>5. CASE Breaks BY <1>3, <2>5 DEF StreamInv, StreamTyped, EndInv, Breaks
  <2> QED BY <2>1, <2>2, <2>3, <2>4, <2>5
<1> QED BY <1>1, <1>2, <1>4 DEF StreamInv

LEMMA StreamKeeps == StreamInv /\ [StreamNext]_streamVars => StreamInv'
<1> SUFFICES ASSUME StreamInv, [StreamNext]_streamVars PROVE StreamInv' OBVIOUS
<1>1. CASE UNCHANGED streamVars
  BY <1>1 DEF streamVars, StreamInv, StreamTyped, EntriesInv, EndInv, Half, Whole, AllSent
<1>2. CASE StreamNext BY <1>2, TextKeeps, PieceKeeps, TogetherKeeps, RestKeeps DEF StreamNext
<1> QED BY <1>1, <1>2

-----------------------------------------------------------------------------
\* All that was sent is there, once nothing is missing.
LEMMA SentIsExecuted ==
  ASSUME StreamInv, AllSent, heard.reason # "length"
  PROVE  Executed = 1..reply.calls /\ \A c \in Executed : Whole(c, entries[c])
<1>1. reply.calls \in 0..MaxEntries BY DEF StreamInv, StreamTyped
<1>2. ASSUME NEW c \in Calls
      PROVE  /\ c <= reply.calls => Whole(c, entries[c])
             /\ c > reply.calls => entries[c].name = <<>>
  BY <1>1 DEF StreamInv, EntriesInv, AllSent, NoEntry, Calls
<1>3. ASSUME NEW c \in Calls PROVE c \in Executed <=> c <= reply.calls
  <2>1. c \in Nat /\ reply.calls \in Nat BY <1>1 DEF Calls
  <2>2. CASE c <= reply.calls
    <3>1. Whole(c, entries[c]) BY <1>2, <2>2
    <3> QED BY <2>1, <2>2, <3>1, HalvesAreNames DEF Whole, Executed, Completed, Parsed
  <2>3. CASE c > reply.calls BY <1>2, <2>1, <2>3 DEF Executed, Completed
  <2> QED BY <2>1, <2>2, <2>3
<1>4. Executed \subseteq Calls BY DEF Executed, Completed
<1>5. Executed = 1..reply.calls
  <2>1. MaxEntries \in Nat /\ reply.calls \in Nat /\ reply.calls <= MaxEntries
    BY <1>1, StreamAssumption
  <2>2. 1..reply.calls \subseteq Calls BY <2>1 DEF Calls
  <2>3. ASSUME NEW c \in Calls PROVE c \in Executed <=> c \in 1..reply.calls
    BY <1>3, <2>1 DEF Calls
  <2> QED BY <1>4, <2>2, <2>3
<1> QED BY <1>2, <1>3, <1>4, <1>5

\* An answer that is taken from a stream, whatever the pieces and wherever the
\* connection ends, is the one the seller sent: its text and each of its calls, whole;
\* of one that the seller cut no call is run (providers.ts:257-386, index.ts:1068-1107).
THEOREM AnswersAreWhole == StreamSpec => []TakenIsWhole
<1>1. StreamInv => TakenIsWhole
  <2> SUFFICES ASSUME StreamInv, outcome = "accepted", heard.reason # "length"
               PROVE  /\ heard.text = reply.text /\ Executed = 1..reply.calls
                      /\ \A c \in Executed : Whole(c, entries[c])
    BY DEF TakenIsWhole, Executed, Whole
  <2>1. AllSent BY DEF StreamInv, EndInv
  <2> QED BY <2>1, SentIsExecuted DEF StreamInv, EndInv, AllSent
<1> QED BY <1>1, StreamStarts, StreamKeeps, PTL DEF StreamSpec
=============================================================================
