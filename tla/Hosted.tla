-------------------------------- MODULE Hosted --------------------------------
(***************************************************************************)
(* A hosted run pays through the supervisor's socket.                      *)
(*                                                                         *)
(* The worker of agent-runtime makes model calls (hosted-provider.ts,      *)
(* completeWithContext of context.ts), paid service calls and moves of     *)
(* funds (hosted-economy.ts), one job after the other.  Every request      *)
(* carries an identity derived from the run and the turn or tool call, and *)
(* the gateway behind the supervisor is keyed by it.  A request or its     *)
(* answer may be lost, time out, wait for the owner's approval, and be     *)
(* made again: by the adapter, after a pause, after a crash.               *)
(*                                                                         *)
(* The supervisor and the gateway are not in the repository: they are      *)
(* modelled from what hosted-provider.ts, hosted-economy.ts and            *)
(* protocol/src/context.ts say of them.                                    *)
(***************************************************************************)
EXTENDS Naturals, Sequences, FiniteSets, SequencesExt

CONSTANTS
  Jobs,       \* the paid steps of the run, numbered from 1
  Plans,      \* what these steps may be
  MaxRetry,   \* how often a request is compacted and asked again
  PostWait,   \* PostWait[k]: how long a tool of kind k waits for an answer
  Follow,     \* TRANSFER_WAIT_MS, in the unit of moves
  Deadline,   \* Deadline[k]: the deadline of the whole tool call
  MaxLosses,  \* bound: answers lost before their time is out
  MaxCrashes  \* bound: how often the worker dies

Tools == {"pay", "move"}
Kinds == Tools \cup {"model"}

ASSUME HostedAssumption ==
  /\ Jobs \in SUBSET (Nat \ {0}) /\ Jobs = 1..Cardinality(Jobs)
  /\ Plans \subseteq [Jobs -> Kinds]
  /\ MaxRetry \in Nat
  /\ \A k \in Tools : PostWait[k] \in Nat \ {0} /\ Deadline[k] \in Nat \ {0}
  /\ Follow \in Nat \ {0} /\ MaxLosses \in Nat /\ MaxCrashes \in Nat

\* A purchase: a job, and for a model call which attempt at a request it is.
Purchases == Jobs \X (0..MaxRetry)

VARIABLES
  kind,    \* what each job is
  run,     \* the run: running, waiting for the outside, or ended
  job,     \* the job it is at
  wait,    \* while it waits: the purchase and the cause
  call,    \* the invocation of each job in this process
  mem,     \* ContextState of the model call: its request
  disk,    \* the same in the checkpoint
  saved,   \* run.tools: started, or waiting for an approval
  told,    \* what the result of each purchase said of the payment
  socket,  \* the supervisor's queue of requests
  busy,    \* whether the gateway is at work for the request at its head
  ledger,  \* the gateway's record of each request identity
  paid,    \* history: payments made for each purchase
  sent,    \* history: the request each model purchase was asked with
  losses, crashes

vars == <<kind, run, job, wait, call, mem, disk, saved, told, socket, busy, ledger,
          paid, sent, losses, crashes>>

PCs     == {"todo", "freeze", "ready", "posted", "replied", "again", "follow", "thaw",
            "pausing", "over"}
Replies == {"none", "paid", "refused", "declined", "approval", "unknown", "context"}
Call    == [pc : PCs, n : 0..2, reply : Replies, since : 0..9, elapsed : 0..9]
Bodies  == {0, 1}
Request == [retry : 0..MaxRetry, prepared : BOOLEAN, body : Bodies]
Told    == {"none", "paid", "not paid", "no claim", "nothing charged"}
Post    == [for : Purchases, id : Jobs \X (0..MaxRetry), live : BOOLEAN]
Ledger  == {"none", "approval", "granted", "declined", "working", "paid", "unpaid",
            "context"}

Fresh      == [retry |-> 0, prepared |-> FALSE, body |-> 0]
Idle       == [pc |-> "todo", n |-> 0, reply |-> "none", since |-> 0, elapsed |-> 0]
Over       == [Idle EXCEPT !.pc = "over"]
It(j)      == call[j]
At(j, pc)  == call[j].pc = pc
Tool(j)    == kind[j] \in Tools
Current(j) == run = "running" /\ j = job
\* The purchase a job is making, and the identity its requests carry.
For(j)     == <<j, IF Tool(j) THEN 0 ELSE mem.retry>>
FreshId(j) == <<j, IF Tool(j) THEN It(j).n ELSE mem.retry>>
Id(j)      == For(j)

Init ==
  /\ kind \in Plans
  /\ run = "running" /\ job = 1 /\ wait = [for |-> <<1, 0>>, cause |-> "none"]
  /\ call = [j \in Jobs |-> Idle]
  /\ mem = Fresh /\ disk = Fresh
  /\ saved = [j \in Jobs |-> "none"] /\ told = [p \in Purchases |-> "none"]
  /\ socket = <<>> /\ busy = FALSE
  /\ ledger = [p \in Purchases |-> "none"]
  /\ paid = [p \in Purchases |-> 0]
  /\ sent = [p \in Purchases |-> {}]
  /\ losses = 0 /\ crashes = 0

outside == <<socket, busy, ledger, paid>>
history == <<losses, crashes>>

Become(j, new) == call' = [call EXCEPT ![j] = new]
Goto(j, pc)    == Become(j, [It(j) EXCEPT !.pc = pc, !.reply = "none", !.since = 0])

-----------------------------------------------------------------------------
(***************************************************************************)
(* The end of a job.  A tool call the deadline has abandoned goes on, and  *)
(* nobody listens to it.                                                   *)
(***************************************************************************)
Answered(j)  == \E r \in 0..MaxRetry : told[<<j, r>>] # "none"
Listening(j) == Current(j) /\ ~Answered(j)

Next1(j) == /\ IF j + 1 \in Jobs THEN job' = j + 1 /\ UNCHANGED run
                                 ELSE run' = "ended" /\ UNCHANGED job
            /\ mem' = Fresh /\ disk' = Fresh
            /\ UNCHANGED wait

\* The result is recorded and the run goes on.
Tell(j, what) ==
  /\ Become(j, Over)
  /\ IF Listening(j) THEN told' = [told EXCEPT ![For(j)] = what] /\ Next1(j)
                     ELSE UNCHANGED <<told, run, job, wait, mem, disk>>
  /\ UNCHANGED saved

\* The run fails, or stops at the user's word.
EndRun(j, what) ==
  /\ Become(j, Over)
  /\ IF Listening(j) THEN told' = [told EXCEPT ![For(j)] = what] /\ run' = "ended"
                     ELSE UNCHANGED <<told, run>>
  /\ UNCHANGED <<job, wait, mem, disk, saved>>

\* RuntimePause.
Pause(j, cause) ==
  /\ Become(j, IF Listening(j) THEN Idle ELSE Over)
  /\ IF Listening(j)
       THEN /\ run' = "waiting" /\ wait' = [for |-> For(j), cause |-> cause]
            /\ saved' = [saved EXCEPT ![j] = IF Tool(j) THEN "approval" ELSE @]
       ELSE UNCHANGED <<run, wait, saved>>
  /\ UNCHANGED <<told, job, mem, disk>>

-----------------------------------------------------------------------------
(***************************************************************************)
(* Making a request.                                                       *)
(***************************************************************************)
\* completeWithContext: the request is compacted and gets this turn's note, unless
\* it is one that was prepared before.
Prepares(j) ==
  \/ mem.prepared /\ UNCHANGED mem
  \/ ~mem.prepared /\ \E b \in Bodies : mem' = [mem EXCEPT !.prepared = TRUE, !.body = b]
Prepare(j) ==
  /\ Current(j) /\ ~Tool(j) /\ At(j, "todo")
  /\ Prepares(j)
  /\ Goto(j, "freeze")
  /\ UNCHANGED <<kind, run, job, wait, disk, saved, told, sent, outside, history>>

\* The exact request is checkpointed before anything is paid.
Freeze(j) ==
  /\ Current(j) /\ At(j, "freeze")
  /\ disk' = mem
  /\ Goto(j, "ready")
  /\ UNCHANGED <<kind, run, job, wait, mem, saved, told, sent, outside, history>>

\* record: a tool call is noted as started; a paid one that was started before and did
\* not stop for an approval is left to be reconciled by hand.
StartTool(j) ==
  /\ Current(j) /\ Tool(j) /\ At(j, "todo")
  /\ IF kind[j] = "pay" /\ saved[j] = "started"
       THEN EndRun(j, "no claim")
       ELSE /\ saved' = [saved EXCEPT ![j] = "started"]
            /\ Become(j, [Idle EXCEPT !.pc = "ready"])
            /\ UNCHANGED <<run, job, wait, mem, disk, told>>
  /\ UNCHANGED <<kind, sent, outside, history>>

\* A paid call may be refused before the socket: no rail, no evidence, a low score.
RefuseLocally(j) ==
  /\ kind[j] = "pay" /\ At(j, "ready")
  /\ Tell(j, "not paid")
  /\ UNCHANGED <<kind, sent, outside, history>>

\* A request that could not be sent: a paid call is unknown, a move is sent again, a
\* model call waits to be reconciled.
NotSent(j) ==
  /\ At(j, "ready") /\ losses < MaxLosses
  /\ losses' = losses + 1
  /\ \/ kind[j] = "pay" /\ Tell(j, "no claim")
     \/ kind[j] = "move" /\ Goto(j, "again")
        /\ UNCHANGED <<run, job, wait, mem, disk, saved, told>>
     \/ kind[j] = "model" /\ Pause(j, "reconcile")
  /\ UNCHANGED <<kind, sent, outside, crashes>>

\* postHostedTool, and the request of createHostedProvider.
PostIt(j) ==
  /\ At(j, "ready") \/ At(j, "again")
  /\ Become(j, [It(j) EXCEPT !.pc = "posted", !.n = @ + 1, !.since = 0])
  /\ socket' = Append(socket, [for |-> For(j), id |-> Id(j), live |-> TRUE])
  /\ sent' = IF Tool(j) THEN sent ELSE [sent EXCEPT ![For(j)] = @ \cup {mem.body}]
  /\ UNCHANGED <<kind, run, job, wait, mem, disk, saved, told, busy, ledger, paid, history>>

-----------------------------------------------------------------------------
(***************************************************************************)
(* Waiting for the answer.                                                 *)
(***************************************************************************)
DueForTools(j) == \/ At(j, "posted") /\ Tool(j) /\ It(j).since = PostWait[kind[j]]
                  \/ At(j, "follow") /\ It(j).since = Follow
Due(j) == \/ At(j, "posted") /\ (Tool(j) => It(j).since = PostWait[kind[j]])
          \/ At(j, "follow") /\ It(j).since = Follow
DeadlineDue(j) == Tool(j) /\ It(j).elapsed = Deadline[kind[j]] /\ Listening(j)

Tick(j) ==
  /\ Tool(j) /\ (At(j, "posted") \/ At(j, "follow"))
  /\ ~Due(j) /\ ~DeadlineDue(j)
  /\ Become(j, [It(j) EXCEPT !.since = @ + 1,
                             !.elapsed = @ + (IF Listening(j) THEN 1 ELSE 0)])
  /\ UNCHANGED <<kind, run, job, wait, mem, disk, saved, told, sent, outside, history>>

\* The worker lets go of its connection; the request may still be in the queue, and
\* the gateway at work for it.
Mine(j, m) == m.for[1] = j /\ m.live
Dead(queue, j) == [i \in 1..Len(queue) |->
  IF Mine(j, queue[i]) THEN [queue[i] EXCEPT !.live = FALSE] ELSE queue[i]]
HangUp(j) ==
  \/ socket' = Dead(socket, j)
  \/ \E i \in 1..Len(socket) : /\ Mine(j, socket[i]) /\ ~(busy /\ i = 1)
                              /\ socket' = RemoveAt(socket, i)

\* What a lost answer means: a tool's request is posted once more.
GivesUp(j) ==
  CASE kind[j] = "model" -> Pause(j, "reconcile")
    [] Tool(j) /\ It(j).n = 1 ->
         Goto(j, "again") /\ UNCHANGED <<run, job, wait, mem, disk, saved, told>>
    [] Tool(j) /\ It(j).n = 2 -> Tell(j, "no claim")

Timeout(j) ==
  /\ At(j, "posted") /\ Due(j)
  /\ HangUp(j) /\ GivesUp(j)
  /\ UNCHANGED <<kind, sent, busy, ledger, paid, history>>

Lost(j) ==
  /\ At(j, "posted") /\ ~Due(j) /\ losses < MaxLosses
  /\ losses' = losses + 1
  /\ HangUp(j) /\ GivesUp(j)
  /\ UNCHANGED <<kind, sent, busy, ledger, paid, crashes>>

\* withinDeadline: the call goes on without an audience.
Expire(j) ==
  /\ DeadlineDue(j) /\ (At(j, "posted") \/ At(j, "follow"))
  /\ told' = [told EXCEPT ![For(j)] = IF kind[j] = "pay" THEN "no claim" ELSE "nothing charged"]
  /\ Next1(j)
  /\ UNCHANGED <<kind, call, saved, sent, outside, history>>

-----------------------------------------------------------------------------
(***************************************************************************)
(* The answer.                                                             *)
(***************************************************************************)
Said(j, reply) == At(j, "replied") /\ It(j).reply = reply

AnswerPaid(j) ==
  /\ Said(j, "paid")
  /\ \/ kind[j] # "move" /\ Tell(j, "paid")
     \/ kind[j] = "move" /\ Goto(j, "follow")
        /\ UNCHANGED <<run, job, wait, mem, disk, saved, told>>
  /\ UNCHANGED <<kind, sent, outside, history>>

\* The funds arrive, or the worker stops following them.
Followed(j) ==
  /\ At(j, "follow")
  /\ Tell(j, "paid")
  /\ UNCHANGED <<kind, sent, outside, history>>

\* A refusal before payment: a result of a tool, the end of the run for a model call.
AnswerRefused(j) ==
  /\ Said(j, "refused") \/ Said(j, "declined")
  /\ IF kind[j] = "model" \/ (kind[j] = "pay" /\ Said(j, "declined"))
       THEN EndRun(j, "not paid") ELSE Tell(j, "not paid")
  /\ UNCHANGED <<kind, sent, outside, history>>

AnswerUnknown(j) ==
  /\ Said(j, "unknown")
  /\ IF kind[j] = "model" THEN Pause(j, "reconcile") ELSE Tell(j, "no claim")
  /\ UNCHANGED <<kind, sent, outside, history>>

\* The pause for an approval is thrown, and then noted in the journal.
AnswerApproval(j) ==
  /\ Said(j, "approval")
  /\ IF Tool(j) THEN /\ Goto(j, "pausing")
                     /\ UNCHANGED <<run, job, wait, mem, disk, saved, told>>
                ELSE Pause(j, "approval")
  /\ UNCHANGED <<kind, sent, outside, history>>

Paused(j) ==
  /\ At(j, "pausing")
  /\ Pause(j, "approval")
  /\ UNCHANGED <<kind, sent, outside, history>>

\* ContextWindowExceeded: compact and ask again, under another identity.
AnswerContext(j) ==
  /\ Said(j, "context")
  /\ \/ /\ mem.retry < MaxRetry
        /\ mem' = [mem EXCEPT !.retry = @ + 1, !.prepared = FALSE, !.body = 0]
        /\ Goto(j, "thaw")
        /\ UNCHANGED <<run, job, wait, disk, saved, told>>
     \/ mem.retry = MaxRetry /\ EndRun(j, "no claim")
  /\ UNCHANGED <<kind, sent, outside, history>>

Thaw(j) ==
  /\ Current(j) /\ At(j, "thaw")
  /\ disk' = mem
  /\ Become(j, Idle)
  /\ UNCHANGED <<kind, run, job, wait, mem, saved, told, sent, outside, history>>

-----------------------------------------------------------------------------
(***************************************************************************)
(* Pauses, crashes and restarts.                                           *)
(***************************************************************************)
\* The payment is settled or released: the gateway is not at work for it, and no
\* request for it is on its way.
Reconciled == /\ ledger[wait.for] # "working"
              /\ \A i \in 1..Len(socket) : socket[i].for # wait.for

\* Control resumes the run when the owner has decided, or the payment is reconciled.
Resume ==
  /\ run = "waiting"
  /\ IF wait.cause = "approval" THEN ledger[wait.for] # "approval" ELSE Reconciled
  /\ run' = "running"
  /\ mem' = disk
  /\ UNCHANGED <<kind, job, wait, call, disk, saved, told, sent, outside, history>>

\* The process dies; the run is continued from its checkpoint by the next.
Crash ==
  /\ crashes < MaxCrashes /\ run # "ended"
  /\ crashes' = crashes + 1
  /\ call' = [j \in Jobs |-> IF Answered(j) THEN Over ELSE Idle]
  /\ mem' = disk
  /\ socket' = [i \in 1..Len(socket) |-> [socket[i] EXCEPT !.live = FALSE]]
  /\ UNCHANGED <<kind, run, job, wait, disk, saved, told, busy, ledger, paid, sent, losses>>

-----------------------------------------------------------------------------
(***************************************************************************)
(* The supervisor takes one request after the other; the gateway is keyed  *)
(* by their identity.                                                      *)
(***************************************************************************)
First == Head(socket)
Record == ledger[First.id]
Reply(r) ==
  /\ socket' = Tail(socket) /\ busy' = FALSE
  /\ IF First.live
       THEN Become(First.for[1], [It(First.for[1]) EXCEPT !.pc = "replied", !.reply = r])
       ELSE UNCHANGED call
inside == <<kind, run, job, wait, mem, disk, saved, told, sent, losses, crashes>>

Work == /\ ledger' = [ledger EXCEPT ![First.id] = "working"]
        /\ busy' = TRUE
        /\ UNCHANGED <<socket, call>>

\* A request for a purchase that is not known, or was approved: it is refused, needs
\* the owner, or is bought.
Take ==
  /\ socket # <<>> /\ ~busy
  /\ \/ Record \in {"none", "granted"} /\ Work
     \/ Record \in {"none", "granted"} /\ Reply("refused") /\ UNCHANGED ledger
     \/ /\ Record \in {"none", "approval"}
        /\ ledger' = [ledger EXCEPT ![First.id] = "approval"]
        /\ Reply("approval")
     \/ Record = "declined" /\ Reply("declined") /\ UNCHANGED ledger
     \/ Record = "working"  /\ Reply("unknown") /\ UNCHANGED ledger
     \/ Record = "paid"     /\ Reply("paid") /\ UNCHANGED ledger
     \/ Record = "unpaid"   /\ Reply("refused") /\ UNCHANGED ledger
     \/ Record = "context"  /\ Reply("context") /\ UNCHANGED ledger
  /\ UNCHANGED <<inside, paid>>

\* The seller answers: paid, not paid, or - of a model - that the request is too long,
\* which may have been paid for.
Outcome(id, result) ==
  /\ ledger[id] = "working"
  /\ result = "context" => kind[id[1]] = "model"
  /\ ledger' = [ledger EXCEPT ![id] = result]

Sells(for, result) ==
  \/ result \in {"paid", "context"} /\ paid' = [paid EXCEPT ![for] = @ + 1]
  \/ result \in {"unpaid", "context"} /\ UNCHANGED paid

Sell ==
  /\ socket # <<>> /\ busy
  /\ \E result \in {"paid", "unpaid", "context"} :
       /\ Outcome(First.id, result) /\ Sells(First.for, result)
       /\ Reply(IF result = "unpaid" THEN "refused" ELSE result)
  /\ UNCHANGED inside

\* The supervisor stops waiting; the gateway goes on.
GiveUp ==
  /\ socket # <<>> /\ busy
  /\ Reply("unknown")
  /\ UNCHANGED <<inside, ledger, paid>>

SellLate ==
  /\ \E p \in Purchases, result \in {"paid", "unpaid", "context"} :
       /\ ~(busy /\ First.id = p)
       /\ Outcome(p, result) /\ Sells(p, result)
  /\ UNCHANGED <<inside, call, socket, busy>>

Decide ==
  /\ \E p \in Purchases, answer \in {"granted", "declined"} :
       ledger[p] = "approval" /\ ledger' = [ledger EXCEPT ![p] = answer]
  /\ UNCHANGED <<inside, call, socket, busy, paid>>

Worker(j) ==
  \/ Prepare(j) \/ Freeze(j) \/ StartTool(j) \/ RefuseLocally(j) \/ PostIt(j)
  \/ Timeout(j) \/ Expire(j) \/ AnswerPaid(j) \/ Followed(j) \/ AnswerRefused(j)
  \/ AnswerUnknown(j) \/ AnswerApproval(j) \/ Paused(j) \/ AnswerContext(j) \/ Thaw(j)

Next ==
  \/ \E j \in Jobs : Worker(j) \/ Tick(j) \/ NotSent(j) \/ Lost(j)
  \/ Resume \/ Crash \/ Take \/ Sell \/ GiveUp \/ SellLate \/ Decide

\* The worker's own steps and its clock; nothing is asked of the other side.
Fairness == \A j \in Jobs : WF_vars(Worker(j)) /\ WF_vars(Tick(j))
Spec == Init /\ [][Next]_vars /\ Fairness

-----------------------------------------------------------------------------
(***************************************************************************)
(* Properties.                                                             *)
(***************************************************************************)
TypeOK ==
  /\ kind \in Plans /\ run \in {"running", "waiting", "ended"} /\ job \in Jobs
  /\ wait \in [for : Purchases, cause : {"none", "approval", "reconcile"}]
  /\ call \in [Jobs -> Call] /\ mem \in Request /\ disk \in Request
  /\ saved \in [Jobs -> {"none", "started", "approval"}] /\ told \in [Purchases -> Told]
  /\ socket \in Seq(Post) /\ busy \in BOOLEAN /\ (busy => socket # <<>>)
  /\ ledger \in [Purchases -> Ledger] /\ paid \in [Purchases -> {0, 1}]
  /\ sent \in [Purchases -> SUBSET Bodies]
  /\ losses \in 0..MaxLosses /\ crashes \in 0..MaxCrashes

\* docs/worker.md:21: whatever is lost, approved, resumed or repeated, a purchase is
\* paid once, and a result says "paid" or "not paid" only if that is how it stays.
\* (The deadline of a move says "nothing was charged"; see NothingChargedIsTrue.)
ToldOf == [p \in Purchases |->
  IF told[p] = "nothing charged" THEN "no claim" ELSE told[p]]
Once == INSTANCE PaidOnce WITH money <- paid, told <- ToldOf
PaysOnce == Once!Spec

\* A request identity always carries the same request, also after a pause or a crash:
\* context.ts:8, "an interrupted/paused request must be replayed byte-for-byte".
OneBodyPerIdentity == \A p \in Purchases : Cardinality(sent[p]) <= 1

\* A run that waits can be resumed: for an approval the gateway knows of, or for a
\* payment that may be under way.
WaitHasAnEnd ==
  run = "waiting" =>
    /\ wait.cause # "none" /\ ~Answered(job) /\ job = wait.for[1]
    /\ wait.cause = "approval" => ledger[wait.for] \in {"approval", "granted", "declined"}

\* Whatever the other side does, the worker comes to an end of the job or to a pause.
JobsEnd == \A j \in Jobs : Current(j) ~> ~Current(j)

\* tool-deadlines.ts:58-59: a tool that was cut off by its deadline was not charged for.
NothingChargedIsTrue ==
  \A p \in Purchases : told[p] = "nothing charged" => paid[p] = 0
=============================================================================
