# A verification development for OpenCrowd

OpenCrowd is an agent that works on a user's task with a language model and may
buy from paid services on the way. What has to be right is the money and what is
recorded about it: a limit must bind however many callers spend at once, an
approval must pay for what the user was shown and for nothing else, a crash must
not lose or repeat a payment, and a purchase that has to be reviewed must be
reviewed before the next one.

This directory models those parts in TLA+, checks them with TLC on small
instances and proves the main results with TLAPS for every value of the
constants. `PROJECT.json` lists the runs, the lines that each definition models,
the hazards, the mutants and the theorems.

## The system

| Part | Source | State | Operations | What is hard | What makes it correct |
|---|---|---|---|---|---|
| Session spending | `packages/core/src/budget.ts`, `session.ts`, `paths.ts`, `protocol/src/spending.ts` | the `SessionState` object; `session.json`; a promise chain per session | `beginQuery`, `reserveBudget`, `finalizeReservation`, `releaseReservation`, `approvePendingSpending`, `setSessionBudget`, `setApprovalMode` | parallel callers, a lock held over a prompt and a file write, saves that take no lock, crashes | the limit binds; approvals are one-shot; charges survive; nobody waits for ever |
| Purchase lifecycle | `packages/economy/src/gateway.ts`, `purchases.ts`, `crowdcode.ts`, `crowdcode-preferences.ts` | `purchases.jsonl` (append-only, folded), CrowdCode's preference, follow-up tokens | `callPaidService`, `reviewPaidService`, `manageCrowdCode`, `skipPendingReviews` | three writes after a payment, ambiguous answers, the preference read twice, another session that changes it | one review due at a time; one receipt for a call; what is charged is recorded |
| Agent loop | `packages/agent-runtime/src/index.ts`, `runtime.ts`, `economy-tools.ts` | messages, turn, failure counts, the held answer; `query-checkpoint.json` | `runAgentTaskDetailed`, `SessionRuntime.execute`, `completionGate` | a crash between an effect and its checkpoint, a gate that asks only once, an answer held over housekeeping | a call is sent again only where its result was lost; completion waits for reviews |
| Worker protocol | `agent-runtime/src/worker.ts`, `apps/cli/src/worker.ts`, `protocol/src/*` | commands by id and digest, runs with checkpoint, tools and inbox, `activeRunId`: `worker.json`; one run being executed | start, resume, cancel, message, shutdown; the loop's checkpoints and tool records; finish | repeated commands, a cancel against a run that is finishing, a crash between memory, file and stdout or inside a tool, a tool that never returns | one unfinished run; an ended run stays ended; a shell command or purchase happens once; what stdout said is durable; every executing run ends |
| Model calls and payment lanes | `agent-runtime/src/index.ts` (`BudgetedLlmProvider`), `llm-runtime.ts`, `x402-proxy.ts`, `crowdcode-venice.ts`, `blockrun.ts` | the parked primary, the queue of the Venice wallet, the slots and the cached challenge of the proxy, prepaid credit | retry, rescue by a backup, top-up, sign, send, read the body | callers that share a lane, a payment whose outcome is not known, a cancel in the middle | one payment for a call, charged or reserved, but where the code gives up on one by name; every call ends |
| Models | `providers.ts`, `llm-runtime.ts`, `apps/cli/src/registry.ts`, `core/src/config.ts` | the choice in memory, in the session and in the configuration; catalogs and their cache | resolve, `/provider`, `/model`, `/submodel`, refresh, resume | three copies, catalogs that change | a query asks for what the user was shown |
| Streamed answers, credit | `providers.ts` | the answer so far; the balance last seen | read events; take a difference | a stream that ends anywhere, calls that overlap | what is taken is the seller's answer; no credit is counted twice |
| Subagents | `agent-runtime/src/index.ts` | children, limiter, a checkpoint for each | launch, wait, save, join, pause, resume | a pause or crash in the middle of a fan-out | one instance, tools once, the limiter's bound |
| Hosted economy | `hosted-economy.ts`, `hosted-provider.ts`, `tool-deadlines.ts`, `protocol/src/context.ts`, `deadlines.ts` | requests by identity, the frozen model request, what waits | post, repost, reconcile, approve, move funds | lost sockets, late answers, deadlines, crashes | money moves once; the model is told nothing false |
| Funding | `funding-plan.ts` | balances, plan | `plan_funding`, the move, the hint | sums below a cent, fees, floors | a task funded as planned is bought to its end |
| Context and journal | `context.ts`, `core/src/conversation.ts`, `runtime.ts`, `inbox.ts` | messages, archives, `messages.jsonl`, checkpoint, inbox | compact, append, repair, resume, deliver | several passes, torn appends, a stop between two writes | nothing said is lost; requests are whole |
| Rules, services | `economy/src/approvals.ts`, `gateway.ts`, `crowdcode-preferences.ts` | the file of rules, the kept list of services, two preference files | store, forget, match, look up, refuse | files without a lock, a list that is too old | the last decision about a service counts; bad services are not paid |
| Buying by itself | `gateway.ts`, `monad.ts`, `agentcash.ts`, `mcp.ts`, `follow-ups.ts` | inspections, credentials, the connection | inspect, approve, sign, pay, reconnect | a price that moves, an authorization settled late, a dead client | a price above the agreed amount is asked; what is paid is charged |
| Discovery and offers | `economy/src/discovery.ts`, `offers.ts` | probes under way, the time left | search, sweep, choose | slow endpoints | a partial list says that it is partial |
| Terminal | `apps/cli/src/tui/app.tsx`, `registry.ts` | React state and refs, questions, the inbox | submit, answer, switch, leave | callbacks that see old state | queued messages are taken; leaving says what is owed |
| Shell | `core/src/shell.ts`, `tools.ts` | a process group, three timers | spawn, settle, abort | processes that ignore signals or keep the pipes | the call always ends |
| Evolution of knowledge | `packages/evals/src/evolve.ts`, `suite.ts`, `knowledge.ts` | the archive, the trees on disk | propose, score, select, restart | directories written again | a score is of its tree |
| Ledger, artifacts, config; entry points; graders | `core/src`, `apps/cli/src/index.ts`, `packages/evals` | single files | reads and writes | - | - |

How they meet: the agent loop reserves before each model call and the gateway
before each paid call, both through session spending. The gateway's tools are
called by the loop; a result goes back to it and into the checkpoint. The
terminal interface, `opencrowd resume` and the worker start runs and answer
approvals. Subagents share the session and the provider objects but may not pay services. A
hosted worker pays nothing itself: model calls, paid calls and moves of funds go through the
supervisor's socket, which is outside the repository.

## Modules

| Module | What it is |
|---|---|
| `Budget` | session spending, with its callers and its file |
| `MCBudget` | values for TLC |
| `BudgetProof` | proofs about `Budget`: types and approvals, then the money |
| `ReviewGate` | abstract: what the purchase lifecycle promises about reviews |
| `Purchases` | purchase lifecycle, agent loop, checkpoint |
| `PurchasesProof` | proofs about `Purchases`: types and repetitions, the review gate, the store |
| `Worker` | the worker process: its reader, the run it executes, `worker.json`, stdout |
| `MCWorker` | commands for TLC |
| `WorkerProof` | proofs about `Worker` |
| `ModelCalls` | a model call, its attempts and its payments |
| `ModelCallsProof` | proofs about `ModelCalls` and `Stream` |
| `PaidOnce` | abstract: what a hosted run promises of its purchases |
| `Hosted`, `MCHosted` | a hosted run before the supervisor's socket; values for TLC |
| `HostedProof` | the proof that `Hosted` implements `PaidOnce`, and proofs about its requests and pauses |
| `Terminal` | the interactive terminal |
| `Funding`, `FundedTask` | funding as operators; a task that is funded and bought |
| `Approvals` | the owner's rules |
| `PaidCall` | one service, bought again and again |
| `Discovery` | the search for services |
| `Credit` | prepaid credit |
| `ModelChoice` | which models a session uses |
| `Reputation` | what CrowdCode says of a service |
| `MCRules` | the seven machines above in one run |
| `RulesProof` | proofs about six of them: `FundedTask`, `Approvals`, `PaidCall`, `Credit`, `ModelChoice`, `Reputation` |
| `Compaction` | a long chat |
| `Journal` | messages, checkpoint, journal, receipts |
| `Stream` | an answer in pieces |
| `Shell` | a shell command |
| `Subagents` | a fan-out |
| `Evolve` | the evolution of knowledge trees |
| `MCSession` | the six machines above in one run |
| `SessionProof` | proofs about `Shell`, `Evolve`, `Journal` and `Discovery` |
| `AgentProof` | proofs about `Subagents`, `Compaction` and `Terminal` |

`MCRules` and `MCSession` put machines side by side that share no state: the variable `topic` is
chosen at the start, the machine of that topic moves, and the others stay as they begin. Their
invariants are those of the machines.

### Budget

`mem` is the `SessionState` object and `disk` is `session.json`. `queue` is the
promise chain of `withSessionLock`; its head holds the lock. A caller is the main
loop or a subagent: it is `queued`, then inside the lock (`asking` the user,
`saving`, ready to `commit`), then `paying`, and it comes back to finalize or to
release. Each save is two steps - the change of the object, and the rename of the
file - because other code may run between them and the process may die there.
`snap` is the text being written. A save that takes no lock (`setApprovalMode` from
shift+tab) puts its text into `toggles`; nothing orders its rename.

An operation stands for an identity and an amount, since the id of an approval is
the hash of the query, the identity and the amount. Amounts are whole units where
the code has floating-point cents. The variables `approvals`, `consumed`, `extra` and `acked` are
history: they are never read by an action.

### Purchases

A run is at `think` (the model is asked), `tool` (a request is checkpointed),
`reserve` and `book` (a payment is under way: reserved, then answered and not yet
recorded), `finalize`, `skip` (reviews are being waived), `result` (a tool has
returned, the checkpoint is not written), `settle` (it is). Each of the writes may fail: `ReplyUnsaved`
for the model's reply, `SaveFails` for artifact and record, `ResultUnsaved` for the result of a tool, after which the
run throws and what it leaves in the checkpoint is the request with its result or without. `ckpt` and `unfinished`
are `query-checkpoint.json`; `Resume` starts from it, and a request without a saved
result is executed again. A purchase is a record of `purchases.jsonl` after the fold of
`listPurchases`. A call is named by its query and its turn. `answer` is
what the service said, in the four outcomes of `PurchaseOutcome`.

What the model abstracts: one tool request for each response of the model; prices,
reservations and the session file (they are Budget's); local tools, which neither
pay nor review; what the model writes - its closing message is an answer, a
placeholder or nothing; rules, quotes and permissions, which all end in
`CallRefused`; when the same tool failed before, whether it is the same failure.
`charged` counts the finalized charges in memory, which is at least what is on
disk. `tried`, `cut` and `switched` are history.

The mishaps are chosen by the constant `Mishaps`: the process dies (`crash`), a
file cannot be written (`disk`), CrowdCode's status cannot be read (`outage`),
another session switches the preference that is this one's default (`switch`: in the
hosted variant, sessions share the file of `CrowdCodePreferences`).

### ReviewGate

Three variables: the reviews that are `due`, whether CrowdCode is `on`, and whether a
purchase is `cleared`. A purchase that will be due is made only after a check that
found nothing due or CrowdCode off, each check lets one purchase through, and a
review disappears only by being settled. `Purchases` refines it with
`due <- Due`, `on <- enabled`, `cleared <- pc \in Clearing`.

### Worker

`mem` is `this.state` and `disk` is `worker.json`. The code has one promise chain of writes
(`mutate`); `writing` says whose mutation is being written. A mutation changes `mem` and
starts the write; `WriteDone` is the rename, after which the caller goes on and the event
(`line`) reaches stdout (`shown`). At most one write of the reader and one of the runner
compete, so the chain is not kept as a list: who mutates next is a choice.

`reader` is where `handleLine` stands with its command. All it does before its first
mutation is one action (`ReadCancel`, `ReadMessage`, `ReadRun`, ...); then `Record`, `Accept` and
what the command does, with the runner's steps in between. `runner` is where `execute` stands
in its run: the loop of `runAgentTaskDetailed` (`turn`, `freeze`, `model`, `save`, `act`),
`record` around a tool (`execute`, `tool`, `result`, `approval`), and the end (`catch`, `pause`,
`ending`, `report`). What the loop keeps in memory - turn, response, messages in the conversation, the held answer -
is in `runner` and is lost by a crash; what it saves is `ckpt`. `ran` counts how often a tool of a turn was
executed, and is read by no action.

The supervisor sends a line of `Commands` at any time, as often as `MaxLines` allows, the same
one again included. Lines with a known id and another content, and all others that are refused,
change nothing and are left out. `Mishaps` are a crash, in which a write
that was under way happened or did not, and a failed write: it breaks the chain for good (`broken`), so
`execute` gives up silently and the process ends at the reader's next mutation. After a
shutdown the supervisor closes stdin (`InputEnds`) and a new process starts.

What the model abstracts: one tool for each turn; `complete_session` and a closing text are one `answer`;
events that report progress (their write changes nothing but the sequence number);
the `messages.jsonl` mirror; the session id and checkpoint id of a resume; the output limit, subagents and
compaction; which failures repeat (`Stop`). A tool is `run_shell`, `call_paid_service`
or `read_file`, which stands for the tools that may run again.

### ModelCalls

`call[c]` is where `complete()` stands for a caller: `attempt`, `queued` for a lane, `request`,
`authorize`, `sign`, `sent`, `body`, then `failed`, `topup`, `deposit`, `book` or `catch`. Its rung
says how often it has been tried: first, once more, after a top-up, by the backup. `lane` is the
queue of the Venice wallet, `slots` the semaphore of the proxy, and leaving one hands it to the next. `settled`
counts payments made for the call and not yet charged, `owed` whether a reservation is held.
`cut` counts the Venice answers that broke off in their body, and `dropped` says that the run was cancelled on an uncertain
payment: these are the two ways in which the code loses a payment (see Observed), both are steps of the model, and the
properties allow exactly one payment for each of them.
Amounts are one unit, and whether a reservation is allowed is a choice: that is Budget's.

### Hosted and PaidOnce

The jobs of a run are model calls, paid calls and moves of funds. The adapter (`call`), the request
in memory and in the checkpoint (`mem`, `disk`), the supervisor's queue (`socket`), the gateway's
record by request identity (`ledger`) and the money (`paid`) are separate, so that each can be ahead
of the others when an answer is lost, a timer fires, the owner is asked or the worker dies. `Tick` is
the clock of a tool call and of its deadline. The supervisor and the gateway are external: they take one request at a
time and answer by identity, as the comments of the adapters say. `PaidOnce` is the promise: money for a
purchase moves once, "paid" is said only after it moved and "not paid" only if it never does. `Hosted` refines it
with `money <- paid` and `told <- ToldOf`, which leaves the deadline's "nothing was charged" out (see Observed).

### Terminal

State in a ref changes at once; `busy`, a React state, follows at the next rendering (`Render`), and
effects run then. `Look` is the follow-up effect reading the inbox, `Pushed` the end of a write of the
inbox, `Checked` of a check for reviews, `Opened` of `/new`. A check remembers the session it was begun for
(`checking`), and the screen may show another one when it ends; it may also find that the purchases cannot be read
(`unread`), which the code takes for "nothing due". `told` is what the user heard while the session on the screen was there: of
the review it owes (`this`), of one before it (`earlier`) or of another session's (`other`). A task is cut down to what the terminal sees of it:
admitted or refused, taking messages, asking, buying, reviewing, ending well or not.

### The machines of MCRules

* `Funding` translates `planTaskFunding`, the hint and the rounding of a move as operators over
  wallets and offers. `simulate` is a function of the purchase that was made last: `Simulation(task, start)[k]` is what is left,
  what each network is counted to have paid, the line of the plan that may still grow and who is unpaid, after the first `k`.
  `FundedTask` makes the purchases of one or two calls, with a plan or none, a bridge that
  keeps any fee up to the allowance, and payment at the cheapest offer that is covered.
* `Approvals`: `file` is `approvals.json`; `desks` read it, change it and write it back in two steps. Rules are a set; `since` says
  how early one stands in the file, and `First` is the rule that `find` gets to. An endpoint has its own rule, its origin's and those of any
  number of other services that it begins with (`Beginnings`); `Ranks` is the order of the three `find` calls, and within the last one the
  place in the file decides, not the length. `latest` and `clash` are history.
* `PaidCall`: the gateway's steps from inspection to booking against a seller who may change price and network
  between any two, the Monad authorization that stays valid after its answer, and the connection to AgentCash as
  two fields, `client` and `connecting`. An inspection notes a free offer as 0 (`Ceilings`); a later quote of it is at least
  a cent (`Ceiling`). A 402 behind which the chain cannot be read is believed (`Believe`), whatever became of the authorization.
* `Discovery`: one search over a catalog; probes in batches, each with the time it takes, under its own abort and the sweep's budget.
  What an abort does to a probe - nothing, an answer "not found", an exception, after which GET is not tried - is part of the candidate. The same
  sweep serves a provider's own list (`Document`, state `listed`), which drops the flag. `found` is the set of
  positions in the ranked list of what a probe found payable.
* `Credit`: `balanceBefore`, `exclusiveWindow` and the answer's balance of each call, against the seller's own account. `charged` is
  history: what was counted as the cost of a call so far.
* `ModelChoice`: the choice in memory, in `session.json` and in `config.json`, catalogs and what is kept of them.
* `Reputation`: CrowdCode's ratings, the kept list with the identifiers, the two preference files, and calls on their way to a payment.

### The machines of MCSession

* `Compaction`: messages by role, size and number in the order in which they were said, which no list changes; so a chat is the set of numbers
  it holds and of those whose text is in a file. The passes of `compactContext` in their order, the reference with its lines, snapshots and files.
* `Journal`: files are sequences of records with the way each ends; a stop may come between any two writes and inside one.
* `Stream`: what the seller means to send in one of the styles the code provides for, and `readSseCompletion` reading it up to any cut.
* `Shell`: processes of the group, deaf or mute or not, the armed timers, the events of the child, the one settlement.
* `Subagents`: the main loop's turn, the limiter of each run, the children with their checkpoints.
* `Evolve`: archive in memory and on disk, directories as sets of proposals, scores from every outcome of the tasks.

## What is checked

| Run | Property | Shows |
|---|---|---|
| `budget` | `SpendingCeiling`, `OneShotApproval`, `ReservedCoversHeld`, `FinalizedIsDurable` | two parallel callers, two queries, prompts and a crash |
| `budget_waits` | `OnlyTheUserBlocks` | with a failed write and an unlocked save too, only an unanswered prompt blocks |
| `purchases` | `OneReviewDue`, `OneReceiptPerCall`, `RepeatedOnlyAfterLoss`, `ChargedIsRecorded`, `ImplementsReviewGate` | two queries with one mishap of any kind |
| `worker` | `ShownIsDurable`, `ToolsRunOnce`, `PauseLeadsBack` | one run of two turns, four lines out of start, cancel, message, shutdown and two resumes, one crash or failed write |
| `worker_runs` | `OneUnfinishedRun`, `EndedStaysEnded`, `RunnerEnds` | two runs, three lines, a pause, one crash or failed write |
| `calls` | `PaidIsAccounted`, `PaidOnceButForCuts`, `CallsEnd` | two callers on each of four primaries, one slot, a cancel, cut-off answers |
| `hosted` | `PaysOnce`, `JobsEnd` | two jobs, a lost answer, a crash, late answers and deadlines |
| `terminal` | `QueuedIsTaken`, `QuitSaysSo` | one queued message, two askers, two sessions |
| `rules` | `LatestDecisionStands`, `PlanPays`, `PriceOverLimitIsAsked`, `PaidIsCovered`, `NoSilentGap`, `DifferencesCountOnce`, `BadIsRefused`, `ResumesAsTold` | one property for each of the machines of `MCRules` (two for `PaidCall`) |
| `session` | `NothingIsForgotten`, `RunIsWhole`, `ReadableUnlessEndLost`, `ReceiptsAreListed`, `TakenIsWhole`, `NeverHangs`, `ScoreIsOfItsTree`, `OneInstance`, `LimiterBound` | the machines of `MCSession` |
| `budget_double_release` | `LimitBindsHeld` (violated) | finding 1 |
| `mcp_reconnect` | `NextCallReconnects` (violated) | finding 2 |

Bounds. `budget` has two callers (a third only waits behind them), an operation
below the per-call threshold and one above it, a limit that one call fits and two do
not, charges of nothing and of more than was reserved, three calls, one crash: enough for two
reservations to overlap, for a limit to be passed only by the sum, and for a crash to hit
every stage. Callers are symmetric, and no property of that run is a liveness
property. `budget_waits` needs no second operation and no second query: what it asks
is whether a stage that fails or ends leaves the chain.
`purchases` has three turns, two queries and four tool requests: a purchase, its repetition or
review, another purchase and a completion fit, in one query or over two. One
mishap is enough for each single failure at every stage; the theorems below hold for
any number. Two review attempts show a rejection that leaves a review due and one that gives it up.
`worker` has two turns, so that a result of an earlier turn could be mistaken for a later one's and a run can
pause in each; four lines fit a start, a pause and resume, and a repetition or a cancel. Messages, shell commands and
purchases are all there. `worker_runs` needs a second run and not a second turn: its properties are about
who holds the agent and how a run ends. One mishap hits every write once.
`calls`: one slot and two callers make one wait for the other in every lane; `Threshold` is 1, so that a primary is
parked by the first rescue; two calls fit a call on a primary that was parked by the one before.
`hosted`: each pair of jobs that depend on one another - a model call and the tool it asks for, a move and the
paid call it is for - with one lost answer, one crash and one repeated model request; time is counted in
units of 360 s for paid calls and of 50 s for moves.
`terminal`: the races are between one message and the end of one task; a second session is there for `/new`.
`rules`: prices of a third of a cent to two cents around the fee allowance, two calls for a plan, repeated up to five times, three stored decisions,
two calls of a service that changes once with one restart, four candidates of which two are probed at once, three lanes
for credit, three acts on two providers, one service with two ratings. `session`: nine messages, so that a chat is
compacted again after it was compacted; two queries with two stops; two calls in an answer, each in two halves;
two subagents behind a limiter of one, and a paid call after or beside them, two runs, one crash; two generations with one restart.
Deadlock is not checked: bounded sessions end, and an idle worker, terminal or gateway waits.

Fairness. `Budget` assumes weak fairness of `Progress(c)`, what the holder of the lock
does by itself: JavaScript runs the continuation of a settled promise, and a file write
that was started ends. Nothing is assumed of the user, of a service or of a caller outside
the lock. `Worker` (`FairSpec`) assumes that a write ends, and that the
reader and the runner go on when they can. Nothing is assumed of a tool (`ToolAnswers`): `withDeadline` answers in
its place, and that timer is in `RunnerStep`, as is the bridge's total deadline, by which a model call answers, fails or pauses.
`ModelCalls` assumes that each caller goes on: a request has a timeout, and a prompt is answered. `Hosted` assumes the worker's own
steps and its clock, and nothing of the supervisor. `Terminal` assumes that promises settle and effects run, that the user
answers a question or a panel (nothing is assumed of the reading of a balance or of reviews), and strong fairness where a rendering may cancel a read of the inbox (it is quicker than a hand) and where a task may
take one more message before it ends (its turns are limited). The other specifications have no liveness property and assume no fairness.

Each property of a passing run is broken by a mutant, a plausible slip in a mapped
definition (`PROJECT.json`, "mutants").

The modules also state properties that no run of the list checks, all of which held on the same instances. Most of them are
proved: `ModelCalls!LanesAreExclusive` and `ParkedIsLeft`, `Hosted!OneBodyPerIdentity` and `WaitHasAnEnd`, `Terminal!OneRun`,
`ModelChoice!AsksWhatIsListed`, `Reputation!NoThirdStatus`, `Compaction!ExchangesAreWhole`,
`Shell!OnlyTheDeafStay` and `Subagents!ToolsRunOnce`. The type invariants (`TypeOK`, `FanTypeOK`) are proved of `Budget`,
`Purchases` and `Worker`; `FundedTask!PlanIsComplete` and `Evolve!BestIsOnTheFrontier` are not proved.
Add the name to the configuration to check one.

## What is proved

All theorems hold for any number of callers, operations, queries, runs, turns, attempts, services, messages, subagents and mishaps,
under the assumptions that the modules name: amounts, limits and bounds are natural numbers, a limit or a timeout of the code is at
least one, and inputs have the form that their parser admits. A few say more. `TasksAssumption`: a repetition follows a purchase of the same call, what is
free costs nothing, and two networks together hold no more than `Number.MAX_SAFE_INTEGER`. `SubagentsAssumption`: a turn
names finitely many spawns, no reply names one twice, and no two turns name the same (the key of a spawn is a hash of
run, turn and call, `index.ts:1149`). `HostedAssumption` and `CreditAssumption`: jobs and calls in flight are finitely many.
`EvolveAssumption`: a task that ends in an error has no score. `ModelChoiceAssumption`: a catalog is a finite list, whose entries have places in it. `TerminalNames`: no asker is called like a panel.
TLC evaluates them all on its instances.

| Theorem | Argument |
|---|---|
| `BudgetProof!TypeCorrect` | needs two facts: who is inside the critical section heads the chain (`LockInv`), and while the user is asked the pending operation is that caller's (`AskInv`) |
| `BudgetProof!ApprovalsAreOneShot` | `OneShotInv`: a copy of the session that still shows an approval - memory, file or text being written - has one that is not used up |
| `BudgetProof!ChargesAreDurable` | `DurableInv`: the three copies are never behind the acknowledged charges. For `Spec`: with unlocked saves it is false (see Observed) |
| `BudgetProof!CeilingHolds` | no fault in `Bound`; unlocked saves included. `CeilingInv` over every copy, with `CoverInv`: the reserved total is at least what is claimed, so a release never takes what is not its own |
| `BudgetProof!ReservedIsCovered` | no fault in `Bound`; `CoverInv` for memory and `SyncInv` for the file |
| `PurchasesProof!TypeCorrect` | `Typed`: a tool is requested in a turn below the limit, and a review names a purchase that exists |
| `PurchasesProof!OnlyLossesRepeat` | `SentOnce`: nothing was sent since the last loss where a call may still be sent, and a checkpoint that may be replayed there has no result |
| `PurchasesProof!PurchasesImplementReviewGate` | `GateInv`, and `Steps`: every step is a check, a purchase, a switch, or is ordinary |
| `PurchasesProof!OneReviewAtATime` | `ClearedAlone`: a call past the check finds nothing due until it is booked, unless someone else switches |
| `PurchasesProof!ChargesAreRecorded` | `ChargesCovered`: a charge about to be finalized has its record already |
| `PurchasesProof!OneReceiptForEachCall` | `CallInv`: a receipt that the checkpointed call has left is still due, so the gate refuses the repetition |
| `WorkerProof!TypeCorrect`, `ShownStaysDurable`, `AtMostOneUnfinished`, `ToolsExecuteOnce`, `PausesLeadBack`, `EndedRunsStayEnded` | one invariant, `Inv`, in three parts. `JournalInv`: memory is ahead of the file by at most the mutation that is being written, and in ways that never undo a record (`Follows`); what was shown is in the file, what is about to be shown in memory. `ReaderInv`: what `handleLine` checked of the runs still holds when its mutation comes, however the runner moved in between. `RunnerInv`: how the turn and the tool of the loop in memory stand to the checkpoint, stage by stage. An ended run stays ended because of `Follows` alone; that a tool runs once needs all three |
| `HostedProof!PurchasesArePaidOnce` | refinement: each step is a step of `PaidOnce` or leaves `paid` and `ToldOf` as they are. `LedgerInv` says what may still be paid; `SocketInv` that the request somebody waits for is the last of its job in a queue that is served in order, so once an answer says "refused" nothing is on its way (`Safe`); `CallsInv` carries this through the stages of a call, its deadlines and its resumes |
| `HostedProof!RequestsAreReplayed` | `BodyInv`: the request in memory differs from the frozen one only while it is prepared or compacted, and what was asked under an identity is the frozen request or belongs to an earlier attempt |
| `HostedProof!PausesCanEnd` | `PauseInv`. `OwnerInv`: while a call holds the answer that the owner is asked, so says the gateway's record. `WaitInv`: the job of a waiting run is not under way and no request of it is on its way, so nothing but the owner moves that record |
| `ModelCallsProof!PaymentsAreAccounted`, `OnlyCutOffsPayAgain` | one invariant, `CallsInv`, of each call by itself (`Kept`): an attempt begins with nothing settled but what was cut off before (`Even`), what it settles beyond that has a reservation, and an attempt that leaves something settled ends the ladder, in a completion to be booked, in an error called uncertain or in the cancel that takes its place. Nothing is needed about the lanes |
| `ModelCallsProof!LanesServeInTurn`, `ParkedIsLeftAlone` | the lanes follow from where the calls are: a call that uses Venice is in its lane, once, and only the first there is past the queue (`LaneInv`); the count of slots is the number of proxy calls that do not wait (`SlotsInv`). `ParkedInv`: a call under way began before the primary was parked, or in ask mode, or is not on the primary |
| `ModelCallsProof!AnswersAreWhole` | `StreamInv`: each entry is nothing, the first half or the whole of its call, as the halves that were sent say; and an answer is accepted only after a sign of its end, which the seller gives when all was sent or when it cut the answer itself |
| `RulesProof!BadServicesAreRefused` | `Sound`: a call that still has to look finds the service listed and rated bad; one that is past looking could not read the list |
| `RulesProof!QueriesResumeAsTold` | `ChoiceInv`: what the user was shown is what is in memory and in the file. From `~MayBeOld`: see Observed |
| `RulesProof!QueriesAskWhatIsListed` | `OfferInv`: what is kept of a list was offered, and so was each model that was resolved from it; `AutoIsListed`: "auto" takes the dearest or the cheapest of a finite list, which exists (`HasGreatest`, by the size of the set) |
| `RulesProof!SettingIsOldOrNew` | `PreferenceInv`: half way to a new default the session's file still decides, or the default does, which is the new one |
| `RulesProof!PaymentsAreCovered`, `PricesOverLimitAreAsked` | `SaleInv`: from the check of the quote to the booking, the amount signed is within what was quoted, and the quote within the amount the call was made with or put to the owner; and each booked deal is closed so, told as refused, or settled late. The arithmetic is that of the rounding (`RoundedCovers`): a price within half a cent of a quote is not raised |
| `RulesProof!DifferencesAreCountedOnce` | `CreditInv`: a call that is still alone in its window could count its difference on top of all that was counted without exceeding what was taken, because every balance it may compare with was told no earlier than the last count; `inFlight` is the number of calls in flight, so a call that finds zero is alone |
| `RulesProof!LatestDecisionsStand` | `ApprovalsInv`, as long as there was no clash: the file that is not torn says of each service what the owner said last, and so does what a desk is about to write, but for its own decision. So each rank of rules in the file is the rank of standing decisions, and the first of a rank in the file is the first decided |
| `RulesProof!PlannedTasksArePaid`, `NothingIsOverdrawn` | `FundingInv`: what is left is what the plan's simulation has left at this purchase, and that simulation pays to the end. So it is before a first purchase that needs no move. After a move it is so because of `FollowsThePlan`: a wallet that has of each network as much as another one, or at least what the other's simulation counts there, chooses the same offer at each purchase - the cheaper ones it could not pay the other would have taken. The plan simulates with all the money there could be on one network and moves what that run counts, plus the allowance |
| `SessionProof!CommandsNeverHang` | `NeverHangs` is inductive once the record of the call is typed: each step that stops a timer settles the call or arms another one |
| `SessionProof!CommandsLeaveOnlyTheDeaf` | `DeafInv`: no timer is armed of a call that is settled, so the group only shrinks from there |
| `SessionProof!ScoresAreOfTheirTrees` | `EvolveInv`: entries of this evolution with a tree stand before the slot at which it is, in the order of the slots, so what is written next is another directory |
| `SessionProof!RequestsAreWhole`, `JournalsAreReadable`, `ReceiptsStayListed` | `QueryInv`: the messages of the query are whole answers, and one at the end whose results are still coming - the prefix of a reply (`CallsAreWhole` over positions, with `LeastOf` in place of an induction over the list); `LogInv`: only the last line can be cut, and none where the next query starts; `ReceiptsInv` |
| `SessionProof!ListsAreWhole` | `PassedAreFound`: while there is time left, whoever stands before the next batch and would answer was found; a probe that was aborted or threw is one of a candidate that would not answer in time, or the time is over |
| `AgentProof!SubagentsAreOne` | `LiveInv`: what is alive was named by a turn that was reached, and what this turn can still spawn is alive only in this run or was left behind |
| `AgentProof!SubagentsExecuteOnce` | `ToolInv`, on top of `LiveInv`: a subagent that acts is in the turn its checkpoint leads to (`Cursor`), and from there on a tool ran no more often than there were crashes, but for the one that has just run. That a subagent is one instance is what keeps a second cursor from running the tool meanwhile |
| `AgentProof!LimiterHolds` | `WaitInv`: who waits is in the queue once, and those that work are at most the count of the limiter, which is at most its bound |
| `AgentProof!NothingSaidIsLost` | `ChatInv`: lists hold only what was said, and texts replaced by a pointer are in a file. A compaction only takes from a chat (`CompactsSome`, pass by pass), and the snapshot it points at is the whole chat it started from; so a reader that gets there is where the reader of the old chat was |
| `AgentProof!ExchangesStayWhole` | `WholeInv`: the results of an answer's calls stand right after it, and a list holds an answer with all of them or none. In such a list the exchange that a compaction removes is exactly an answer and its results, whatever else was removed around it (`ExchangeIs`) |
| `AgentProof!OneRunAtATime`, `QuittersAreTold` | `TermInv`: `running` says whether a task is under way; a review is owed only in a session that was opened, and in none after one whose reviews are being read, since nothing is bought meanwhile; `forceQuit` is set only once the user was told of something while this session was on the screen (`LeaveInv`), since `/new` takes both back |

Only model-checked: `OnlyTheUserBlocks`, `RunnerEnds`, `CallsEnd`, `JobsEnd` and `QueuedIsTaken`, since the prover does not treat liveness under
fairness or `ENABLED`.
No module declares a recursive operator. The one recursive function, `Funding!Simulation`, exists for every task by `SimulationIs`, and what holds
of it is shown purchase by purchase with `StepByStep`, which says of a set of naturals what induction says of a predicate; the fold of `listPurchases` is represented by the state it leads to in `Purchases`, and by the lines of the file in `Journal`.
The modules were written to be reasoned about: where order does not matter or is given, lists are sets of positions (`Compaction`, `Discovery`, `Stream`), and
histories that a property needs (`Credit!charged`) are variables rather than sums.

## Findings

1. **A reservation released twice** (`agent-runtime/src/index.ts:469-495`). `complete()`
   finalizes, then appends a ledger entry; when the append throws, its `catch` releases the same
   reservation. The clamp at zero hides it unless someone else holds money, and then
   the next call passes the limit without a prompt.
2. **A dead connection that is never replaced** (`economy/src/mcp.ts:58-60`, `74-96`). After a failure of the transport
   `client` is dropped "so the NEXT call reconnects", but `connect()` returns `connecting`, which was fulfilled with the
   dead client. Every later payment through AgentCash fails in the same way, is recorded unknown, and is charged at the
   quoted ceiling (`gateway.ts:409-421`).

## Observed

Each of these was met as a violated property (named where the modules still state it) or while reading. No run of the
list repeats them.

Money and what is said of it:

* *A save outside the lock* (`apps/cli/src/tui/app.tsx:410`, `core/src/session.ts:90-94`; `FinalizedIsDurable` under `ToggleSpec`).
  shift+tab during a run writes the session as it was over a finalized charge; memory still has it, a crash loses it.
* *A call repeated after a failed write* (`index.ts:1259-1263`, `runtime.ts:158-165`; `FailedRepeatsNothing`). When the checkpoint that should hold a paid
  call's result cannot be written, the query fails and its old checkpoint stays; `resume` executes the call again, with no crash
  in between. If the purchase left a review that is due, the gate refuses it; an unknown or unverified payment, and any with CrowdCode off, is made again.
* *An unknown call sent again* (`runtime.ts:147`, `gateway.ts:465`, `index.ts:1263`; `UnknownNeverRetried`). After a
  crash between the record and the checkpoint, resume executes the request again; docs/architecture.md:322 says that such calls are
  "never auto-retried".
* *A payment without a record* (`gateway.ts:453`, `195`; `ConfirmedIsRecorded`). The record asks for
  CrowdCode's status once more; if that throws, there is no record, no ledger entry and the reservation stays.
* *Completion with a due review* (`index.ts:1061, 1118, 1303`; `CompletionWaitsForReview`). The gate blocks once; the
  nudge may be spent on a reflection, or the extra turn may fail, and then the held answer is delivered.
* *An uncertain payment that is forgotten* (`index.ts:427`, `crowdcode-venice.ts:145`; `UncertainIsAccounted`, `NeverPaidTwice`). A cancel replaces the
  error that would keep the amount reserved; a Venice answer cut off in its body counts as a transient failure, and
  the call is made and paid again. docs/architecture.md:125 says that "uncertain submitted payments remain accounted for".
* *A refusal that was none* (`monad.ts:152-155`; `RefusedIsUnpaid`). A 402 to a signed request, with the chain not readable, is reported as not charged: the comment says that "the
  facilitator explicitly refused to settle". The authorization may be settled by then, and nothing is charged to the session.
* *A higher price that nobody is asked about* (`gateway.ts:271-273, 357-358`; `RiseIsAsked`). The comment says of a free offer that is priced later that "the gateway sees a quote above the
  ceiling and asks the owner". The quote is compared with `max_cost_cents` where the call gives it, so up to that amount a raised price is paid unasked.
  Without it, a free offer that stays free is quoted at one cent against a ceiling of 0 (`gateway.ts:861`) and asked for.
* *The longest rule* (`approvals.ts:93, 97`; `LongestMatchDecides`). The comment says "longest-match"; of several rules whose service the endpoint starts with,
  `find` takes the first in the file, which is the one that was set earliest.
* *"Nothing was charged for it"* (`tool-deadlines.ts:58-60`; `NothingChargedIsTrue`). The deadline of `bridge_usdc` is 300 s, but
  a bridge may take 352 s (`hosted-economy.ts:482-505`, `57-66`), against the comment at lines 14-15. The model is then
  told so of a move that is made, and a repetition has a new identity.
* *A rejection that does not block* (`hosted-economy.ts:141, 559-572`; `OutageBlocks`). When the list of services cannot be read, a service counts as not yet
  reviewed and is paid; gateway.ts:365 says "an outage or rejection blocks payment".
* *A difference that is not one call's* (`providers.ts:186-221`; `DifferenceIsItsOwn`). Whether a call had the client to itself is looked at
  when it starts and ends; one that began and ended inside it is in the difference and is charged by itself too.
* A follow-up read that fails falls through to a second payment (`gateway.ts:345-349`, and the hosted adapter); Monad's "not charged"
  is said while the authorization is still valid; `inspections.json` and the follow-up credentials are written in place.
* *A planned task that is not paid* (`funding-plan.ts:121, 185-186`; `PlannedIsBought`). The total of a repeated call is rounded to cents at each repetition, so
  eleven calls at 1.4 cents count as 12 cents instead of 15.4, and "the single move that fixes all of them" (funding-plan.ts:15) is sized by that. The plan
  tries the calls against exactly what has to arrive; there a later call goes to a dearer network, which hides the gap. When the bridge keeps less than the
  allowance, that call takes the cheaper network and the last one is not covered. `PlanPays` states the promise for tasks whose repeated prices are whole cents.
* *A plan that gives up too early* (`funding-plan.ts`; `ShortIsShort`): funds "cannot pay for the whole task with one move" is said where another move than the ones tried would do.

Runs, messages and records:

* *A cancel without effect* (`worker.ts:161`; `CancelEndsTheWait`). While `execute` finishes a run as waiting, its
  controller is still registered; the cancel only aborts a signal nobody reads any more, is acknowledged,
  and `activeRunId` refuses every other run until a second cancel.
* *A message whose follow-up never starts* (`tui/app.tsx:317`, `runtime.ts:143`; `FollowUpStarts`). After a failed task the
  checkpoint stays, the inbox is paused and later prompts are refused, against the comment at app.tsx:326-327.
* *A request with a dangling tool call* (`index.ts:1268-1285`, `runtime.ts:160-163`; `RequestIsWhole`). A query stopped in the middle of a batch
  leaves in `messages.jsonl` an assistant message whose calls have no results; the next query takes it as history and nothing
  repairs it. The comment at index.ts:1022-1023 asks for the opposite.
* *A provider's list without its note* (`discovery.ts:137, 235-238`; `OriginListIsWhole`). `discoverEndpoints` takes `services` of the sweep and drops `incomplete`, where
  the comment says that "the caller says so in the note".
* *Leaving over a review nobody spoke of* (`app.tsx:210, 367-370`; `QuitTellsOfThisReview`). `/quit` exits at once when the purchases cannot be read; a check begun
  before `/new` that ends after it sets `forceQuitRef` again, so that the new session is left on the old one's warning, or exits by itself; and a warning lets every later review of the session go.
* *Background work* (`index.ts:1236`; `FanOutIsJoined`). Docs/architecture.md:119-121 says that query runs join each fan-out; a
  cancel, or a paid call that pauses, before a subagent is awaited leaves it running.
* A record cut exactly before its line end parses and is not repaired; the next append is glued to it, and the chat cannot be read any more
  (`conversation.ts:56-69`). `listPurchases` skips such a line (`purchases.ts:114-131`).
* A task is journaled twice when a query without a checkpoint is resumed (`index.ts:924`); namespaces of subagents are used
  again after a resume (`index.ts:1147`).
* *Summaries out of order* (`context.ts:374`; `SummaryInOrder`, in chats of ten messages, longer than those of the run): the newest answer is spared
  while younger messages go, so its line comes after theirs when a later compaction removes it.
* *Scores of trees that are gone* (`evolve.ts:188-236`; `ScoresStand`): an evolution that starts again writes over directories that
  archived entries name; `archive.json` is written in place.
* A success of a call that was under way takes a primary out of its parking (`index.ts:464`), against the comment at 368-371.
* A session recorded under the old provider name `x402` is resolved anew on resume (`llm-runtime.ts:127-129`; `ResumesAsTold` with `MayBeOld`);
  a catalog that cannot be parsed is kept as an empty one until `/models refresh` (`providers.ts:163`).
* A message accepted after the loop's last look at the inbox (`worker.ts:167`, `index.ts:1109`) is acknowledged and never
  delivered; a purchase interrupted by a crash ends its run `failed` (`worker.ts:279`), where an interrupted model
  call pauses it; `worker.shutdown` ends the active run as `cancelled` rather than leaving it to be resumed.

## Not modelled, and why

HTTP, signing, parsing of catalogs, quotes and events, and what a model or a service writes are outward; their answers are
choices of the environment, shaped by what the code accepts. Rendering and wording are left out, and so are graders, harnesses and the
evaluation runner, which start processes and grade texts one after the other. Artifacts, media, the ledger and the configuration are single
files without a protocol of their own; where a failed write of one matters, it is an action of the module that makes it. Of the worker, sequence
numbers, progress events, the mirror of messages and the repair of an oversized file are left out. Time is counted in coarse units where
deadlines are compared, and left out elsewhere: an armed timer fires at some time.

## Plan

1. What modules state and no theorem proves yet: `FundedTask!PlanIsComplete`; `Evolve!BestIsOnTheFrontier`, which needs that a fold over the tasks is a
   number; and the type invariants of the other machines.
2. In the models: several tools in one turn of `Worker`; the ids of a resume; a queue of more than one message in `Terminal`.
