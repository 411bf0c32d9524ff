------------------------------- MODULE Budget -------------------------------
(***************************************************************************)
(* The spending ledger of one OpenCrowd session (packages/core/src/        *)
(* budget.ts, session.ts; packages/protocol/src/spending.ts).              *)
(*                                                                         *)
(* The agent loop and its subagents (Callers) reserve an amount before     *)
(* every paid call, then finalize it with the real charge or release it.   *)
(* The three operations run under one promise-chain lock per session; the  *)
(* lock stays held while session.json is written and while the user is     *)
(* asked about a call above a threshold.  A crash loses the memory and     *)
(* leaves what session.json held.                                          *)
(*                                                                         *)
(* An operation `op` stands for one (identity, amount) pair: the id of an  *)
(* approval is the hash of the query, the identity and the amount, so a    *)
(* changed quote is another operation.  Amounts are whole units.           *)
(***************************************************************************)
EXTENDS Naturals, Sequences, FiniteSets

CONSTANTS
  Callers,      \* the main loop and the parallel subagents
  Ops,          \* paid calls: identity and amount
  NoOp,         \* stands for "no operation"
  Amount,       \* the amount of each operation
  PerCall,      \* perCallCents: above it a call is asked about
  Limit,        \* budgetCents of the new session
  Budgets,      \* values the user may set a budget to
  Charges,      \* what a call may really cost, more than reserved included
  MaxQueries,   \* bound: queries of the session
  Bound         \* bounds on calls, crashes, disk faults and mode toggles

ASSUME OpsAssumption == NoOp \notin Ops /\ Amount \in [Ops -> Nat]
ASSUME LimitsAssumption ==
  /\ PerCall \in Nat /\ Limit \in Nat /\ MaxQueries \in Nat
  /\ Budgets \subseteq Nat /\ Charges \subseteq Nat
  /\ Bound \in [calls : Nat, crashes : Nat, faults : Nat, toggles : Nat]

VARIABLES
  mem,          \* the SessionState object in memory
  disk,         \* session.json
  interactive,  \* a spending handler is installed in this process
  queue,        \* the promise chain of withSessionLock; its head holds the lock
  pc,           \* where each caller stands
  job,          \* the operation, charge and reservation of each caller
  snap,         \* the text the lock holder's saveSession writes, or wrote last
  toggles,      \* the texts that unlocked saves (setApprovalMode) are writing
  left,         \* what remains of the bounds
  approvals,    \* history: user approvals per query and operation
  consumed,     \* history: reservations handed out on an approval
  extra,        \* history: per query, spending the user or a seller added
  acked         \* history: charges whose finalizeReservation returned

procs   == <<queue, pc, job>>
history == <<approvals, consumed, extra, acked>>
vars    == <<mem, disk, interactive, procs, snap, toggles, left, history>>

Queries    == 0..MaxQueries                 \* 0: no query begun yet
Pending    == [op : Ops \cup {NoOp}, projected : Nat]
NoPending  == [op |-> NoOp, projected |-> 0]
Session    == [query : Queries, limit : Nat, start : Nat, spent : Nat,
               reserved : Nat, budget : Nat, pending : Pending,
               approved : SUBSET Ops]
Saving     == {"saveAsk", "saveApprove", "saveDecline", "saveCommit",
               "saveFinalize", "saveRelease"}
InLock     == Saving \cup {"asking", "commit"}
PCs        == InLock \cup {"idle", "queued", "paying", "booked"}
Job        == [kind : {"none", "reserve", "finalize", "release"},
               op : Ops \cup {NoOp}, charge : Nat, force : BOOLEAN,
               byApproval : BOOLEAN, held : BOOLEAN]
NoJob      == [kind |-> "none", op |-> NoOp, charge |-> 0, force |-> FALSE,
               byApproval |-> FALSE, held |-> FALSE]
Bounds     == [calls : Nat, crashes : Nat, faults : Nat, toggles : Nat]

(***************************************************************************)
(* What the code computes from a session.                                  *)
(***************************************************************************)
LimitOf(s)   == IF s.query = 0 THEN s.budget ELSE s.limit
Committed(s) == (s.spent - s.start) + s.reserved
Less(a, b)   == IF a > b THEN a - b ELSE 0       \* Math.max(0, a - b)

CountsSpentOnly(s, op) == (s.spent - s.start) + Amount[op] > LimitOf(s)
OverQuery(s, op) == Committed(s) + Amount[op] > LimitOf(s)
NeedsApproval(s, op, force) ==
  Amount[op] > PerCall \/ OverQuery(s, op) \/ force

\* Another call waits for the user, and this one was not approved by name.
OtherPending(s, op) == s.pending.op \notin {NoOp, op} /\ op \notin s.approved

\* Whether reserveBudget lets the operation through without asking.
Allowed(s, op, force) ==
  IF s.query = 0
  THEN ~OverQuery(s, op)
  ELSE ~OtherPending(s, op) /\ (op \in s.approved \/ ~NeedsApproval(s, op, force))

KeepsApproval(s, op) == [s EXCEPT !.reserved = @ + Amount[op]]
WithReservation(s, op) ==
  [s EXCEPT !.reserved = @ + Amount[op], !.approved = @ \ {op}]

ReleasesCharge(s, op, charge) ==
  [s EXCEPT !.reserved = Less(@, charge), !.spent = @ + charge]
WithCharge(s, op, charge) ==
  [s EXCEPT !.reserved = Less(@, Amount[op]), !.spent = @ + charge]
WithRelease(s, op) == [s EXCEPT !.reserved = Less(@, Amount[op])]

\* approvePendingSpending: `budget` is the raised limit, or 0 to keep it.
RaiseOK(s, budget) ==
  budget = 0 \/ (budget > s.limit /\ budget >= s.pending.projected)
WithApproval(s, budget) ==
  [s EXCEPT !.limit = IF budget = 0 THEN @ ELSE budget,
            !.approved = @ \cup {s.pending.op}, !.pending = NoPending]
WithDecline(s) == [s EXCEPT !.pending = NoPending]

NewQuery(s) ==
  [s EXCEPT !.query = @ + 1, !.limit = s.budget, !.start = s.spent,
            !.pending = NoPending, !.approved = {}]

-----------------------------------------------------------------------------
(***************************************************************************)
(* The lock and the saves.                                                 *)
(***************************************************************************)
Holds(c)      == queue # <<>> /\ Head(queue) = c
Turn(c, kind) == Holds(c) /\ pc[c] = "queued" /\ job[c].kind = kind

Enqueue(c, j) ==
  /\ pc' = [pc EXCEPT ![c] = "queued"]
  /\ job' = [job EXCEPT ![c] = j]
  /\ queue' = Append(queue, c)

StaysLockedOnFailure(c, to, j) ==
  /\ pc' = [pc EXCEPT ![c] = to]
  /\ job' = [job EXCEPT ![c] = j]
  /\ queue' = IF to = "idle" THEN queue ELSE Tail(queue)

\* The critical section returns or throws: the next one in the chain starts.
Leave(c, to, j) ==
  /\ pc' = [pc EXCEPT ![c] = to]
  /\ job' = [job EXCEPT ![c] = j]
  /\ queue' = Tail(queue)

\* Mutate the session, then start saveSession; the lock stays held.
Save(c, s, stage, j) ==
  /\ mem' = s /\ snap' = s
  /\ pc' = [pc EXCEPT ![c] = stage]
  /\ job' = [job EXCEPT ![c] = j]
  /\ UNCHANGED queue

AllIdle == \A c \in Callers : pc[c] = "idle"
Spend(bound) == left[bound] > 0 /\ left' = [left EXCEPT ![bound] = @ - 1]

(***************************************************************************)
(* reserveBudget                                                           *)
(***************************************************************************)
Call(c) ==
  /\ pc[c] = "idle"
  /\ Spend("calls")
  /\ \E op \in Ops, force \in BOOLEAN :
       Enqueue(c, [NoJob EXCEPT !.kind = "reserve", !.op = op, !.force = force])
  /\ UNCHANGED <<mem, disk, interactive, snap, toggles, history>>

\* SpendingApprovalRequired for another call, or BudgetExhaustedError.
Refuse(c) ==
  /\ Turn(c, "reserve")
  /\ IF mem.query = 0 THEN OverQuery(mem, job[c].op)
                      ELSE OtherPending(mem, job[c].op)
  /\ Leave(c, "idle", NoJob)
  /\ UNCHANGED <<mem, disk, interactive, snap, toggles, left, history>>

Reserve(c) ==
  LET op == job[c].op
      byApproval == op \in mem.approved
  IN /\ Save(c, WithReservation(mem, op), "saveCommit",
             [job[c] EXCEPT !.byApproval = byApproval])
     /\ extra' = IF byApproval
                 THEN [extra EXCEPT ![mem.query] = @ + Amount[op]] ELSE extra
     /\ UNCHANGED <<disk, interactive, toggles, left, approvals, consumed, acked>>

ReserveFreely(c) ==
  /\ Turn(c, "reserve")
  /\ Allowed(mem, job[c].op, job[c].force)
  /\ Reserve(c)

AskUser(c) ==
  LET op == job[c].op
  IN /\ Turn(c, "reserve")
     /\ mem.query # 0
     /\ ~OtherPending(mem, op) /\ ~Allowed(mem, op, job[c].force)
     /\ Save(c, [mem EXCEPT !.pending =
                   [op |-> op, projected |-> Committed(mem) + Amount[op]]],
             "saveAsk", job[c])
     /\ UNCHANGED <<disk, interactive, toggles, left, history>>

\* With no handler the query stops with SpendingApprovalRequired.
AskSaved(c) ==
  /\ pc[c] = "saveAsk"
  /\ disk' = snap
  /\ IF interactive
     THEN pc' = [pc EXCEPT ![c] = "asking"] /\ UNCHANGED <<queue, job>>
     ELSE Leave(c, "idle", NoJob)
  /\ UNCHANGED <<mem, interactive, snap, toggles, left, history>>

Approve(c) ==
  /\ pc[c] = "asking"
  /\ \E budget \in Budgets \cup {0} :
       /\ RaiseOK(mem, budget)
       /\ Save(c, WithApproval(mem, budget), "saveApprove", job[c])
  \* what the user was shown is this caller's operation
  /\ approvals' = [approvals EXCEPT ![<<mem.query, job[c].op>>] = @ + 1]
  /\ UNCHANGED <<disk, interactive, toggles, left, consumed, extra, acked>>

ApproveSaved(c) ==
  /\ pc[c] = "saveApprove"
  /\ disk' = snap
  /\ pc' = [pc EXCEPT ![c] = "commit"]
  /\ UNCHANGED <<mem, interactive, queue, job, snap, toggles, left, history>>

ReserveApproved(c) == pc[c] = "commit" /\ Reserve(c)

Decline(c) ==
  /\ pc[c] = "asking"
  /\ Save(c, WithDecline(mem), "saveDecline", job[c])
  /\ UNCHANGED <<disk, interactive, toggles, left, history>>

DeclineSaved(c) ==
  /\ pc[c] = "saveDecline"
  /\ disk' = snap
  /\ Leave(c, "idle", NoJob)
  /\ UNCHANGED <<mem, interactive, snap, toggles, left, history>>

\* The prompt breaks or the new budget is too low: the call stays pending.
AnswerFails(c) ==
  /\ pc[c] = "asking"
  /\ Leave(c, "idle", NoJob)
  /\ UNCHANGED <<mem, disk, interactive, snap, toggles, left, history>>

\* reserveBudget returns the Reservation; from here the caller pays.
ReserveSaved(c) ==
  /\ pc[c] = "saveCommit"
  /\ disk' = snap
  /\ Leave(c, "paying", [job[c] EXCEPT !.held = TRUE])
  /\ consumed' = IF job[c].byApproval
                 THEN [consumed EXCEPT ![<<mem.query, job[c].op>>] = @ + 1]
                 ELSE consumed
  /\ UNCHANGED <<mem, interactive, snap, toggles, left, approvals, extra, acked>>

(***************************************************************************)
(* The paid call, finalizeReservation and releaseReservation.              *)
(***************************************************************************)
CallPaid(c) ==
  /\ pc[c] = "paying"
  /\ \E charge \in Charges :
       Enqueue(c, [job[c] EXCEPT !.kind = "finalize", !.charge = charge])
  /\ UNCHANGED <<mem, disk, interactive, snap, toggles, left, history>>

CallFailed(c) ==
  /\ pc[c] = "paying"
  /\ Enqueue(c, [job[c] EXCEPT !.kind = "release"])
  /\ UNCHANGED <<mem, disk, interactive, snap, toggles, left, history>>

Finalize(c) ==
  LET j == job[c]
  IN /\ Turn(c, "finalize")
     /\ Save(c, WithCharge(mem, j.op, j.charge), "saveFinalize",
             [j EXCEPT !.held = FALSE])
     /\ extra' = [extra EXCEPT ![mem.query] = @ + Less(j.charge, Amount[j.op])]
     /\ UNCHANGED <<disk, interactive, toggles, left, approvals, consumed, acked>>

FinalizeInMemory(c) ==
  /\ pc[c] = "saveFinalize"
  /\ Leave(c, "booked", job[c])
  /\ acked' = acked + job[c].charge
  /\ UNCHANGED <<mem, disk, interactive, snap, toggles, left, approvals, consumed,
                 extra>>

FinalizeSaved(c) ==
  /\ pc[c] = "saveFinalize"
  /\ disk' = snap
  /\ Leave(c, "booked", job[c])
  /\ acked' = acked + job[c].charge
  /\ UNCHANGED <<mem, interactive, snap, toggles, left, approvals, consumed, extra>>

Release(c) ==
  /\ Turn(c, "release")
  /\ Save(c, WithRelease(mem, job[c].op), "saveRelease",
          [job[c] EXCEPT !.held = FALSE])
  /\ UNCHANGED <<disk, interactive, toggles, left, history>>

ReleaseSaved(c) ==
  /\ pc[c] = "saveRelease"
  /\ disk' = snap
  /\ Leave(c, "idle", NoJob)
  /\ UNCHANGED <<mem, interactive, snap, toggles, left, history>>

\* appendLedgerEntry after the reservation was finalized.
LedgerRow(c) ==
  /\ pc[c] = "booked"
  /\ pc' = [pc EXCEPT ![c] = "idle"]
  /\ job' = [job EXCEPT ![c] = NoJob]
  /\ UNCHANGED <<mem, disk, interactive, queue, snap, toggles, left, history>>

\* It throws inside complete()'s try: the catch releases the same reservation.
LedgerRowFails(c) ==
  /\ pc[c] = "booked"
  /\ Spend("faults")
  /\ Enqueue(c, [job[c] EXCEPT !.kind = "release"])
  /\ UNCHANGED <<mem, disk, interactive, snap, toggles, history>>

\* saveSession throws, before or after its rename; a failed finalize ends in
\* complete()'s catch, which releases the reservation.
SaveFails(c) ==
  /\ pc[c] \in Saving
  /\ Spend("faults")
  /\ disk' \in {disk, snap}
  /\ IF pc[c] = "saveFinalize"
     THEN /\ pc' = [pc EXCEPT ![c] = "queued"]
          /\ job' = [job EXCEPT ![c].kind = "release"]
          /\ queue' = Append(Tail(queue), c)
     ELSE Leave(c, "idle", NoJob)
  /\ UNCHANGED <<mem, interactive, snap, toggles, history>>

(***************************************************************************)
(* What the program does between runs, outside the lock.                   *)
(***************************************************************************)
Between(s) == AllIdle /\ mem' = s /\ disk' = s
NoCaller   == UNCHANGED <<interactive, procs, snap, toggles, left>>

BeginQuery ==
  /\ mem.query < MaxQueries
  /\ mem.pending = NoPending
  /\ Between(NewQuery(mem))
  /\ extra' = [extra EXCEPT ![mem.query + 1] = @ + mem.reserved]
  /\ NoCaller /\ UNCHANGED <<approvals, consumed, acked>>

SetBudget(cents) ==
  /\ cents >= Committed(mem)
  /\ Between(IF mem.query = 0 THEN [mem EXCEPT !.budget = cents]
                              ELSE [mem EXCEPT !.limit = cents])
  /\ NoCaller /\ UNCHANGED history

\* The wallet screen's spending limits: the default of later queries.
SetDefault(cents) ==
  /\ mem.query # 0
  /\ Between([mem EXCEPT !.budget = cents])
  /\ NoCaller /\ UNCHANGED history

\* `opencrowd resume`: the user answers before the query goes on.
ResumeApprove(budget) ==
  /\ mem.pending.op # NoOp
  /\ RaiseOK(mem, budget)
  /\ Between(WithApproval(mem, budget))
  /\ approvals' = [approvals EXCEPT ![<<mem.query, mem.pending.op>>] = @ + 1]
  /\ NoCaller /\ UNCHANGED <<consumed, extra, acked>>

ResumeDecline ==
  /\ mem.pending.op # NoOp
  /\ Between(WithDecline(mem))
  /\ NoCaller /\ UNCHANGED history

\* The process dies and another one loads session.json.
Crash ==
  /\ Spend("crashes")
  /\ mem' = disk /\ snap' = disk /\ UNCHANGED disk
  /\ queue' = <<>>
  /\ pc' = [c \in Callers |-> "idle"]
  /\ job' = [c \in Callers |-> NoJob]
  /\ toggles' = {}
  /\ interactive' \in BOOLEAN
  /\ UNCHANGED history

(***************************************************************************)
(* shift+tab in the terminal UI saves the session while a run is going on, *)
(* without the lock; nothing orders its rename after that of a locked save.*)
(***************************************************************************)
ToggleMode ==
  /\ interactive /\ mem.query # 0
  /\ \A c \in Callers : pc[c] # "asking"     \* the prompt takes every key
  /\ Spend("toggles")
  /\ toggles' = toggles \cup {mem}
  /\ UNCHANGED <<mem, disk, interactive, procs, snap, history>>

ToggleSaved(s) ==
  /\ disk' = s
  /\ toggles' = toggles \ {s}
  /\ UNCHANGED <<mem, interactive, procs, snap, left, history>>

-----------------------------------------------------------------------------
Init ==
  /\ mem = [query |-> 0, limit |-> 0, start |-> 0, spent |-> 0, reserved |-> 0,
            budget |-> Limit, pending |-> NoPending, approved |-> {}]
  /\ disk = mem /\ snap = mem
  /\ interactive \in BOOLEAN
  /\ queue = <<>>
  /\ pc = [c \in Callers |-> "idle"]
  /\ job = [c \in Callers |-> NoJob]
  /\ toggles = {}
  /\ left = Bound
  /\ approvals = [x \in Queries \X Ops |-> 0]
  /\ consumed = [x \in Queries \X Ops |-> 0]
  /\ extra = [q \in Queries |-> 0]
  /\ acked = 0

\* What the holder of the lock does without waiting for anybody.
Progress(c) ==
  \/ Refuse(c) \/ ReserveFreely(c) \/ AskUser(c) \/ AskSaved(c)
  \/ ApproveSaved(c) \/ ReserveApproved(c) \/ DeclineSaved(c) \/ ReserveSaved(c)
  \/ Finalize(c) \/ FinalizeSaved(c) \/ Release(c) \/ ReleaseSaved(c)

Step(c) ==
  \/ Progress(c)
  \/ Call(c) \/ Approve(c) \/ Decline(c) \/ AnswerFails(c)
  \/ CallPaid(c) \/ CallFailed(c) \/ LedgerRow(c)
  \/ LedgerRowFails(c) \/ SaveFails(c)

Next ==
  \/ \E c \in Callers : Step(c)
  \/ BeginQuery \/ ResumeDecline \/ Crash
  \/ \E cents \in Budgets : SetBudget(cents) \/ SetDefault(cents)
  \/ \E budget \in Budgets \cup {0} : ResumeApprove(budget)

NextWithToggles ==
  \/ Next
  \/ ToggleMode
  \/ \E s \in toggles : ToggleSaved(s)

\* JavaScript runs a settled promise's continuation, and a started write ends.
Fairness == \A c \in Callers : WF_vars(Progress(c))

Spec == Init /\ [][Next]_vars
ToggleSpec == Init /\ [][NextWithToggles]_vars /\ Fairness

-----------------------------------------------------------------------------
(***************************************************************************)
(* Properties                                                              *)
(***************************************************************************)

\* Every variable has its type; a query never starts after what was spent.
TypeOK ==
  /\ mem \in Session /\ mem.start <= mem.spent
  /\ disk \in Session /\ disk.start <= disk.spent
  /\ snap \in Session /\ snap.start <= snap.spent
  /\ toggles \subseteq {s \in Session : s.start <= s.spent}
  /\ interactive \in BOOLEAN
  /\ queue \in Seq(Callers)
  /\ pc \in [Callers -> PCs]
  /\ job \in [Callers -> Job]
  /\ left \in Bounds
  /\ approvals \in [Queries \X Ops -> Nat]
  /\ consumed \in [Queries \X Ops -> Nat]
  /\ extra \in [Queries -> Nat]
  /\ acked \in Nat

WithinCeiling(s) == Committed(s) <= LimitOf(s) + extra[s.query]

\* What a query has spent and reserved, in memory and in session.json, never
\* exceeds its limit by more than the calls the user approved above it, the
\* sellers' overruns and what earlier queries left reserved: callers that
\* reserve in parallel, crashes and late unlocked saves included, as long as no
\* write fails after a payment (LimitBindsHeld shows what happens then).
SpendingCeiling == WithinCeiling(mem) /\ WithinCeiling(disk)

\* An approval pays for one reservation, of the operation the user was shown,
\* in the query it was given for, across failed saves and restarts; and no
\* reservation above the per-call threshold is held without one.
OneShotApproval ==
  /\ \A x \in Queries \X Ops : consumed[x] <= approvals[x]
  /\ \A c \in Callers :
       pc[c] = "paying" /\ mem.query # 0 /\ ~job[c].byApproval
         => Amount[job[c].op] <= PerCall /\ ~job[c].force

\* The units of money that the callers in S hold, and how many they are.
Units(S)  == UNION {{c} \X (1..Amount[job[c].op]) : c \in S}
HeldBy(S) == Cardinality(Units(S))
Holders   == {c \in Callers : job[c].held}

\* The reserved total covers every reservation a caller still holds, in memory
\* and in session.json, so no concurrent check can count money twice.
ReservedCoversHeld ==
  /\ HeldBy(Holders) <= mem.reserved
  /\ HeldBy(Holders) <= disk.reserved

\* The same limit, for the money that callers really hold: a call above a
\* threshold pauses for approval, however other calls end (SECURITY.md).
LimitBindsHeld ==
  mem.query # 0 =>
  (mem.spent - mem.start) + HeldBy(Holders) <= LimitOf(mem) + extra[mem.query]

\* A charge whose finalizeReservation returned stays in session.json.
FinalizedIsDurable == acked <= disk.spent

\* Nobody waits for the lock forever, except behind a prompt the user leaves
\* unanswered.
OnlyTheUserBlocks ==
  \A c \in Callers :
    pc[c] = "queued" ~> (pc[c] # "queued" \/ \E d \in Callers : pc[d] = "asking")
=============================================================================
