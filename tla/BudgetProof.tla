----------------------------- MODULE BudgetProof -----------------------------
(***************************************************************************)
(* Proofs about Budget, for every value of its constants: its types and    *)
(* its one-shot approvals; then its money: finalized charges stay on disk, *)
(* the reserved total covers what callers hold, and the ceiling.           *)
(***************************************************************************)
EXTENDS Budget, FiniteSetTheorems, TLAPS

USE OpsAssumption, LimitsAssumption

\* A caller inside the critical section is at the head of the promise chain.
LockInv == \A c \in Callers : pc[c] \in InLock => Holds(c)

\* Between the check and the reservation nobody replaces the pending request
\* or takes back the approval: the lock covers the prompt and the two saves.
AskInv == \A c \in Callers :
  /\ pc[c] # "idle" => job[c].op \in Ops
  /\ pc[c] \in {"saveAsk", "asking"} => mem.pending.op = job[c].op
  /\ pc[c] \in {"saveApprove", "commit"} => job[c].op \in mem.approved

TypeInv == TypeOK /\ LockInv /\ AskInv

-----------------------------------------------------------------------------
\* What budget.ts computes from a well-typed session is well typed.
LEMMA SessionTypes ==
  ASSUME NEW s \in Session, s.start <= s.spent, NEW op \in Ops, NEW n \in Nat
  PROVE  /\ Committed(s) \in Nat
         /\ LimitOf(s) \in Nat
         /\ WithReservation(s, op) \in Session
         /\ WithCharge(s, op, n) \in Session
         /\ WithRelease(s, op) \in Session
         /\ WithDecline(s) \in Session
         /\ s.pending.op # NoOp => WithApproval(s, n) \in Session
<1>0. NoPending \in Pending
  BY DEF Pending, NoPending
<1>1. Amount[op] \in Nat
  OBVIOUS
<1>2. Committed(s) \in Nat /\ LimitOf(s) \in Nat
  BY DEF Committed, LimitOf, Session
<1>3. WithReservation(s, op) \in Session
  <2>1. s.approved \ {op} \in SUBSET Ops
    BY DEF Session
  <2>2. s.reserved + Amount[op] \in Nat
    BY <1>1 DEF Session
  <2> QED
    BY <2>1, <2>2 DEF WithReservation, Session
<1>4. WithCharge(s, op, n) \in Session /\ WithRelease(s, op) \in Session
  <2>1. Less(s.reserved, Amount[op]) \in Nat /\ s.spent + n \in Nat
    BY <1>1 DEF Less, Session
  <2>2. WithCharge(s, op, n) \in Session
    BY <2>1 DEF WithCharge, Session
  <2>3. WithRelease(s, op) \in Session
    BY <2>1 DEF WithRelease, Session
  <2> QED
    BY <2>2, <2>3
<1>5. WithDecline(s) \in Session
  BY <1>0 DEF WithDecline, Session
<1>6. s.pending.op # NoOp => WithApproval(s, n) \in Session
  <2>1. ASSUME s.pending.op # NoOp
        PROVE  /\ s.approved \cup {s.pending.op} \in SUBSET Ops
               /\ (IF n = 0 THEN s.limit ELSE n) \in Nat
    BY <2>1 DEF Session, Pending
  <2> QED
    BY <1>0, <2>1 DEF WithApproval, Session
<1> QED
  BY <1>2, <1>3, <1>4, <1>5, <1>6

LEMMA NewQueryType ==
  ASSUME NEW s \in Session, s.query < MaxQueries
  PROVE  NewQuery(s) \in Session /\ NewQuery(s).start <= NewQuery(s).spent
<1>1. NoPending \in Pending
  BY DEF Pending, NoPending
<1>2. s.query + 1 \in Queries
  BY DEF Session, Queries
<1>3. NewQuery(s) \in Session
  BY <1>1, <1>2 DEF NewQuery, Session
<1>4. NewQuery(s).start <= NewQuery(s).spent
  BY DEF NewQuery, Session
<1> QED
  BY <1>3, <1>4

LEMMA InitType == Init => TypeInv
BY DEF Init, TypeInv, TypeOK, LockInv, AskInv, Session, Pending, NoPending,
       Queries, PCs, InLock, Saving, Job, NoJob, Bounds

LEMMA SpendType ==
  ASSUME left \in Bounds, NEW bound \in {"calls", "crashes", "faults", "toggles"},
         Spend(bound)
  PROVE  left' \in Bounds
<1>1. left[bound] \in Nat
  BY DEF Bounds
<1>2. left[bound] - 1 \in Nat
  BY <1>1 DEF Spend
<1> QED
  BY <1>2 DEF Spend, Bounds

\* One more of something that is counted.
LEMMA CountType ==
  ASSUME NEW S, NEW f \in [S -> Nat], NEW x \in S, NEW n \in Nat
  PROVE  [f EXCEPT ![x] = @ + n] \in [S -> Nat]
OBVIOUS

LEMMA QueryOp ==
  ASSUME NEW s \in Session, NEW op \in Ops
  PROVE  s.query \in Queries /\ <<s.query, op>> \in Queries \X Ops
BY DEF Session

LEMMA EnqueueType ==
  ASSUME TypeInv, NEW c \in Callers, pc[c] \in {"idle", "paying", "booked"},
         NEW j \in Job, j.op \in Ops, Enqueue(c, j), left' \in Bounds,
         UNCHANGED <<mem, disk, interactive, snap, toggles, history>>
  PROVE  TypeInv'
<1>1. TypeOK'
  BY DEF TypeInv, TypeOK, Enqueue, history, PCs
<1>2. LockInv'
  <2> SUFFICES ASSUME NEW d \in Callers, pc'[d] \in InLock PROVE Holds(d)'
    BY DEF LockInv
  <2>1. d # c
    BY DEF Enqueue, InLock, Saving, TypeInv, TypeOK
  <2>2. Holds(d)
    BY <2>1 DEF Enqueue, LockInv, TypeInv, TypeOK
  <2> QED
    BY <2>2 DEF Enqueue, Holds, TypeInv, TypeOK
<1>3. AskInv'
  BY DEF TypeInv, TypeOK, AskInv, Enqueue
<1> QED
  BY <1>1, <1>2, <1>3 DEF TypeInv

LEMMA CallType == ASSUME TypeInv, NEW c \in Callers, Call(c) PROVE TypeInv'
<1>1. left' \in Bounds
  BY SpendType DEF Call, TypeInv, TypeOK
<1>2. PICK op \in Ops, force \in BOOLEAN :
        Enqueue(c, [NoJob EXCEPT !.kind = "reserve", !.op = op, !.force = force])
  BY DEF Call
<1>3. [NoJob EXCEPT !.kind = "reserve", !.op = op, !.force = force] \in Job
  BY DEF NoJob, Job
<1>4. [NoJob EXCEPT !.kind = "reserve", !.op = op, !.force = force].op \in Ops
  BY DEF NoJob
<1> QED
  BY <1>1, <1>2, <1>3, <1>4, EnqueueType DEF Call

LEMMA SaveType ==
  ASSUME TypeInv, NEW c \in Callers, Holds(c), NEW s, NEW stage, NEW j,
         Save(c, s, stage, j), s \in Session, s.start <= s.spent,
         stage \in InLock, j \in Job, j.op \in Ops,
         stage \in {"saveAsk", "asking"} => s.pending.op = j.op,
         stage \in {"saveApprove", "commit"} => j.op \in s.approved,
         UNCHANGED <<disk, interactive, toggles, left>>,
         approvals' \in [Queries \X Ops -> Nat],
         consumed' \in [Queries \X Ops -> Nat],
         extra' \in [Queries -> Nat], acked' \in Nat
  PROVE  TypeInv'
BY DEF TypeInv, TypeOK, LockInv, AskInv, Save, Holds, PCs, InLock, Saving

LEMMA LeaveType ==
  ASSUME TypeInv, NEW c \in Callers, Holds(c), NEW to, NEW j,
         Leave(c, to, j), to \in {"idle", "paying", "booked"}, j \in Job,
         to # "idle" => j.op \in Ops,
         disk' \in {disk, snap}, UNCHANGED <<mem, interactive, snap, toggles>>,
         left' \in Bounds, UNCHANGED <<approvals, extra>>,
         consumed' \in [Queries \X Ops -> Nat], acked' \in Nat
  PROVE  TypeInv'
BY DEF TypeInv, TypeOK, LockInv, AskInv, Leave, Holds, PCs, InLock, Saving

\* A step of one caller keeps TypeInv.
LEMMA ReserveType ==
  ASSUME TypeInv, NEW c \in Callers, Holds(c), pc[c] # "idle", Reserve(c)
  PROVE  TypeInv'
<1> DEFINE op == job[c].op
<1>1. mem \in Session /\ mem.start <= mem.spent /\ job[c] \in Job /\ op \in Ops
  BY DEF TypeInv, TypeOK, AskInv
<1>2. WithReservation(mem, op) \in Session
  BY <1>1, SessionTypes
<1>3. WithReservation(mem, op).start <= WithReservation(mem, op).spent
  BY <1>1 DEF WithReservation, Session
<1>4. [job[c] EXCEPT !.byApproval = op \in mem.approved] \in Job
  <2>1. \A b \in BOOLEAN : [job[c] EXCEPT !.byApproval = b] \in Job
    BY <1>1 DEF Job
  <2>2. (op \in mem.approved) \in BOOLEAN
    OBVIOUS
  <2> QED
    BY <2>1, <2>2, Zenon
<1>5. extra' \in [Queries -> Nat]
  <2>1. extra \in [Queries -> Nat] /\ mem.query \in Queries /\ Amount[op] \in Nat
    BY <1>1, QueryOp DEF TypeInv, TypeOK
  <2>2. [extra EXCEPT ![mem.query] = @ + Amount[op]] \in [Queries -> Nat]
    BY <2>1
  <2> QED
    BY <2>1, <2>2 DEF Reserve
<1>6. [job[c] EXCEPT !.byApproval = op \in mem.approved].op = op
  BY <1>1 DEF Job
<1> QED
  BY <1>1, <1>2, <1>3, <1>4, <1>5, <1>6, SaveType
  DEF Reserve, TypeInv, TypeOK, InLock, Saving

\* A saved text is a session, and so are the session before and after it.
LEMMA SavedType ==
  ASSUME TypeInv, NEW c \in Callers, pc[c] \in InLock
  PROVE  /\ Holds(c) /\ job[c] \in Job /\ job[c].op \in Ops
         /\ mem \in Session /\ mem.start <= mem.spent
         /\ snap \in Session /\ snap.start <= snap.spent
BY DEF TypeInv, TypeOK, LockInv, AskInv, InLock, Saving

LEMMA AskType ==
  ASSUME TypeInv, NEW c \in Callers,
         AskUser(c) \/ AskSaved(c) \/ Approve(c) \/ ApproveSaved(c)
         \/ Decline(c) \/ DeclineSaved(c) \/ AnswerFails(c)
  PROVE  TypeInv'
<1> DEFINE op == job[c].op
<1> USE DEF history
<1>1. CASE AskUser(c)
  <2> DEFINE s == [mem EXCEPT !.pending =
                     [op |-> op, projected |-> Committed(mem) + Amount[op]]]
  <2>1. Holds(c) /\ mem \in Session /\ mem.start <= mem.spent /\ job[c] \in Job
        /\ op \in Ops /\ Amount[op] \in Nat
    BY <1>1 DEF AskUser, Turn, TypeInv, TypeOK, AskInv
  <2>2. [op |-> op, projected |-> Committed(mem) + Amount[op]] \in Pending
    BY <2>1, SessionTypes DEF Pending
  <2>3. s \in Session /\ s.start <= s.spent /\ s.pending.op = op
    BY <2>1, <2>2 DEF Session
  <2> QED
    BY <1>1, <2>1, <2>3, SaveType DEF AskUser, TypeInv, TypeOK, InLock, Saving
<1>2. CASE AskSaved(c)
  <2>1. CASE interactive
    BY <1>2, <2>1 DEF AskSaved, TypeInv, TypeOK, LockInv, AskInv, Holds, PCs,
                      InLock, Saving
  <2>2. CASE ~interactive
    BY <1>2, <2>2, SavedType, LeaveType
    DEF AskSaved, InLock, Saving, TypeInv, TypeOK, Job, NoJob
  <2> QED
    BY <2>1, <2>2
<1>3. CASE Approve(c)
  <2>1. Holds(c) /\ job[c] \in Job /\ op \in Ops /\ mem \in Session
        /\ mem.start <= mem.spent /\ mem.pending.op = op /\ mem.pending.op # NoOp
    BY <1>3, SavedType DEF Approve, InLock, TypeInv, AskInv
  <2>2. PICK budget \in Budgets \cup {0} :
          Save(c, WithApproval(mem, budget), "saveApprove", job[c])
    BY <1>3 DEF Approve
  <2>3. WithApproval(mem, budget) \in Session
    BY <2>1, SessionTypes
  <2>4. /\ WithApproval(mem, budget).start <= WithApproval(mem, budget).spent
        /\ op \in WithApproval(mem, budget).approved
    BY <2>1 DEF WithApproval, Session
  <2>5. approvals' \in [Queries \X Ops -> Nat]
    BY <1>3, <2>1, QueryOp, CountType DEF Approve, TypeInv, TypeOK
  <2> QED
    BY <1>3, <2>1, <2>2, <2>3, <2>4, <2>5, SaveType
    DEF Approve, TypeInv, TypeOK, InLock, Saving
<1>4. CASE ApproveSaved(c)
  BY <1>4 DEF ApproveSaved, TypeInv, TypeOK, LockInv, AskInv, Holds, PCs, InLock,
              Saving
<1>5. CASE Decline(c)
  <2>1. Holds(c) /\ job[c] \in Job /\ op \in Ops /\ mem \in Session
        /\ mem.start <= mem.spent
    BY <1>5, SavedType DEF Decline, InLock
  <2>2. WithDecline(mem) \in Session
    BY <2>1, SessionTypes
  <2>3. WithDecline(mem).start <= WithDecline(mem).spent
    BY <2>1 DEF WithDecline, Session
  <2> QED
    BY <1>5, <2>1, <2>2, <2>3, SaveType
    DEF Decline, TypeInv, TypeOK, InLock, Saving
<1>6. CASE DeclineSaved(c)
  BY <1>6, SavedType, LeaveType
  DEF DeclineSaved, InLock, Saving, TypeInv, TypeOK, Job, NoJob
<1>7. CASE AnswerFails(c)
  BY <1>7, SavedType, LeaveType
  DEF AnswerFails, InLock, TypeInv, TypeOK, Job, NoJob
<1> QED
  BY <1>1, <1>2, <1>3, <1>4, <1>5, <1>6, <1>7

LEMMA PaidType ==
  ASSUME TypeInv, NEW c \in Callers,
         CallPaid(c) \/ CallFailed(c) \/ Finalize(c) \/ FinalizeSaved(c)
         \/ Release(c) \/ ReleaseSaved(c) \/ LedgerRow(c) \/ LedgerRowFails(c)
         \/ SaveFails(c)
  PROVE  TypeInv'
<1> DEFINE op == job[c].op
<1> USE DEF history
<1>1. CASE CallPaid(c) \/ CallFailed(c) \/ LedgerRowFails(c)
  <2>1. job[c] \in Job /\ op \in Ops /\ left' \in Bounds
    BY <1>1, SpendType
    DEF CallPaid, CallFailed, LedgerRowFails, TypeInv, TypeOK, AskInv
  <2>2. CASE CallPaid(c)
    <3>1. PICK charge \in Charges :
            Enqueue(c, [job[c] EXCEPT !.kind = "finalize", !.charge = charge])
      BY <2>2 DEF CallPaid
    <3>2. /\ [job[c] EXCEPT !.kind = "finalize", !.charge = charge] \in Job
          /\ [job[c] EXCEPT !.kind = "finalize", !.charge = charge].op = op
      BY <2>1 DEF Job
    <3> QED
      BY <2>1, <2>2, <3>1, <3>2, EnqueueType DEF CallPaid
  <2>3. /\ [job[c] EXCEPT !.kind = "release"] \in Job
        /\ [job[c] EXCEPT !.kind = "release"].op = op
    BY <2>1 DEF Job
  <2> QED
    BY <1>1, <2>1, <2>2, <2>3, EnqueueType DEF CallFailed, LedgerRowFails
<1>2. CASE Finalize(c)
  <2> DEFINE charge == job[c].charge
  <2>1. Holds(c) /\ job[c] \in Job /\ op \in Ops /\ mem \in Session
        /\ mem.start <= mem.spent /\ charge \in Nat /\ Amount[op] \in Nat
    BY <1>2 DEF Finalize, Turn, TypeInv, TypeOK, AskInv, Job
  <2>2. WithCharge(mem, op, charge) \in Session
    BY <2>1, SessionTypes
  <2>3. WithCharge(mem, op, charge).start <= WithCharge(mem, op, charge).spent
    BY <2>1 DEF WithCharge, Session
  <2>4. extra' \in [Queries -> Nat]
    <3>1. Less(charge, Amount[op]) \in Nat
      BY <2>1 DEF Less
    <3>2. extra \in [Queries -> Nat] /\ mem.query \in Queries
      BY <2>1, QueryOp DEF TypeInv, TypeOK
    <3>3. [extra EXCEPT ![mem.query] = @ + Less(charge, Amount[op])]
            \in [Queries -> Nat]
      BY <3>1, <3>2
    <3> QED
      BY <1>2, <3>3 DEF Finalize
  <2>5. [job[c] EXCEPT !.held = FALSE] \in Job
        /\ [job[c] EXCEPT !.held = FALSE].op = op
    BY <2>1 DEF Job
  <2> QED
    BY <1>2, <2>1, <2>2, <2>3, <2>4, <2>5, SaveType
    DEF Finalize, TypeInv, TypeOK, InLock, Saving
<1>3. CASE FinalizeSaved(c)
  <2>1. acked' \in Nat
    BY <1>3, SavedType DEF FinalizeSaved, InLock, Saving, TypeInv, TypeOK, Job
  <2> QED
    BY <1>3, <2>1, SavedType, LeaveType
    DEF FinalizeSaved, InLock, Saving, TypeInv, TypeOK
<1>4. CASE Release(c)
  <2>1. Holds(c) /\ job[c] \in Job /\ op \in Ops /\ mem \in Session
        /\ mem.start <= mem.spent
    BY <1>4 DEF Release, Turn, TypeInv, TypeOK, AskInv
  <2>2. WithRelease(mem, op) \in Session
    BY <2>1, SessionTypes
  <2>3. WithRelease(mem, op).start <= WithRelease(mem, op).spent
    BY <2>1 DEF WithRelease, Session
  <2>4. [job[c] EXCEPT !.held = FALSE] \in Job
        /\ [job[c] EXCEPT !.held = FALSE].op = op
    BY <2>1 DEF Job
  <2> QED
    BY <1>4, <2>1, <2>2, <2>3, <2>4, SaveType
    DEF Release, TypeInv, TypeOK, InLock, Saving
<1>5. CASE ReleaseSaved(c)
  BY <1>5, SavedType, LeaveType
  DEF ReleaseSaved, InLock, Saving, TypeInv, TypeOK, Job, NoJob
<1>6. CASE LedgerRow(c)
  BY <1>6 DEF LedgerRow, TypeInv, TypeOK, LockInv, AskInv, Holds, PCs, InLock,
              Saving, Job, NoJob
<1>7. CASE SaveFails(c)
  <2>1. Holds(c) /\ job[c] \in Job /\ op \in Ops /\ left' \in Bounds
    BY <1>7, SavedType, SpendType DEF SaveFails, InLock, TypeInv, TypeOK
  <2>2. CASE pc[c] = "saveFinalize"
    <3>1. [job[c] EXCEPT !.kind = "release"] \in Job
          /\ [job[c] EXCEPT !.kind = "release"].op = op
      BY <2>1 DEF Job
    <3>2. job' = [job EXCEPT ![c] = [job[c] EXCEPT !.kind = "release"]]
      BY <1>7, <2>2 DEF SaveFails, TypeInv, TypeOK
    <3>3. TypeOK'
      <4>1. /\ job' \in [Callers -> Job]
            /\ pc' = [pc EXCEPT ![c] = "queued"]
            /\ queue' = Append(Tail(queue), c) /\ queue # <<>>
        BY <1>7, <2>1, <2>2, <3>1, <3>2 DEF SaveFails, Holds, TypeInv, TypeOK
      <4>2. pc' \in [Callers -> PCs] /\ queue' \in Seq(Callers)
        BY <4>1 DEF TypeInv, TypeOK, PCs
      <4> QED
        BY <1>7, <2>1, <4>1, <4>2 DEF SaveFails, TypeInv, TypeOK
    <3>4. LockInv'
      BY <1>7, <2>1, <2>2 DEF SaveFails, TypeInv, TypeOK, LockInv, Holds, InLock,
         Saving
    <3>5. AskInv'
      BY <1>7, <2>1, <2>2, <3>1, <3>2 DEF SaveFails, TypeInv, TypeOK, AskInv
    <3> QED
      BY <3>3, <3>4, <3>5 DEF TypeInv
  <2>3. CASE pc[c] # "saveFinalize"
    BY <1>7, <2>1, <2>3, LeaveType DEF SaveFails, TypeInv, TypeOK, Job, NoJob
  <2> QED
    BY <2>2, <2>3
<1> QED
  BY <1>1, <1>2, <1>3, <1>4, <1>5, <1>6, <1>7

LEMMA StepType == ASSUME TypeInv, NEW c \in Callers, Step(c) PROVE TypeInv'
<1>1. CASE Refuse(c)
  BY <1>1, LeaveType DEF Refuse, Turn, history, TypeInv, TypeOK, Job, NoJob
<1>2. CASE ReserveFreely(c)
  BY <1>2, ReserveType DEF ReserveFreely, Turn
<1>3. CASE ReserveApproved(c)
  BY <1>3, ReserveType, SavedType DEF ReserveApproved, InLock
<1>4. CASE ReserveSaved(c)
  <2>1. Holds(c) /\ job[c] \in Job /\ job[c].op \in Ops /\ mem \in Session
    BY <1>4, SavedType DEF ReserveSaved, InLock, Saving
  <2>2. [job[c] EXCEPT !.held = TRUE] \in Job
        /\ [job[c] EXCEPT !.held = TRUE].op = job[c].op
    BY <2>1 DEF Job
  <2>3. consumed' \in [Queries \X Ops -> Nat]
    <3>1. /\ consumed \in [Queries \X Ops -> Nat]
          /\ <<mem.query, job[c].op>> \in Queries \X Ops
      BY <2>1, QueryOp DEF TypeInv, TypeOK
    <3>2. [consumed EXCEPT ![<<mem.query, job[c].op>>] = @ + 1]
            \in [Queries \X Ops -> Nat]
      BY <3>1
    <3> QED
      BY <1>4, <3>1, <3>2 DEF ReserveSaved
  <2> QED
    BY <1>4, <2>1, <2>2, <2>3, LeaveType DEF ReserveSaved, TypeInv, TypeOK
<1> QED
  BY <1>1, <1>2, <1>3, <1>4, CallType, AskType, PaidType DEF Step, Progress

\* So does every step outside the callers, late unlocked saves included.
LEMMA OutsideType ==
  ASSUME TypeInv,
         \/ BeginQuery \/ ResumeDecline \/ Crash \/ ToggleMode
         \/ \E s \in toggles : ToggleSaved(s)
         \/ \E cents \in Budgets : SetBudget(cents) \/ SetDefault(cents)
         \/ \E budget \in Budgets \cup {0} : ResumeApprove(budget)
  PROVE  TypeInv'
<1> USE DEF history, procs
<1>1. mem \in Session /\ mem.start <= mem.spent /\ mem.query \in Queries
  BY DEF TypeInv, TypeOK, Session
<1>2. ASSUME NEW s \in Session, s.start <= s.spent, Between(s), NoCaller,
             approvals' \in [Queries \X Ops -> Nat], UNCHANGED <<consumed, acked>>,
             extra' \in [Queries -> Nat]
      PROVE  TypeInv'
  BY <1>2 DEF Between, AllIdle, NoCaller, TypeInv, TypeOK, LockInv, AskInv, InLock,
     Saving
<1>3. CASE BeginQuery
  <2>1. NewQuery(mem) \in Session /\ NewQuery(mem).start <= NewQuery(mem).spent
    BY <1>1, <1>3, NewQueryType DEF BeginQuery
  <2>2. extra' \in [Queries -> Nat]
    <3>1. mem.query + 1 \in Queries /\ mem.reserved \in Nat
      BY <1>1, <1>3 DEF BeginQuery, Session, Queries
    <3> QED
      BY <1>3, <3>1, CountType DEF BeginQuery, TypeInv, TypeOK
  <2> QED
    BY <1>2, <1>3, <2>1, <2>2 DEF BeginQuery, TypeInv, TypeOK
<1>4. CASE ResumeDecline
  BY <1>1, <1>2, <1>4 DEF ResumeDecline, WithDecline, Session, Pending, NoPending,
     TypeInv, TypeOK
<1>5. CASE Crash
  <2>1. left' \in Bounds /\ NoJob \in Job
    BY <1>5, SpendType DEF Crash, TypeInv, TypeOK, Job, NoJob
  <2>2. TypeOK'
    BY <1>5, <2>1 DEF Crash, TypeInv, TypeOK, PCs
  <2> QED
    BY <1>5, <2>2 DEF Crash, TypeInv, LockInv, AskInv, InLock, Saving
<1>6. CASE ToggleMode
  <2>1. left' \in Bounds
    BY <1>6, SpendType DEF ToggleMode, TypeInv, TypeOK
  <2> QED
    BY <1>1, <1>6, <2>1 DEF ToggleMode, TypeInv, TypeOK, LockInv, AskInv, Holds
<1>7. ASSUME NEW s \in toggles, ToggleSaved(s) PROVE TypeInv'
  BY <1>7 DEF ToggleSaved, TypeInv, TypeOK, LockInv, AskInv, Holds
<1>8. ASSUME NEW cents \in Budgets, SetBudget(cents) \/ SetDefault(cents)
      PROVE  TypeInv'
  <2>1. [mem EXCEPT !.budget = cents] \in Session
        /\ [mem EXCEPT !.limit = cents] \in Session
    BY <1>1 DEF Session
  <2>2. [mem EXCEPT !.budget = cents].start <= [mem EXCEPT !.budget = cents].spent
        /\ [mem EXCEPT !.limit = cents].start <= [mem EXCEPT !.limit = cents].spent
    BY <1>1 DEF Session
  <2> QED
    BY <1>2, <1>8, <2>1, <2>2 DEF SetBudget, SetDefault, TypeInv, TypeOK
<1>9. ASSUME NEW budget \in Budgets \cup {0}, ResumeApprove(budget)
      PROVE  TypeInv'
  <2>1. WithApproval(mem, budget) \in Session
        /\ WithApproval(mem, budget).start <= WithApproval(mem, budget).spent
    <3>1. mem.pending.op # NoOp
      BY <1>9 DEF ResumeApprove
    <3>2. PICK n \in Nat : n = budget
      OBVIOUS
    <3>3. WithApproval(mem, n) \in Session
      <4>1. PICK op \in Ops : op = mem.pending.op
        BY <1>1, <3>1 DEF Session, Pending
      <4> QED
        BY <1>1, <3>1, <4>1, SessionTypes
    <3> QED
      BY <1>1, <3>2, <3>3 DEF WithApproval, Session
  <2>2. approvals' \in [Queries \X Ops -> Nat]
    <3>1. mem.pending.op \in Ops
      BY <1>1, <1>9 DEF ResumeApprove, Session, Pending
    <3> QED
      BY <1>1, <1>9, <3>1, QueryOp, CountType DEF ResumeApprove, TypeInv, TypeOK
  <2> QED
    BY <1>2, <1>9, <2>1, <2>2 DEF ResumeApprove, TypeInv, TypeOK
<1> QED
  BY <1>3, <1>4, <1>5, <1>6, <1>7, <1>8, <1>9

LEMMA NextType == ASSUME TypeInv, [NextWithToggles]_vars PROVE TypeInv'
<1>1. CASE UNCHANGED vars
  BY <1>1 DEF vars, procs, history, TypeInv, TypeOK, LockInv, AskInv, Holds
<1> QED
  BY <1>1, StepType, OutsideType DEF NextWithToggles, Next

\* Every reachable state has its type, and whoever is in the critical section
\* is at the head of the lock's promise chain.
THEOREM TypeCorrect == Spec => []TypeOK
<1>1. Init /\ [][Next]_vars => []TypeInv
  <2>1. TypeInv /\ [Next]_vars => TypeInv'
    BY NextType DEF NextWithToggles
  <2> QED
    BY InitType, <2>1, PTL
<1>2. TypeInv => TypeOK
  BY DEF TypeInv
<1> QED
  BY <1>1, <1>2, PTL DEF Spec

-----------------------------------------------------------------------------
\* An approval that a copy of the session still shows has not been used up.
ViewOK(s) == \A op \in s.approved :
               consumed[<<s.query, op>>] < approvals[<<s.query, op>>]

\* OneShotApproval is not inductive: a crash or a later reservation reads the
\* approvals of disk, snap or mem, so all three must show unused ones only, and
\* an approval taken out of mem must be out of what is about to be written.
OneShotInv ==
  /\ \A x \in Queries \X Ops : consumed[x] <= approvals[x]
  /\ ViewOK(mem) /\ ViewOK(disk) /\ ViewOK(snap)
  /\ \A c \in Callers : pc[c] = "saveCommit" =>
       /\ snap.query = mem.query
       /\ job[c].op \notin mem.approved \cup snap.approved
       /\ job[c].byApproval =>
            consumed[<<mem.query, job[c].op>>] < approvals[<<mem.query, job[c].op>>]
  /\ \A c \in Callers :
       pc[c] \in {"saveCommit", "paying"} /\ mem.query # 0 /\ ~job[c].byApproval
         => Amount[job[c].op] <= PerCall /\ ~job[c].force

LEMMA OneShotInit == Init => OneShotInv
BY DEF Init, OneShotInv, ViewOK

\* Nothing but disk changes, and nobody starts to reserve or to pay.
LEMMA OneShotQuiet ==
  ASSUME OneShotInv, UNCHANGED <<mem, snap, approvals, consumed>>,
         disk' \in {disk, snap},
         \A d \in Callers : pc'[d] \in {"saveCommit", "paying"} =>
                              pc'[d] = pc[d] /\ job'[d] = job[d]
  PROVE  OneShotInv'
BY DEF OneShotInv, ViewOK

\* The lock holder saves a session without new approvals, not a reservation.
LEMMA OneShotSave ==
  ASSUME TypeInv, OneShotInv, NEW c \in Callers, Holds(c), NEW s, NEW stage, NEW j,
         Save(c, s, stage, j), stage \notin {"saveCommit", "paying"},
         s.query = mem.query, s.approved = mem.approved,
         UNCHANGED <<disk, approvals, consumed>>
  PROVE  OneShotInv'
<1>1. \A d \in Callers : d # c => pc'[d] = pc[d] /\ job'[d] = job[d]
  BY DEF Save, TypeInv, TypeOK
<1>2. pc'[c] = stage
  BY DEF Save, TypeInv, TypeOK
<1>3. \A d \in Callers : pc[d] = "saveCommit" => d = c
  BY DEF TypeInv, LockInv, InLock, Saving, Holds
<1>4. mem' = s /\ snap' = s
  BY DEF Save
<1>5. ViewOK(mem)' /\ ViewOK(disk)' /\ ViewOK(snap)'
  BY <1>4 DEF OneShotInv, ViewOK
<1> QED
  BY <1>1, <1>2, <1>3, <1>4, <1>5 DEF OneShotInv

LEMMA OneShotReserve ==
  ASSUME TypeInv, OneShotInv, NEW c \in Callers, Holds(c), pc[c] # "idle",
         Reserve(c),
         job[c].op \in mem.approved \/ mem.query = 0
           \/ (Amount[job[c].op] <= PerCall /\ ~job[c].force)
  PROVE  OneShotInv'
<1> DEFINE op == job[c].op
<1>1. mem \in Session /\ job[c] \in Job /\ op \in Ops
  BY DEF TypeInv, TypeOK, AskInv
<1>2. \A d \in Callers : d # c => pc'[d] = pc[d] /\ job'[d] = job[d]
  BY DEF Reserve, Save, TypeInv, TypeOK
<1>3. \A d \in Callers : pc[d] = "saveCommit" => d = c
  BY DEF TypeInv, LockInv, InLock, Saving, Holds
<1>4. mem' = WithReservation(mem, op) /\ snap' = mem'
  BY DEF Reserve, Save
<1>5. mem'.query = mem.query /\ mem'.approved = mem.approved \ {op}
  BY <1>1, <1>4 DEF WithReservation, Session
<1>6. pc'[c] = "saveCommit" /\ job'[c] = [job[c] EXCEPT !.byApproval = op \in mem.approved]
  BY DEF Reserve, Save, TypeInv, TypeOK
<1>7. job'[c].op = op /\ job'[c].force = job[c].force
      /\ (job'[c].byApproval <=> op \in mem.approved)
  BY <1>1, <1>6 DEF Job
<1>8. UNCHANGED <<disk, approvals, consumed>>
  BY DEF Reserve
<1>9. ViewOK(mem)' /\ ViewOK(disk)' /\ ViewOK(snap)'
  BY <1>4, <1>5, <1>8 DEF OneShotInv, ViewOK
<1>10. ASSUME NEW d \in Callers, pc'[d] = "saveCommit"
       PROVE  /\ snap'.query = mem'.query
              /\ job'[d].op \notin mem'.approved \cup snap'.approved
              /\ job'[d].byApproval =>
                   consumed'[<<mem'.query, job'[d].op>>]
                     < approvals'[<<mem'.query, job'[d].op>>]
  <2>1. d = c
    BY <1>2, <1>3, <1>10
  <2>2. op \in mem.approved => consumed[<<mem.query, op>>] < approvals[<<mem.query, op>>]
    BY DEF OneShotInv, ViewOK
  <2> QED
    BY <2>1, <2>2, <1>4, <1>5, <1>7, <1>8
<1>11. ASSUME NEW d \in Callers, pc'[d] \in {"saveCommit", "paying"},
              mem'.query # 0, ~job'[d].byApproval
       PROVE  Amount[job'[d].op] <= PerCall /\ ~job'[d].force
  <2>1. CASE d = c
    BY <2>1, <1>5, <1>7, <1>11
  <2>2. CASE d # c
    BY <2>2, <1>2, <1>5, <1>11 DEF OneShotInv
  <2> QED
    BY <2>1, <2>2
<1> QED
  BY <1>8, <1>9, <1>10, <1>11 DEF OneShotInv

LEMMA OneShotStep ==
  ASSUME TypeInv, OneShotInv, NEW c \in Callers, Step(c)
  PROVE  OneShotInv'
<1> DEFINE op == job[c].op
<1> USE DEF history
<1>1. mem \in Session /\ job[c] \in Job /\ pc \in [Callers -> PCs]
      /\ job \in [Callers -> Job] /\ (pc[c] # "idle" => op \in Ops)
  BY DEF TypeInv, TypeOK, AskInv
<1>2. CASE \/ Call(c) \/ Refuse(c) \/ AskSaved(c) \/ ApproveSaved(c)
           \/ DeclineSaved(c) \/ AnswerFails(c) \/ CallPaid(c) \/ CallFailed(c)
           \/ FinalizeSaved(c) \/ ReleaseSaved(c) \/ LedgerRow(c)
           \/ LedgerRowFails(c) \/ SaveFails(c)
  <2>1. /\ UNCHANGED <<mem, snap, approvals, consumed>>
        /\ disk' \in {disk, snap}
        /\ \A d \in Callers : d # c => pc'[d] = pc[d] /\ job'[d] = job[d]
    BY <1>1, <1>2 DEF Call, Refuse, AskSaved, ApproveSaved, DeclineSaved,
       AnswerFails, CallPaid, CallFailed, FinalizeSaved, ReleaseSaved, LedgerRow,
       LedgerRowFails, SaveFails, Enqueue, Leave
  <2>2. pc'[c] \notin {"saveCommit", "paying"}
    BY <1>1, <1>2 DEF Call, Refuse, AskSaved, ApproveSaved, DeclineSaved,
       AnswerFails, CallPaid, CallFailed, FinalizeSaved, ReleaseSaved, LedgerRow,
       LedgerRowFails, SaveFails, Enqueue, Leave
  <2> QED
    BY <2>1, <2>2, OneShotQuiet
<1>3. CASE AskUser(c)
  BY <1>1, <1>3, OneShotSave DEF AskUser, Turn, Session
<1>4. CASE Decline(c)
  BY <1>1, <1>4, OneShotSave, SavedType DEF Decline, WithDecline, Session, InLock
<1>5. CASE Finalize(c)
  <2> DEFINE s == WithCharge(mem, op, job[c].charge)
  <2>1. s.query = mem.query /\ s.approved = mem.approved
    BY <1>1 DEF WithCharge, Session
  <2>2. /\ Holds(c) /\ UNCHANGED <<disk, approvals, consumed>>
        /\ Save(c, s, "saveFinalize", [job[c] EXCEPT !.held = FALSE])
    BY <1>5 DEF Finalize, Turn
  <2> HIDE DEF s
  <2> QED
    BY <2>1, <2>2, OneShotSave
<1>6. CASE Release(c)
  BY <1>1, <1>6, OneShotSave DEF Release, Turn, WithRelease, Session
<1>7. CASE Approve(c)
  <2>1. PICK budget : Save(c, WithApproval(mem, budget), "saveApprove", job[c])
    BY <1>7 DEF Approve
  <2>2. Holds(c) /\ op \in Ops /\ mem.pending.op = op
    BY <1>7, SavedType DEF Approve, InLock, TypeInv, AskInv
  <2>3. mem'.query = mem.query /\ mem'.approved = mem.approved \cup {op}
        /\ snap' = mem' /\ UNCHANGED <<disk, consumed>>
    BY <1>1, <1>7, <2>1, <2>2 DEF Approve, Save, WithApproval, Session
  <2>4. approvals' = [approvals EXCEPT ![<<mem.query, op>>] = @ + 1]
    BY <1>7 DEF Approve
  <2>5. /\ approvals \in [Queries \X Ops -> Nat] /\ consumed \in [Queries \X Ops -> Nat]
        /\ <<mem.query, op>> \in Queries \X Ops
    BY <1>1, <2>2, QueryOp DEF TypeInv, TypeOK
  <2>6. /\ \A x \in Queries \X Ops : approvals[x] <= approvals'[x]
        /\ consumed[<<mem.query, op>>] < approvals'[<<mem.query, op>>]
    BY <2>4, <2>5 DEF OneShotInv
  <2>7. \A x \in Queries \X Ops : consumed'[x] <= approvals'[x]
    <3> TAKE x \in Queries \X Ops
    <3>1. consumed[x] \in Nat /\ approvals[x] \in Nat /\ consumed[x] <= approvals[x]
      BY <2>5 DEF OneShotInv
    <3>2. approvals'[x] = IF x = <<mem.query, op>> THEN approvals[x] + 1 ELSE approvals[x]
      BY <2>4, <2>5
    <3> QED
      BY <2>3, <3>1, <3>2
  <2>8. ASSUME NEW s \in Session, ViewOK(s)
        PROVE  \A o \in s.approved : consumed'[<<s.query, o>>] < approvals'[<<s.query, o>>]
    <3> TAKE o \in s.approved
    <3>1. <<s.query, o>> \in Queries \X Ops
      BY QueryOp DEF Session
    <3> QED
      BY <2>3, <2>4, <2>5, <2>6, <2>8, <3>1 DEF ViewOK
  <2>9. ViewOK(disk)' /\ ViewOK(mem)' /\ ViewOK(snap)'
    <3>1. ViewOK(disk)'
      BY <2>3, <2>8 DEF OneShotInv, TypeInv, TypeOK, ViewOK
    <3>2. ViewOK(mem)'
      BY <1>1, <2>3, <2>6, <2>8 DEF OneShotInv, ViewOK
    <3> QED
      BY <3>1, <3>2, <2>3 DEF ViewOK
  <2>10. \A d \in Callers : d # c => pc'[d] = pc[d] /\ job'[d] = job[d]
    BY <1>1, <2>1 DEF Save
  <2>11. \A d \in Callers : pc[d] = "saveCommit" => d = c
    BY <2>2 DEF TypeInv, LockInv, InLock, Saving, Holds
  <2>12. pc'[c] = "saveApprove"
    BY <1>1, <2>1 DEF Save
  <2> QED
    BY <2>3, <2>7, <2>9, <2>10, <2>11, <2>12 DEF OneShotInv
<1>8. CASE ReserveFreely(c)
  <2>1. Holds(c) /\ pc[c] # "idle" /\ Reserve(c)
    BY <1>8 DEF ReserveFreely, Turn
  <2>2. op \in mem.approved \/ mem.query = 0
        \/ (Amount[op] <= PerCall /\ ~job[c].force)
    <3>1. op \in Ops /\ Amount[op] \in Nat
      BY <1>1, <2>1
    <3> QED
      BY <1>8, <3>1 DEF ReserveFreely, Allowed, NeedsApproval
  <2> QED
    BY <2>1, <2>2, OneShotReserve
<1>9. CASE ReserveApproved(c)
  BY <1>9, OneShotReserve, SavedType DEF ReserveApproved, InLock, TypeInv, AskInv
<1>10. CASE ReserveSaved(c)
  <2>1. op \in Ops /\ UNCHANGED <<mem, snap, approvals>> /\ disk' = snap
    BY <1>1, <1>10 DEF ReserveSaved
  <2>2. pc'[c] = "paying" /\ job'[c] = [job[c] EXCEPT !.held = TRUE]
        /\ \A d \in Callers : d # c => pc'[d] = pc[d] /\ job'[d] = job[d]
    BY <1>1, <1>10 DEF ReserveSaved, Leave
  <2>3. job'[c].op = op /\ job'[c].byApproval = job[c].byApproval
        /\ job'[c].force = job[c].force
    BY <1>1, <2>2 DEF Job
  <2>4. \A d \in Callers : pc[d] = "saveCommit" => d = c
    BY <1>10 DEF ReserveSaved, TypeInv, LockInv, InLock, Saving, Holds
  <2>5. /\ approvals \in [Queries \X Ops -> Nat] /\ consumed \in [Queries \X Ops -> Nat]
        /\ <<mem.query, op>> \in Queries \X Ops
    BY <1>1, <2>1, QueryOp DEF TypeInv, TypeOK
  <2>6. /\ snap.query = mem.query /\ op \notin mem.approved \cup snap.approved
        /\ job[c].byApproval =>
             consumed[<<mem.query, op>>] < approvals[<<mem.query, op>>]
    BY <1>10 DEF ReserveSaved, OneShotInv
  <2>7. \A x \in Queries \X Ops :
          consumed'[x] = IF job[c].byApproval /\ x = <<mem.query, op>>
                         THEN consumed[x] + 1 ELSE consumed[x]
    BY <1>10, <2>5 DEF ReserveSaved
  <2>8. \A x \in Queries \X Ops : consumed'[x] <= approvals'[x]
    BY <2>1, <2>5, <2>6, <2>7 DEF OneShotInv
  <2>9. ASSUME NEW s \in {mem, snap}
        PROVE  \A o \in s.approved : consumed'[<<s.query, o>>] < approvals'[<<s.query, o>>]
    <3> TAKE o \in s.approved
    <3>1. s \in Session /\ ViewOK(s) /\ s.query = mem.query /\ o # op
      BY <1>1, <2>6 DEF OneShotInv, TypeInv, TypeOK
    <3>2. <<s.query, o>> \in Queries \X Ops
      BY <3>1, QueryOp DEF Session
    <3>3. consumed'[<<s.query, o>>] = consumed[<<s.query, o>>]
      BY <2>7, <3>1, <3>2
    <3> QED
      BY <2>1, <3>1, <3>3 DEF ViewOK
  <2>10. ViewOK(mem)' /\ ViewOK(disk)' /\ ViewOK(snap)'
    BY <2>1, <2>9 DEF ViewOK
  <2>11. \A d \in Callers : pc'[d] # "saveCommit"
    BY <2>2, <2>4
  <2>12. \A d \in Callers :
           pc'[d] \in {"saveCommit", "paying"} /\ mem'.query # 0 /\ ~job'[d].byApproval
             => Amount[job'[d].op] <= PerCall /\ ~job'[d].force
    BY <1>10, <2>1, <2>2, <2>3 DEF OneShotInv, ReserveSaved
  <2> QED
    BY <2>8, <2>10, <2>11, <2>12 DEF OneShotInv
<1> QED
  BY <1>2, <1>3, <1>4, <1>5, <1>6, <1>7, <1>8, <1>9, <1>10 DEF Step, Progress

LEMMA OneShotOutside ==
  ASSUME TypeInv, OneShotInv,
         \/ BeginQuery \/ ResumeDecline \/ Crash
         \/ \E cents \in Budgets : SetBudget(cents) \/ SetDefault(cents)
         \/ \E budget \in Budgets \cup {0} : ResumeApprove(budget)
  PROVE  OneShotInv'
<1> USE DEF history, procs
<1>1. mem \in Session
  BY DEF TypeInv, TypeOK
<1>2. ASSUME NEW s, Between(s), NoCaller, ViewOK(snap)',
             \A o \in s.approved :
               consumed'[<<s.query, o>>] < approvals'[<<s.query, o>>],
             \A x \in Queries \X Ops : consumed'[x] <= approvals'[x]
      PROVE  OneShotInv'
  <2>1. mem' = s /\ disk' = s /\ snap' = snap /\ pc' = pc
        /\ \A d \in Callers : pc[d] = "idle"
    BY <1>2 DEF Between, NoCaller, AllIdle
  <2>2. ViewOK(mem)' /\ ViewOK(disk)'
    BY <1>2, <2>1 DEF ViewOK
  <2> QED
    BY <1>2, <2>1, <2>2 DEF OneShotInv
<1>3. ASSUME NEW s, Between(s), NoCaller, UNCHANGED <<approvals, consumed>>,
             s.approved = {} \/ (s.query = mem.query /\ s.approved = mem.approved)
      PROVE  OneShotInv'
  BY <1>2, <1>3 DEF OneShotInv, ViewOK, NoCaller
<1>4. CASE BeginQuery
  BY <1>1, <1>3, <1>4 DEF BeginQuery, NewQuery, Session
<1>5. CASE ResumeDecline
  BY <1>1, <1>3, <1>5 DEF ResumeDecline, WithDecline, Session
<1>6. ASSUME NEW cents \in Budgets, SetBudget(cents) \/ SetDefault(cents)
      PROVE  OneShotInv'
  <2>1. /\ [mem EXCEPT !.budget = cents].approved = mem.approved
        /\ [mem EXCEPT !.budget = cents].query = mem.query
        /\ [mem EXCEPT !.limit = cents].approved = mem.approved
        /\ [mem EXCEPT !.limit = cents].query = mem.query
    BY <1>1 DEF Session
  <2> QED
    BY <1>3, <1>6, <2>1 DEF SetBudget, SetDefault
<1>7. CASE Crash
  BY <1>7 DEF Crash, OneShotInv, ViewOK
<1>8. ASSUME NEW budget \in Budgets \cup {0}, ResumeApprove(budget)
      PROVE  OneShotInv'
  <2> DEFINE op == mem.pending.op
             s  == WithApproval(mem, budget)
  <2>1. op \in Ops /\ <<mem.query, op>> \in Queries \X Ops
    BY <1>1, <1>8, QueryOp DEF ResumeApprove, Session, Pending
  <2>2. s.query = mem.query /\ s.approved = mem.approved \cup {op}
    BY <1>1 DEF WithApproval, Session
  <2>3. /\ approvals \in [Queries \X Ops -> Nat] /\ consumed \in [Queries \X Ops -> Nat]
        /\ approvals' = [approvals EXCEPT ![<<mem.query, op>>] = @ + 1]
        /\ consumed' = consumed /\ snap' = snap
    BY <1>8 DEF ResumeApprove, NoCaller, TypeInv, TypeOK
  <2>4. /\ \A x \in Queries \X Ops : approvals[x] <= approvals'[x]
        /\ consumed[<<mem.query, op>>] < approvals'[<<mem.query, op>>]
    BY <2>1, <2>3 DEF OneShotInv
  <2>5. \A x \in Queries \X Ops : consumed'[x] <= approvals'[x]
    BY <2>1, <2>3, <2>4 DEF OneShotInv
  <2>6. ASSUME NEW v \in Session, ViewOK(v), NEW o \in v.approved
        PROVE  consumed'[<<v.query, o>>] < approvals'[<<v.query, o>>]
    <3>1. <<v.query, o>> \in Queries \X Ops
      BY QueryOp DEF Session
    <3> QED
      BY <2>1, <2>3, <2>4, <2>6, <3>1 DEF ViewOK
  <2>7. ViewOK(snap)'
    BY <2>3, <2>6 DEF OneShotInv, ViewOK, TypeInv, TypeOK
  <2>8. \A o \in s.approved : consumed'[<<s.query, o>>] < approvals'[<<s.query, o>>]
    BY <1>1, <2>2, <2>3, <2>4, <2>6 DEF OneShotInv
  <2>9. Between(s) /\ NoCaller
    BY <1>8 DEF ResumeApprove
  <2> HIDE DEF s
  <2> QED
    BY <1>2, <2>5, <2>7, <2>8, <2>9
<1> QED
  BY <1>4, <1>5, <1>6, <1>7, <1>8

\* An approval pays for one reservation of the operation the user was shown, in
\* its query, whatever crashes and failed saves come in between.
THEOREM ApprovalsAreOneShot == Spec => []OneShotApproval
<1>1. TypeInv /\ OneShotInv /\ [Next]_vars => (TypeInv /\ OneShotInv)'
  <2>1. ASSUME TypeInv, OneShotInv, UNCHANGED vars PROVE OneShotInv'
    BY <2>1, OneShotQuiet DEF vars, procs, history
  <2>2. TypeInv /\ [Next]_vars => TypeInv'
    BY NextType DEF NextWithToggles
  <2> QED
    BY <2>1, <2>2, OneShotStep, OneShotOutside DEF Next
<1>2. OneShotInv => OneShotApproval
  BY DEF OneShotInv, OneShotApproval
<1> QED
  BY InitType, OneShotInit, <1>1, <1>2, PTL DEF Spec

-----------------------------------------------------------------------------
(***************************************************************************)
(* The money: charges on disk, the reserved total, the spending ceiling.   *)
(***************************************************************************)
\* No acknowledged charge is missing in memory, on disk or in a text to write.
DurableInv ==
  /\ \A s \in {mem, disk, snap} : acked <= s.spent
  /\ \A c \in Callers : pc[c] = "saveFinalize" =>
       acked + job[c].charge <= mem.spent /\ acked + job[c].charge <= snap.spent

\* What the lock holder saves has at least the charges that mem has.
LEMMA DurableSave ==
  ASSUME TypeInv, DurableInv, NEW c \in Callers, Holds(c), NEW s, NEW stage, NEW j,
         Save(c, s, stage, j), mem.spent <= s.spent, s.spent \in Nat,
         stage = "saveFinalize" => acked + j.charge <= s.spent,
         UNCHANGED <<disk, acked>>
  PROVE  DurableInv'
<1>1. mem.spent \in Nat /\ acked \in Nat
  BY DEF TypeInv, TypeOK, Session
<1>2. \A d \in Callers : d # c => pc'[d] = pc[d] /\ pc[d] # "saveFinalize"
  BY DEF Save, TypeInv, TypeOK, LockInv, InLock, Saving, Holds
<1>3. pc'[c] = stage /\ job'[c] = j /\ mem' = s /\ snap' = s
  BY DEF Save, TypeInv, TypeOK
<1> QED
  BY <1>1, <1>2, <1>3 DEF DurableInv

\* Nothing new is in memory, and nobody starts to save a charge.
LEMMA DurableQuiet ==
  ASSUME DurableInv, UNCHANGED <<mem, snap, acked>>, disk' \in {disk, snap},
         \A d \in Callers : pc'[d] = "saveFinalize" =>
                              pc[d] = "saveFinalize" /\ job'[d] = job[d]
  PROVE  DurableInv'
BY DEF DurableInv

LEMMA DurableStep ==
  ASSUME TypeInv, DurableInv, NEW c \in Callers, Step(c)
  PROVE  DurableInv'
<1> DEFINE op == job[c].op
<1> USE DEF history
<1>1. mem \in Session /\ job[c] \in Job /\ pc \in [Callers -> PCs]
      /\ job \in [Callers -> Job] /\ (pc[c] # "idle" => op \in Ops)
      /\ mem.spent \in Nat /\ acked \in Nat /\ acked <= mem.spent
  BY DEF TypeInv, TypeOK, AskInv, Session, DurableInv
<1>2. CASE \/ Call(c) \/ Refuse(c) \/ AskSaved(c) \/ ApproveSaved(c)
           \/ DeclineSaved(c) \/ AnswerFails(c) \/ CallPaid(c) \/ CallFailed(c)
           \/ ReserveSaved(c) \/ ReleaseSaved(c) \/ LedgerRow(c)
           \/ LedgerRowFails(c) \/ SaveFails(c)
  <2>1. /\ UNCHANGED <<mem, snap, acked>>
        /\ disk' \in {disk, snap}
        /\ \A d \in Callers : d # c => pc'[d] = pc[d] /\ job'[d] = job[d]
    BY <1>1, <1>2 DEF Call, Refuse, AskSaved, ApproveSaved, DeclineSaved,
       AnswerFails, CallPaid, CallFailed, ReserveSaved, ReleaseSaved, LedgerRow,
       LedgerRowFails, SaveFails, Enqueue, Leave
  <2>2. pc'[c] # "saveFinalize"
    BY <1>1, <1>2 DEF Call, Refuse, AskSaved, ApproveSaved, DeclineSaved,
       AnswerFails, CallPaid, CallFailed, ReserveSaved, ReleaseSaved, LedgerRow,
       LedgerRowFails, SaveFails, Enqueue, Leave
  <2> QED
    BY <2>1, <2>2, DurableQuiet
<1>3. CASE AskUser(c)
  BY <1>1, <1>3, DurableSave DEF AskUser, Turn, Session
<1>4. CASE Approve(c)
  <2>1. PICK budget : Save(c, WithApproval(mem, budget), "saveApprove", job[c])
    BY <1>4 DEF Approve
  <2>2. WithApproval(mem, budget).spent = mem.spent
    BY <1>1 DEF WithApproval, Session
  <2> QED
    BY <1>1, <1>4, <2>1, <2>2, DurableSave, SavedType DEF Approve, InLock
<1>5. CASE Decline(c)
  BY <1>1, <1>5, DurableSave, SavedType DEF Decline, WithDecline, Session, InLock
<1>6. ASSUME Reserve(c), Holds(c) PROVE DurableInv'
  <2>1. WithReservation(mem, op).spent = mem.spent
    BY <1>1 DEF WithReservation, Session
  <2> QED
    BY <1>1, <1>6, <2>1, DurableSave DEF Reserve
<1>7. CASE Finalize(c)
  <2> DEFINE s == WithCharge(mem, op, job[c].charge)
             j == [job[c] EXCEPT !.held = FALSE]
  <2>1. s.spent = mem.spent + job[c].charge /\ job[c].charge \in Nat
        /\ j.charge = job[c].charge
    BY <1>1 DEF WithCharge, Session, Job
  <2>2. Save(c, s, "saveFinalize", j) /\ Holds(c) /\ UNCHANGED <<disk, acked>>
    BY <1>7 DEF Finalize, Turn
  <2> HIDE DEF s, j
  <2> QED
    BY <1>1, <2>1, <2>2, DurableSave
<1>8. CASE FinalizeSaved(c)
  <2>1. /\ UNCHANGED <<mem, snap>> /\ disk' = snap
        /\ acked' = acked + job[c].charge
        /\ pc'[c] # "saveFinalize"
        /\ \A d \in Callers : d # c => pc'[d] = pc[d]
    BY <1>1, <1>8 DEF FinalizeSaved, Leave
  <2>2. \A d \in Callers : pc'[d] # "saveFinalize"
    BY <1>8, <2>1 DEF FinalizeSaved, TypeInv, LockInv, InLock, Saving, Holds
  <2> QED
    BY <1>8, <2>1, <2>2 DEF FinalizeSaved, DurableInv
<1>9. CASE Release(c)
  <2>1. WithRelease(mem, op).spent = mem.spent
    BY <1>1 DEF WithRelease, Session
  <2> QED
    BY <1>1, <1>9, <2>1, DurableSave DEF Release, Turn
<1> QED
  BY <1>2, <1>3, <1>4, <1>5, <1>6, <1>7, <1>8, <1>9, SavedType
  DEF Step, Progress, ReserveFreely, ReserveApproved, Turn, InLock

LEMMA DurableOutside ==
  ASSUME TypeInv, DurableInv,
         \/ BeginQuery \/ ResumeDecline \/ Crash
         \/ \E cents \in Budgets : SetBudget(cents) \/ SetDefault(cents)
         \/ \E budget \in Budgets \cup {0} : ResumeApprove(budget)
  PROVE  DurableInv'
<1>1. mem \in Session
  BY DEF TypeInv, TypeOK
<1>2. CASE Crash
  BY <1>2 DEF Crash, history, DurableInv
<1>3. CASE ~Crash
  <2>1. /\ mem' = disk' /\ mem'.spent = mem.spent /\ snap' = snap /\ acked' = acked
        /\ pc' = pc /\ AllIdle
    BY <1>1, <1>3 DEF BeginQuery, ResumeDecline, SetBudget, SetDefault,
       ResumeApprove, Between, NoCaller, NewQuery, WithDecline, WithApproval,
       procs, history, Session
  <2> QED
    BY <2>1 DEF AllIdle, DurableInv
<1> QED
  BY <1>2, <1>3

\* A charge whose finalizeReservation returned is in session.json for good:
\* after crashes and failed saves too (as long as no save bypasses the lock).
THEOREM ChargesAreDurable == Spec => []FinalizedIsDurable
<1>1. TypeInv /\ DurableInv /\ [Next]_vars => (TypeInv /\ DurableInv)'
  <2>1. ASSUME DurableInv, UNCHANGED vars PROVE DurableInv'
    BY <2>1 DEF vars, procs, history, DurableInv
  <2>2. TypeInv /\ [Next]_vars => TypeInv'
    BY NextType DEF NextWithToggles
  <2> QED
    BY <2>1, <2>2, DurableStep, DurableOutside DEF Next
<1>2. Init => DurableInv
  BY DEF Init, DurableInv
<1>3. DurableInv => FinalizedIsDurable
  BY DEF DurableInv, FinalizedIsDurable
<1> QED
  BY InitType, <1>1, <1>2, <1>3, PTL DEF Spec

-----------------------------------------------------------------------------
\* A block of n units of one caller adds n to what the others hold.
LEMMA BlockCardinality ==
  ASSUME NEW T, IsFiniteSet(T), NEW c, NEW n \in Nat, \A i : <<c, i>> \notin T
  PROVE  /\ IsFiniteSet(T \cup ({c} \X (1..n)))
         /\ Cardinality(T \cup ({c} \X (1..n))) = Cardinality(T) + n
<1> DEFINE B == {c} \X (1..n)
           f == [i \in 1..n |-> <<c, i>>]
<1>1. IsFiniteSet(1..n) /\ Cardinality(1..n) = n
  <2>1. /\ IsFiniteSet(1..n)
        /\ Cardinality(1..n) = IF 1 > n THEN 0 ELSE n - 1 + 1
    BY 1 \in Int, n \in Int, FS_Interval
  <2> QED
    BY <2>1
<1>2. f \in Bijection(1..n, B)
  <2>1. f \in [1..n -> B]
    OBVIOUS
  <2>2. \A i, k \in 1..n : f[i] = f[k] => i = k
    OBVIOUS
  <2>3. \A b \in B : \E i \in 1..n : f[i] = b
    <3> TAKE b \in B
    <3>1. PICK i \in 1..n : b = <<c, i>>
      OBVIOUS
    <3> QED
      BY <3>1
  <2> HIDE DEF f, B
  <2>4. f \in Injection(1..n, B) /\ f \in Surjection(1..n, B)
    BY <2>1, <2>2, <2>3 DEF Injection, IsInjective, Surjection
  <2> QED
    BY <2>4 DEF Bijection
<1>3. IsFiniteSet(B) /\ Cardinality(B) = n
  BY <1>1, <1>2, FS_Bijection DEF ExistsBijection
<1>4. T \cap B = {}
  OBVIOUS
<1>5. Cardinality(T \cap B) = 0
  BY <1>4, FS_EmptySet
<1>6. Cardinality(T) \in Nat
  BY FS_CardinalityType
<1>7. /\ IsFiniteSet(T \cup B)
      /\ Cardinality(T \cup B) = Cardinality(T) + Cardinality(B) - Cardinality(T \cap B)
  BY <1>3, FS_Union
<1> QED
  BY <1>3, <1>5, <1>6, <1>7

\* A caller holds its reservation while it pays and until its finalize or
\* release runs, and only then.
HeldInv == \A c \in Callers :
  job[c].held <=> \/ pc[c] = "paying"
                  \/ pc[c] = "queued" /\ job[c].kind \in {"finalize", "release"}

\* Who has a claim on the reserved total: the holders, and the caller whose
\* reservation is in memory and being saved.
Claims == {c \in Callers : job[c].held \/ pc[c] = "saveCommit"}

CoverInv ==
  /\ left.faults = 0
  /\ HeldInv
  /\ IsFiniteSet(Units(Claims)) /\ Cardinality(Units(Claims)) <= mem.reserved

\* The claims stay what they are.
LEMMA CoverQuiet ==
  ASSUME TypeInv, CoverInv, HeldInv', left'.faults = left.faults,
         mem'.reserved = mem.reserved,
         \A d \in Callers : (d \in Claims)' <=> d \in Claims,
         \A d \in Claims : job'[d].op = job[d].op
  PROVE  CoverInv'
<1>1. Claims' = Claims
  BY DEF Claims
<1>2. \A d \in Claims : ({d} \X (1..Amount[job[d].op]))' = {d} \X (1..Amount[job[d].op])
  OBVIOUS
<1>3. Units(Claims)' = Units(Claims)
  BY <1>1, <1>2 DEF Units
<1> QED
  BY <1>3 DEF CoverInv

\* One more claim, and as much more reserved.
LEMMA CoverReserve ==
  ASSUME TypeInv, CoverInv, NEW c \in Callers, Holds(c), pc[c] # "idle",
         ~job[c].held, pc[c] # "saveCommit", Reserve(c)
  PROVE  CoverInv'
<1> DEFINE op == job[c].op
<1>1. /\ mem \in Session /\ job[c] \in Job /\ op \in Ops /\ Amount[op] \in Nat
      /\ pc \in [Callers -> PCs] /\ job \in [Callers -> Job]
  BY DEF TypeInv, TypeOK, AskInv
<1>2. /\ pc' = [pc EXCEPT ![c] = "saveCommit"]
      /\ job' = [job EXCEPT ![c] = [job[c] EXCEPT !.byApproval = op \in mem.approved]]
      /\ mem' = WithReservation(mem, op) /\ left' = left
  BY DEF Reserve, Save
<1>3. job'[c].op = op /\ job'[c].held = FALSE
  BY <1>1, <1>2 DEF Job
<1>4. \A d \in Callers : d # c => pc'[d] = pc[d] /\ job'[d] = job[d]
  BY <1>1, <1>2
<1>5. Claims' = Claims \cup {c} /\ c \notin Claims
  BY <1>1, <1>2, <1>3, <1>4 DEF Claims
<1>6. Units(Claims)' = Units(Claims) \cup ({c} \X (1..Amount[op]))
  <2>1. \A d \in Claims : job'[d].op = job[d].op
    BY <1>4, <1>5 DEF Claims
  <2> QED
    BY <1>3, <1>5, <2>1 DEF Units
<1>7. \A i : <<c, i>> \notin Units(Claims)
  BY <1>5 DEF Units
<1>8. /\ IsFiniteSet(Units(Claims)')
      /\ Cardinality(Units(Claims)') = Cardinality(Units(Claims)) + Amount[op]
  <2> DEFINE U == Units(Claims)
             n == Amount[op]
  <2>1. IsFiniteSet(U) /\ n \in Nat /\ \A i : <<c, i>> \notin U
    BY <1>1, <1>7 DEF CoverInv
  <2> HIDE DEF U, n
  <2>2. /\ IsFiniteSet(U \cup ({c} \X (1..n)))
        /\ Cardinality(U \cup ({c} \X (1..n))) = Cardinality(U) + n
    BY <2>1, BlockCardinality
  <2> QED
    BY <1>6, <2>2 DEF U, n
<1>9. mem'.reserved = mem.reserved + Amount[op]
  BY <1>1, <1>2 DEF WithReservation, Session
<1>10. HeldInv'
  BY <1>2, <1>1, <1>3, <1>4 DEF CoverInv, HeldInv
<1>11. Cardinality(Units(Claims)) \in Nat /\ mem.reserved \in Nat
  BY <1>1, FS_CardinalityType DEF CoverInv, Session
<1> QED
  <2>1. IsFiniteSet(Units(Claims)') /\ Cardinality(Units(Claims)') <= mem'.reserved
    BY <1>1, <1>8, <1>9, <1>11 DEF CoverInv
  <2>2. left'.faults = 0
    BY <1>2 DEF CoverInv
  <2> QED
    BY <1>10, <2>1, <2>2 DEF CoverInv

\* A reservation that is given back was covered, so the total falls by it.
LEMMA CoverGiveBack ==
  ASSUME TypeInv, CoverInv, NEW c \in Callers, pc[c] = "queued", job[c].held,
         NEW stage \in {"saveFinalize", "saveRelease"},
         pc' = [pc EXCEPT ![c] = stage],
         job' = [job EXCEPT ![c] = [job[c] EXCEPT !.held = FALSE]],
         mem'.reserved = Less(mem.reserved, Amount[job[c].op]), left' = left
  PROVE  CoverInv' /\ Amount[job[c].op] <= mem.reserved
<1> DEFINE op == job[c].op
<1>1. /\ mem \in Session /\ job[c] \in Job /\ op \in Ops /\ Amount[op] \in Nat
      /\ pc \in [Callers -> PCs] /\ job \in [Callers -> Job] /\ mem.reserved \in Nat
  BY DEF TypeInv, TypeOK, AskInv, Session
<1>2. job'[c].held = FALSE /\ pc'[c] = stage
  BY <1>1 DEF Job
<1>3. \A d \in Callers : d # c => pc'[d] = pc[d] /\ job'[d] = job[d]
  BY <1>1
<1>4. Claims' = Claims \ {c} /\ c \in Claims
  BY <1>1, <1>2, <1>3 DEF Claims
<1>5. Units(Claims) = Units(Claims)' \cup ({c} \X (1..Amount[op]))
  <2>1. \A d \in Claims' : job'[d].op = job[d].op
    BY <1>3, <1>4 DEF Claims
  <2> QED
    BY <1>4, <2>1 DEF Units
<1>6. \A i : <<c, i>> \notin Units(Claims)'
  BY <1>4 DEF Units
<1>7. IsFiniteSet(Units(Claims)')
  <2>1. Units(Claims)' \in SUBSET Units(Claims)
    BY <1>5
  <2> QED
    BY <2>1, FS_Subset DEF CoverInv
<1>8. Cardinality(Units(Claims)) = Cardinality(Units(Claims)') + Amount[op]
  <2> DEFINE U == Units(Claims)'
             n == Amount[op]
  <2>1. IsFiniteSet(U) /\ n \in Nat /\ \A i : <<c, i>> \notin U
    BY <1>1, <1>6, <1>7
  <2> HIDE DEF U, n
  <2>2. Cardinality(U \cup ({c} \X (1..n))) = Cardinality(U) + n
    BY <2>1, BlockCardinality
  <2> QED
    BY <1>5, <2>2 DEF U, n
<1>9. Cardinality(Units(Claims)') \in Nat
  BY <1>7, FS_CardinalityType
<1>10. HeldInv'
  BY <1>1, <1>2, <1>3 DEF CoverInv, HeldInv
<1>11. Amount[op] <= mem.reserved
  BY <1>1, <1>8, <1>9 DEF CoverInv
<1>12. mem'.reserved = mem.reserved - Amount[op]
  BY <1>1, <1>11 DEF Less
<1> QED
  BY <1>1, <1>7, <1>8, <1>9, <1>10, <1>11, <1>12 DEF CoverInv

LEMMA CoverStep ==
  ASSUME TypeInv, CoverInv, NEW c \in Callers, Step(c)
  PROVE  CoverInv'
<1> DEFINE op == job[c].op
<1> USE DEF history
<1>1. /\ mem \in Session /\ job[c] \in Job /\ mem.reserved \in Nat
      /\ pc \in [Callers -> PCs] /\ job \in [Callers -> Job] /\ left \in Bounds
      /\ pc[c] # "idle" => op \in Ops
      /\ left.faults = 0
      /\ job[c].held <=> \/ pc[c] = "paying"
                         \/ pc[c] = "queued" /\ job[c].kind \in {"finalize", "release"}
  BY DEF TypeInv, TypeOK, AskInv, CoverInv, HeldInv, Session
<1>2. ~LedgerRowFails(c) /\ ~SaveFails(c)
  BY <1>1 DEF LedgerRowFails, SaveFails, Spend
<1>3. ASSUME \A d \in Callers : d # c => pc'[d] = pc[d] /\ job'[d] = job[d],
             left'.faults = left.faults, mem'.reserved = mem.reserved,
             job'[c].held <=> \/ pc'[c] = "paying"
                              \/ pc'[c] = "queued" /\ job'[c].kind \in {"finalize", "release"},
             (job'[c].held \/ pc'[c] = "saveCommit") <=> (job[c].held \/ pc[c] = "saveCommit"),
             (job[c].held \/ pc[c] = "saveCommit") => job'[c].op = op
      PROVE  CoverInv'
  <2>1. HeldInv'
    BY <1>3 DEF CoverInv, HeldInv
  <2>2. \A d \in Callers : (d \in Claims)' <=> d \in Claims
    BY <1>3 DEF Claims
  <2>3. \A d \in Claims : job'[d].op = job[d].op
    BY <1>3 DEF Claims
  <2> QED
    BY <1>3, <2>1, <2>2, <2>3, CoverQuiet
<1>4. CASE Call(c)
  <2>1. PICK o \in Ops, force \in BOOLEAN :
          Enqueue(c, [NoJob EXCEPT !.kind = "reserve", !.op = o, !.force = force])
    BY <1>4 DEF Call
  <2>2. [NoJob EXCEPT !.kind = "reserve", !.op = o, !.force = force].held = FALSE
        /\ [NoJob EXCEPT !.kind = "reserve", !.op = o, !.force = force].kind = "reserve"
    BY DEF NoJob
  <2>3. left'.faults = left.faults /\ mem' = mem /\ pc[c] = "idle"
    BY <1>1, <1>4 DEF Call, Spend, Bounds
  <2> QED
    BY <1>1, <1>3, <2>1, <2>2, <2>3 DEF Enqueue
<1>5. CASE Refuse(c) \/ DeclineSaved(c) \/ AnswerFails(c) \/ ReleaseSaved(c)
  <2>1. /\ pc' = [pc EXCEPT ![c] = "idle"] /\ job' = [job EXCEPT ![c] = NoJob]
        /\ left' = left /\ mem' = mem /\ NoJob.held = FALSE
        /\ ~job[c].held /\ pc[c] # "saveCommit"
    BY <1>1, <1>5 DEF Refuse, DeclineSaved, AnswerFails, ReleaseSaved, Leave, Turn,
       NoJob
  <2> QED
    BY <1>1, <1>3, <2>1
<1>6. CASE LedgerRow(c)
  <2>1. /\ pc' = [pc EXCEPT ![c] = "idle"] /\ job' = [job EXCEPT ![c] = NoJob]
        /\ left' = left /\ mem' = mem /\ NoJob.held = FALSE
        /\ ~job[c].held /\ pc[c] # "saveCommit"
    BY <1>1, <1>6 DEF LedgerRow, NoJob
  <2> QED
    BY <1>1, <1>3, <2>1
<1>7. CASE AskSaved(c)
  <2>1. CASE interactive
    BY <1>1, <1>3, <1>7, <2>1 DEF AskSaved
  <2>2. CASE ~interactive
    <3>1. /\ pc' = [pc EXCEPT ![c] = "idle"] /\ job' = [job EXCEPT ![c] = NoJob]
          /\ left' = left /\ mem' = mem /\ NoJob.held = FALSE
          /\ ~job[c].held /\ pc[c] # "saveCommit"
      BY <1>1, <1>7, <2>2 DEF AskSaved, Leave, NoJob
    <3> QED
      BY <1>1, <1>3, <3>1
  <2> QED
    BY <2>1, <2>2
<1>8. CASE AskUser(c) \/ Approve(c) \/ Decline(c)
  <2>1. PICK stage \in {"saveAsk", "saveApprove", "saveDecline"} :
          pc' = [pc EXCEPT ![c] = stage] /\ job' = [job EXCEPT ![c] = job[c]]
    BY <1>8 DEF AskUser, Approve, Decline, Save
  <2>2. left' = left /\ ~job[c].held /\ pc[c] # "saveCommit"
    BY <1>1, <1>8 DEF AskUser, Approve, Decline, Turn
  <2>3. mem'.reserved = mem.reserved
    BY <1>1, <1>8 DEF AskUser, Approve, Decline, Save, WithApproval, WithDecline,
       Session
  <2> QED
    BY <1>1, <1>3, <2>1, <2>2, <2>3
<1>9. CASE ApproveSaved(c)
  BY <1>1, <1>3, <1>9 DEF ApproveSaved
<1>10. CASE ReserveSaved(c)
  <2>1. /\ pc' = [pc EXCEPT ![c] = "paying"] /\ left' = left /\ mem' = mem
        /\ job' = [job EXCEPT ![c] = [job[c] EXCEPT !.held = TRUE]]
        /\ pc[c] = "saveCommit"
    BY <1>10 DEF ReserveSaved, Leave
  <2>2. job'[c].held = TRUE /\ job'[c].op = op
    BY <1>1, <2>1 DEF Job
  <2> QED
    BY <1>1, <1>3, <2>1, <2>2
<1>11. CASE CallPaid(c)
  <2>1. PICK charge \in Charges :
          Enqueue(c, [job[c] EXCEPT !.kind = "finalize", !.charge = charge])
    BY <1>11 DEF CallPaid
  <2> DEFINE j == [job[c] EXCEPT !.kind = "finalize", !.charge = charge]
  <2>2. j.kind = "finalize" /\ j.held = job[c].held /\ j.op = op
    BY <1>1 DEF Job
  <2>3. /\ pc' = [pc EXCEPT ![c] = "queued"] /\ job' = [job EXCEPT ![c] = j]
        /\ pc[c] = "paying" /\ left' = left /\ mem' = mem
    BY <1>11, <2>1 DEF CallPaid, Enqueue
  <2> HIDE DEF j
  <2> QED
    BY <1>1, <1>3, <2>2, <2>3
<1>12. CASE CallFailed(c)
  <2> DEFINE j == [job[c] EXCEPT !.kind = "release"]
  <2>1. j.kind = "release" /\ j.held = job[c].held /\ j.op = op
    BY <1>1 DEF Job
  <2>2. /\ pc' = [pc EXCEPT ![c] = "queued"] /\ job' = [job EXCEPT ![c] = j]
        /\ pc[c] = "paying" /\ left' = left /\ mem' = mem
    BY <1>12 DEF CallFailed, Enqueue
  <2> HIDE DEF j
  <2> QED
    BY <1>1, <1>3, <2>1, <2>2
<1>13. CASE FinalizeSaved(c)
  <2>1. /\ pc' = [pc EXCEPT ![c] = "booked"] /\ job' = [job EXCEPT ![c] = job[c]]
        /\ left' = left /\ mem' = mem /\ pc[c] = "saveFinalize"
    BY <1>13 DEF FinalizeSaved, Leave
  <2> QED
    BY <1>1, <1>3, <2>1
<1>14. CASE ReserveFreely(c)
  BY <1>1, <1>14, CoverReserve DEF ReserveFreely, Turn
<1>15. CASE ReserveApproved(c)
  BY <1>1, <1>15, CoverReserve, SavedType DEF ReserveApproved, InLock
<1>16. CASE Finalize(c)
  <2>1. WithCharge(mem, op, job[c].charge).reserved = Less(mem.reserved, Amount[op])
    BY <1>1 DEF WithCharge, Session
  <2> QED
    BY <1>1, <1>16, <2>1, CoverGiveBack DEF Finalize, Save, Turn
<1>17. CASE Release(c)
  <2>1. WithRelease(mem, op).reserved = Less(mem.reserved, Amount[op])
    BY <1>1 DEF WithRelease, Session
  <2> QED
    BY <1>1, <1>17, <2>1, CoverGiveBack DEF Release, Save, Turn
<1> QED
  BY <1>2, <1>4, <1>5, <1>6, <1>7, <1>8, <1>9, <1>10, <1>11, <1>12, <1>13, <1>14,
     <1>15, <1>16, <1>17 DEF Step, Progress

LEMMA CoverOutside ==
  ASSUME TypeInv, CoverInv,
         \/ BeginQuery \/ ResumeDecline \/ Crash \/ ToggleMode
         \/ \E s \in toggles : ToggleSaved(s)
         \/ \E cents \in Budgets : SetBudget(cents) \/ SetDefault(cents)
         \/ \E budget \in Budgets \cup {0} : ResumeApprove(budget)
  PROVE  CoverInv'
<1> USE DEF history, procs
<1>1. mem \in Session /\ left \in Bounds
  BY DEF TypeInv, TypeOK
<1>2. CASE Crash
  <2>1. pc' = [c \in Callers |-> "idle"] /\ job' = [c \in Callers |-> NoJob]
        /\ NoJob.held = FALSE /\ left'.faults = 0
    BY <1>1, <1>2 DEF Crash, NoJob, Spend, Bounds, CoverInv
  <2>2. HeldInv' /\ Claims' = {}
    BY <2>1 DEF HeldInv, Claims
  <2>3. Units(Claims)' = {}
    BY <2>2 DEF Units
  <2>4. mem'.reserved \in Nat
    BY <1>2 DEF Crash, TypeInv, TypeOK, Session
  <2> QED
    BY <2>1, <2>2, <2>3, <2>4, FS_EmptySet DEF CoverInv
<1>3. CASE ~Crash
  <2>1. left'.faults = left.faults
    BY <1>1, <1>3 DEF BeginQuery, ResumeDecline, ToggleMode, ToggleSaved, SetBudget,
       SetDefault, ResumeApprove, NoCaller, Spend, Bounds
  <2>2. pc' = pc /\ job' = job
    BY <1>3 DEF BeginQuery, ResumeDecline, ToggleMode, ToggleSaved, SetBudget,
       SetDefault, ResumeApprove, NoCaller
  <2>3. mem'.reserved = mem.reserved
    BY <1>1, <1>3 DEF BeginQuery, ResumeDecline, ToggleMode, ToggleSaved, SetBudget,
       SetDefault, ResumeApprove, Between, NewQuery, WithDecline, WithApproval,
       Session
  <2> QED
    BY <2>1, <2>2, <2>3, CoverQuiet DEF CoverInv, HeldInv, Claims
<1> QED
  BY <1>2, <1>3

LEMMA CoverInit == ASSUME Bound.faults = 0, Init PROVE CoverInv
<1>1. Claims = {} /\ HeldInv
  BY DEF Init, Claims, HeldInv, NoJob
<1>2. Units(Claims) = {}
  BY <1>1 DEF Units
<1> QED
  <2>1. mem.reserved = 0 /\ left.faults = 0
    BY DEF Init
  <2>2. IsFiniteSet(Units(Claims)) /\ Cardinality(Units(Claims)) = 0
    BY <1>2, FS_EmptySet
  <2> QED
    BY <1>1, <2>1, <2>2 DEF CoverInv

LEMMA CoverNext ==
  ASSUME TypeInv, CoverInv, [NextWithToggles]_vars PROVE CoverInv'
<1>1. CASE UNCHANGED vars
  BY <1>1, CoverQuiet DEF vars, procs, history, CoverInv, HeldInv, Claims
<1> QED
  BY <1>1, CoverStep, CoverOutside DEF NextWithToggles, Next

-----------------------------------------------------------------------------
\* The ceiling, for every copy of the session that may ever become the current
\* one: the file, the text being written and those of late unlocked saves.
CeilingInv == \A s \in {mem, disk, snap} \cup toggles : WithinCeiling(s)

ExtraGrows == \A q \in Queries : extra[q] <= extra'[q]

\* A copy that was within its ceiling stays within it.
LEMMA CeilingFrame ==
  ASSUME TypeInv, TypeInv', CeilingInv, ExtraGrows,
         \A s \in {mem', disk', snap'} \cup toggles' :
            s \in {mem, disk, snap} \cup toggles
              \/ Committed(s) <= LimitOf(s) + extra'[s.query]
  PROVE  CeilingInv'
<1> SUFFICES ASSUME NEW s \in ({mem, disk, snap} \cup toggles)'
             PROVE  Committed(s) <= LimitOf(s) + extra'[s.query]
  BY DEF CeilingInv, WithinCeiling
<1>1. CASE s \in {mem, disk, snap} \cup toggles
  <2>1. s \in Session /\ s.start <= s.spent /\ s.query \in Queries
    BY <1>1 DEF TypeInv, TypeOK, Session
  <2>2. Committed(s) \in Nat /\ LimitOf(s) \in Nat
    BY <2>1 DEF Committed, LimitOf, Session
  <2>3. extra[s.query] \in Nat /\ extra'[s.query] \in Nat
        /\ extra[s.query] <= extra'[s.query]
    BY <2>1 DEF TypeInv, TypeOK, ExtraGrows
  <2>4. Committed(s) <= LimitOf(s) + extra[s.query]
    BY <1>1 DEF CeilingInv, WithinCeiling
  <2> QED
    BY <2>2, <2>3, <2>4
<1> QED
  BY <1>1

\* The lock holder saves a session that is within the ceiling.
LEMMA CeilingSave ==
  ASSUME TypeInv, TypeInv', CeilingInv, ExtraGrows, NEW c, NEW s, NEW stage, NEW j,
         Save(c, s, stage, j), UNCHANGED <<disk, toggles>>,
         Committed(s) <= LimitOf(s) + extra'[s.query]
  PROVE  CeilingInv'
<1>1. mem' = s /\ snap' = s
  BY DEF Save
<1> QED
  BY <1>1, CeilingFrame

LEMMA CeilingReserve ==
  ASSUME TypeInv, TypeInv', CeilingInv, NEW c \in Callers, Holds(c), pc[c] # "idle",
         Reserve(c), job[c].op \in mem.approved \/ ~OverQuery(mem, job[c].op)
  PROVE  CeilingInv'
<1> DEFINE op == job[c].op
           s  == WithReservation(mem, op)
<1>1. /\ mem \in Session /\ mem.start <= mem.spent /\ op \in Ops /\ Amount[op] \in Nat
      /\ mem.query \in Queries /\ extra \in [Queries -> Nat]
  BY DEF TypeInv, TypeOK, AskInv, Session
<1>2. /\ Committed(s) = Committed(mem) + Amount[op]
      /\ LimitOf(s) = LimitOf(mem) /\ s.query = mem.query
  BY <1>1 DEF WithReservation, Committed, LimitOf, Session
<1>3. Committed(mem) \in Nat /\ LimitOf(mem) \in Nat
  BY <1>1, SessionTypes
<1>4. Committed(mem) <= LimitOf(mem) + extra[mem.query] /\ extra[mem.query] \in Nat
  BY <1>1 DEF CeilingInv, WithinCeiling
<1>5. extra' = IF op \in mem.approved
               THEN [extra EXCEPT ![mem.query] = @ + Amount[op]] ELSE extra
  BY DEF Reserve
<1>6. ExtraGrows
  BY <1>1, <1>5 DEF ExtraGrows
<1>7. Committed(s) <= LimitOf(s) + extra'[s.query]
  <2>1. CASE op \in mem.approved
    <3>1. extra'[mem.query] = extra[mem.query] + Amount[op]
      BY <1>1, <1>5, <2>1
    <3> HIDE DEF s
    <3> QED
      BY <1>1, <1>2, <1>3, <1>4, <3>1
  <2>2. CASE op \notin mem.approved
    <3>1. Committed(mem) + Amount[op] <= LimitOf(mem)
      BY <1>1, <1>3, <2>2 DEF OverQuery
    <3> HIDE DEF s
    <3> QED
      BY <1>1, <1>2, <1>3, <1>4, <1>5, <2>2, <3>1
  <2> QED
    BY <2>1, <2>2
<1>8. /\ Save(c, s, "saveCommit", [job[c] EXCEPT !.byApproval = op \in mem.approved])
      /\ UNCHANGED <<disk, toggles>>
  BY DEF Reserve
<1> HIDE DEF s
<1> QED
  BY <1>6, <1>7, <1>8, CeilingSave

LEMMA CeilingStep ==
  ASSUME TypeInv, TypeInv', CoverInv, CoverInv', CeilingInv,
         NEW c \in Callers, Step(c)
  PROVE  CeilingInv'
<1> DEFINE op == job[c].op
<1> USE DEF history
<1>1. /\ mem \in Session /\ mem.start <= mem.spent /\ job[c] \in Job
      /\ mem.query \in Queries /\ extra \in [Queries -> Nat]
      /\ (pc[c] # "idle" => op \in Ops /\ Amount[op] \in Nat)
  BY DEF TypeInv, TypeOK, AskInv, Session
<1>2. Committed(mem) \in Nat /\ LimitOf(mem) \in Nat
  BY <1>1 DEF Committed, LimitOf, Session
<1>3. Committed(mem) <= LimitOf(mem) + extra[mem.query] /\ extra[mem.query] \in Nat
  BY <1>1 DEF CeilingInv, WithinCeiling
<1>4. extra' = extra => ExtraGrows
  BY <1>1 DEF ExtraGrows
<1>5. CASE \/ Call(c) \/ Refuse(c) \/ AskSaved(c) \/ ApproveSaved(c)
           \/ DeclineSaved(c) \/ AnswerFails(c) \/ CallPaid(c) \/ CallFailed(c)
           \/ ReserveSaved(c) \/ ReleaseSaved(c) \/ LedgerRow(c) \/ FinalizeSaved(c)
           \/ LedgerRowFails(c) \/ SaveFails(c)
  <2>1. UNCHANGED <<mem, snap, toggles, extra>> /\ disk' \in {disk, snap}
    BY <1>5 DEF Call, Refuse, AskSaved, ApproveSaved, DeclineSaved, AnswerFails,
       CallPaid, CallFailed, ReserveSaved, ReleaseSaved, LedgerRow, FinalizeSaved,
       LedgerRowFails, SaveFails
  <2> QED
    BY <1>4, <2>1, CeilingFrame
<1>6. ASSUME NEW s, NEW stage, NEW j, Save(c, s, stage, j),
             UNCHANGED <<disk, toggles, extra>>, s.query = mem.query,
             Committed(s) <= Committed(mem), LimitOf(s) >= LimitOf(mem),
             Committed(s) \in Nat, LimitOf(s) \in Nat
      PROVE  CeilingInv'
  <2>1. Committed(s) <= LimitOf(s) + extra'[s.query]
    BY <1>2, <1>3, <1>6
  <2> QED
    BY <1>4, <1>6, <2>1, CeilingSave
<1>7. CASE AskUser(c)
  <2> DEFINE s == [mem EXCEPT !.pending =
                     [op |-> op, projected |-> Committed(mem) + Amount[op]]]
  <2>1. s.query = mem.query /\ Committed(s) = Committed(mem) /\ LimitOf(s) = LimitOf(mem)
    BY <1>1 DEF Committed, LimitOf, Session
  <2>2. Save(c, s, "saveAsk", job[c]) /\ UNCHANGED <<disk, toggles, extra>>
    BY <1>7 DEF AskUser
  <2> HIDE DEF s
  <2> QED
    BY <1>2, <1>6, <2>1, <2>2
<1>8. CASE Approve(c)
  <2>1. PICK budget \in Budgets \cup {0} :
          /\ RaiseOK(mem, budget)
          /\ Save(c, WithApproval(mem, budget), "saveApprove", job[c])
    BY <1>8 DEF Approve
  <2> DEFINE s == WithApproval(mem, budget)
  <2>2. s.query = mem.query /\ Committed(s) = Committed(mem)
    BY <1>1 DEF WithApproval, Committed, Session
  <2>3. LimitOf(s) >= LimitOf(mem) /\ LimitOf(s) \in Nat
    BY <1>1, <2>1 DEF WithApproval, RaiseOK, LimitOf, Session
  <2>4. UNCHANGED <<disk, toggles, extra>>
    BY <1>8 DEF Approve
  <2> HIDE DEF s
  <2> QED
    BY <1>2, <1>6, <2>1, <2>2, <2>3, <2>4 DEF s
<1>9. CASE Decline(c)
  <2>1. /\ WithDecline(mem).query = mem.query
        /\ Committed(WithDecline(mem)) = Committed(mem)
        /\ LimitOf(WithDecline(mem)) = LimitOf(mem)
    BY <1>1 DEF WithDecline, Committed, LimitOf, Session
  <2>2. Save(c, WithDecline(mem), "saveDecline", job[c])
        /\ UNCHANGED <<disk, toggles, extra>>
    BY <1>9 DEF Decline
  <2> QED
    BY <1>2, <1>6, <2>1, <2>2
<1>10. CASE Finalize(c)
  <2> DEFINE charge == job[c].charge
             s == WithCharge(mem, op, charge)
             j == [job[c] EXCEPT !.held = FALSE]
  <2>1. op \in Ops /\ Amount[op] \in Nat /\ charge \in Nat
    BY <1>1, <1>10 DEF Finalize, Turn, Job
  <2>2. Save(c, s, "saveFinalize", j) /\ UNCHANGED <<disk, toggles>> /\ left' = left
        /\ extra' = [extra EXCEPT ![mem.query] = @ + Less(charge, Amount[op])]
        /\ pc[c] = "queued" /\ job[c].kind = "finalize"
    BY <1>10 DEF Finalize, Turn
  <2>3. s.reserved = Less(mem.reserved, Amount[op])
    BY <1>1 DEF WithCharge, Session
  <2>4. Amount[op] <= mem.reserved
    <3>1. job[c].held
      BY <2>2 DEF CoverInv, HeldInv
    <3> QED
      BY <2>2, <2>3, <3>1, CoverGiveBack DEF Save
  <2>5. /\ s.query = mem.query /\ LimitOf(s) = LimitOf(mem)
        /\ Committed(s) = (Committed(mem) + charge) - Amount[op]
    BY <1>1, <2>1, <2>4 DEF WithCharge, Committed, LimitOf, Less, Session
  <2>6. extra'[mem.query] = extra[mem.query] + Less(charge, Amount[op])
        /\ Less(charge, Amount[op]) \in Nat /\ charge - Amount[op] <= Less(charge, Amount[op])
    BY <1>1, <2>1, <2>2 DEF Less
  <2>7. ExtraGrows
    BY <1>1, <2>2, <2>6 DEF ExtraGrows
  <2> HIDE DEF s, j, charge
  <2>8. Committed(s) <= LimitOf(s) + extra'[s.query]
    BY <1>2, <1>3, <2>1, <2>5, <2>6
  <2> QED
    BY <2>2, <2>7, <2>8, CeilingSave
<1>11. CASE Release(c)
  <2> DEFINE s == WithRelease(mem, op)
  <2>1. op \in Ops /\ Amount[op] \in Nat
    BY <1>1, <1>11 DEF Release, Turn
  <2>2. /\ s.query = mem.query /\ LimitOf(s) = LimitOf(mem)
        /\ Committed(s) <= Committed(mem) /\ Committed(s) \in Nat
    BY <1>1, <2>1 DEF WithRelease, Committed, LimitOf, Less, Session
  <2>3. Save(c, s, "saveRelease", [job[c] EXCEPT !.held = FALSE])
        /\ UNCHANGED <<disk, toggles, extra>>
    BY <1>11 DEF Release
  <2> HIDE DEF s
  <2> QED
    BY <1>2, <1>6, <2>2, <2>3
<1>12. CASE ReserveFreely(c)
  <2>1. Holds(c) /\ pc[c] # "idle" /\ Reserve(c)
    BY <1>12 DEF ReserveFreely, Turn
  <2>2. op \in mem.approved \/ ~OverQuery(mem, op)
    BY <1>12 DEF ReserveFreely, Allowed, NeedsApproval
  <2> QED
    BY <2>1, <2>2, CeilingReserve
<1>13. CASE ReserveApproved(c)
  BY <1>13, CeilingReserve, SavedType DEF ReserveApproved, InLock, TypeInv, AskInv
<1> QED
  BY <1>5, <1>7, <1>8, <1>9, <1>10, <1>11, <1>12, <1>13 DEF Step, Progress

LEMMA CeilingOutside ==
  ASSUME TypeInv, TypeInv', CeilingInv,
         \/ BeginQuery \/ ResumeDecline \/ Crash \/ ToggleMode
         \/ \E s \in toggles : ToggleSaved(s)
         \/ \E cents \in Budgets : SetBudget(cents) \/ SetDefault(cents)
         \/ \E budget \in Budgets \cup {0} : ResumeApprove(budget)
  PROVE  CeilingInv'
<1> USE DEF history, procs
<1>1. /\ mem \in Session /\ mem.start <= mem.spent /\ mem.query \in Queries
      /\ extra \in [Queries -> Nat] /\ mem.reserved \in Nat
  BY DEF TypeInv, TypeOK, Session
<1>2. Committed(mem) \in Nat /\ LimitOf(mem) \in Nat
  BY <1>1 DEF Committed, LimitOf, Session
<1>3. Committed(mem) <= LimitOf(mem) + extra[mem.query] /\ extra[mem.query] \in Nat
  BY <1>1 DEF CeilingInv, WithinCeiling
<1>4. extra' = extra => ExtraGrows
  BY <1>1 DEF ExtraGrows
<1>5. ASSUME NEW s, Between(s), NoCaller, ExtraGrows,
             Committed(s) <= LimitOf(s) + extra'[s.query]
      PROVE  CeilingInv'
  BY <1>5, CeilingFrame DEF Between, NoCaller
<1>6. CASE BeginQuery
  <2> DEFINE s == NewQuery(mem)
  <2>1. Between(s) /\ NoCaller /\ mem.query < MaxQueries
        /\ extra' = [extra EXCEPT ![mem.query + 1] = @ + mem.reserved]
    BY <1>6 DEF BeginQuery
  <2>2. mem.query + 1 \in Queries /\ mem.query + 1 # 0
    BY <1>1, <2>1 DEF Queries
  <2>3. /\ s.query = mem.query + 1 /\ Committed(s) = mem.reserved
        /\ LimitOf(s) \in Nat
    BY <1>1, <2>2 DEF NewQuery, Committed, LimitOf, Session
  <2>4. ExtraGrows /\ extra'[mem.query + 1] = extra[mem.query + 1] + mem.reserved
        /\ extra[mem.query + 1] \in Nat
    BY <1>1, <2>1, <2>2 DEF ExtraGrows
  <2> HIDE DEF s
  <2>5. Committed(s) <= LimitOf(s) + extra'[s.query]
    BY <1>1, <2>3, <2>4
  <2> QED
    BY <1>5, <2>1, <2>4, <2>5
<1>7. CASE ResumeDecline
  <2>1. /\ WithDecline(mem).query = mem.query
        /\ Committed(WithDecline(mem)) = Committed(mem)
        /\ LimitOf(WithDecline(mem)) = LimitOf(mem)
    BY <1>1 DEF WithDecline, Committed, LimitOf, Session
  <2>2. Between(WithDecline(mem)) /\ NoCaller /\ extra' = extra
    BY <1>7 DEF ResumeDecline
  <2> QED
    BY <1>3, <1>4, <1>5, <2>1, <2>2
<1>8. CASE Crash
  <2>1. mem' = disk /\ disk' = disk /\ snap' = disk /\ toggles' = {} /\ extra' = extra
    BY <1>8 DEF Crash
  <2> QED
    BY <1>4, <2>1, CeilingFrame
<1>9. CASE ToggleMode
  <2>1. UNCHANGED <<mem, disk, snap, extra>> /\ toggles' = toggles \cup {mem}
    BY <1>9 DEF ToggleMode
  <2> QED
    BY <1>4, <2>1, CeilingFrame
<1>10. ASSUME NEW s \in toggles, ToggleSaved(s) PROVE CeilingInv'
  <2>1. UNCHANGED <<mem, snap, extra>> /\ disk' = s /\ toggles' = toggles \ {s}
    BY <1>10 DEF ToggleSaved
  <2> QED
    BY <1>4, <1>10, <2>1, CeilingFrame
<1>11. ASSUME NEW cents \in Budgets, SetBudget(cents) PROVE CeilingInv'
  <2> DEFINE s == IF mem.query = 0 THEN [mem EXCEPT !.budget = cents]
                                   ELSE [mem EXCEPT !.limit = cents]
  <2>1. Between(s) /\ NoCaller /\ extra' = extra /\ cents >= Committed(mem)
    BY <1>11 DEF SetBudget
  <2>2. s.query = mem.query /\ Committed(s) = Committed(mem) /\ LimitOf(s) = cents
    BY <1>1 DEF Committed, LimitOf, Session
  <2> HIDE DEF s
  <2>3. Committed(s) <= LimitOf(s) + extra'[s.query]
    BY <1>2, <1>3, <2>1, <2>2
  <2> QED
    BY <1>4, <1>5, <2>1, <2>3
<1>12. ASSUME NEW cents \in Budgets, SetDefault(cents) PROVE CeilingInv'
  <2> DEFINE s == [mem EXCEPT !.budget = cents]
  <2>1. Between(s) /\ NoCaller /\ extra' = extra /\ mem.query # 0
    BY <1>12 DEF SetDefault
  <2>2. s.query = mem.query /\ Committed(s) = Committed(mem) /\ LimitOf(s) = LimitOf(mem)
    BY <1>1, <2>1 DEF Committed, LimitOf, Session
  <2> HIDE DEF s
  <2> QED
    BY <1>3, <1>4, <1>5, <2>1, <2>2
<1>13. ASSUME NEW budget \in Budgets \cup {0}, ResumeApprove(budget)
       PROVE  CeilingInv'
  <2> DEFINE s == WithApproval(mem, budget)
  <2>1. Between(s) /\ NoCaller /\ extra' = extra /\ RaiseOK(mem, budget)
    BY <1>13 DEF ResumeApprove
  <2>2. s.query = mem.query /\ Committed(s) = Committed(mem)
    BY <1>1 DEF WithApproval, Committed, Session
  <2>3. LimitOf(s) >= LimitOf(mem) /\ LimitOf(s) \in Nat
    BY <1>1, <2>1 DEF WithApproval, RaiseOK, LimitOf, Session
  <2> HIDE DEF s
  <2>4. Committed(s) <= LimitOf(s) + extra'[s.query]
    BY <1>2, <1>3, <2>1, <2>2, <2>3
  <2> QED
    BY <1>4, <1>5, <2>1, <2>4
<1> QED
  BY <1>6, <1>7, <1>8, <1>9, <1>10, <1>11, <1>12, <1>13

\* As long as no write fails after a payment, what a query has spent and reserved
\* stays within its limit and what was added to it on purpose: with any number of
\* concurrent callers, crashes, and saves of the approval mode that come late.
THEOREM CeilingHolds == Bound.faults = 0 => (ToggleSpec => []SpendingCeiling)
<1> SUFFICES ASSUME Bound.faults = 0 PROVE ToggleSpec => []SpendingCeiling
  OBVIOUS
<1> DEFINE IInv == TypeInv /\ CoverInv /\ CeilingInv
<1>1. Init => IInv
  <2>1. Init => CeilingInv
    BY DEF Init, CeilingInv, WithinCeiling, Committed, LimitOf, Queries
  <2> QED
    BY <2>1, InitType, CoverInit
<1>2. IInv /\ [NextWithToggles]_vars => IInv'
  <2> SUFFICES ASSUME IInv, [NextWithToggles]_vars PROVE IInv'
    OBVIOUS
  <2>1. TypeInv' /\ CoverInv'
    BY NextType, CoverNext
  <2>2. CASE UNCHANGED vars
    <3>1. UNCHANGED <<mem, disk, snap, toggles, extra>>
      BY <2>2 DEF vars, procs, history
    <3>2. ExtraGrows
      BY <3>1 DEF ExtraGrows, TypeInv, TypeOK
    <3> QED
      BY <2>1, <3>1, <3>2, CeilingFrame
  <2> QED
    BY <2>1, <2>2, CeilingStep, CeilingOutside DEF NextWithToggles, Next
<1>3. IInv => SpendingCeiling
  BY DEF CeilingInv, SpendingCeiling
<1> QED
  BY <1>1, <1>2, <1>3, PTL DEF ToggleSpec

-----------------------------------------------------------------------------
\* Unless a save is going on, session.json is what memory holds.
SyncInv ==
  /\ (\A c \in Callers : pc[c] \notin Saving) => disk = mem
  /\ \A c \in Callers : pc[c] \in Saving => snap = mem
  /\ IsFiniteSet(Units(Holders)) /\ HeldBy(Holders) <= disk.reserved

\* Holders have claims, so memory covers them.
LEMMA HoldersCovered ==
  TypeInv /\ CoverInv =>
    IsFiniteSet(Units(Holders)) /\ HeldBy(Holders) <= mem.reserved
<1> SUFFICES ASSUME TypeInv, CoverInv
             PROVE  IsFiniteSet(Units(Holders)) /\ HeldBy(Holders) <= mem.reserved
  OBVIOUS
<1>1. Units(Holders) \in SUBSET Units(Claims)
  BY DEF Units, Holders, Claims
<1>2. /\ IsFiniteSet(Units(Holders)) /\ Cardinality(Units(Holders)) \in Nat
      /\ Cardinality(Units(Holders)) <= Cardinality(Units(Claims))
      /\ Cardinality(Units(Claims)) \in Nat
  BY <1>1, FS_Subset, FS_CardinalityType DEF CoverInv
<1>3. mem.reserved \in Nat
  BY DEF TypeInv, TypeOK, Session
<1> QED
  BY <1>2, <1>3 DEF HeldBy, CoverInv

\* A save starts: nobody was saving, and nobody holds more than before.
LEMMA SyncSave ==
  ASSUME TypeInv, SyncInv, NEW c \in Callers, Holds(c), pc[c] \notin Saving,
         NEW s, NEW stage \in Saving, NEW j, Save(c, s, stage, j),
         j.op = job[c].op, j.held => job[c].held, UNCHANGED disk
  PROVE  SyncInv'
<1>1. \A d \in Callers : d # c => pc'[d] = pc[d] /\ job'[d] = job[d]
  BY DEF Save, TypeInv, TypeOK
<1>2. pc'[c] = stage /\ job'[c] = j /\ mem' = snap'
  BY DEF Save, TypeInv, TypeOK
<1>3. \A d \in Callers : d # c => pc[d] \notin Saving
  BY DEF TypeInv, LockInv, InLock, Holds
<1>4. Units(Holders)' \in SUBSET Units(Holders)
  <2>1. \A d \in Callers : job'[d].op = job[d].op /\ (job'[d].held => job[d].held)
    BY <1>1, <1>2
  <2> QED
    BY <2>1 DEF Units, Holders
<1>5. /\ IsFiniteSet(Units(Holders)') /\ Cardinality(Units(Holders)') \in Nat
      /\ Cardinality(Units(Holders)') <= Cardinality(Units(Holders))
      /\ Cardinality(Units(Holders)) \in Nat
  BY <1>4, FS_Subset, FS_CardinalityType DEF SyncInv
<1>6. disk.reserved \in Nat
  BY DEF TypeInv, TypeOK, Session
<1>7. HeldBy(Holders)' <= disk'.reserved
  BY <1>5, <1>6 DEF SyncInv, HeldBy
<1> QED
  BY <1>1, <1>2, <1>3, <1>5, <1>7 DEF SyncInv

\* A save ends, or everything is idle: the file is what memory holds.
LEMMA SyncSaved ==
  ASSUME TypeInv', CoverInv', disk' = mem',
         \A c \in Callers : pc'[c] \notin Saving
  PROVE  SyncInv'
<1>1. (IsFiniteSet(Units(Holders)) /\ HeldBy(Holders) <= mem.reserved)'
  BY HoldersCovered, PTL
<1> QED
  BY <1>1 DEF SyncInv

LEMMA SyncQuiet ==
  ASSUME SyncInv, UNCHANGED <<mem, disk, snap>>,
         \A d \in Callers : pc'[d] \in Saving <=> pc[d] \in Saving,
         \A d \in Callers : job'[d].held = job[d].held,
         \A d \in Callers : job[d].held => job'[d].op = job[d].op
  PROVE  SyncInv'
<1>1. Units(Holders)' = Units(Holders)
  BY DEF Units, Holders
<1> QED
  BY <1>1 DEF SyncInv, HeldBy

LEMMA SyncStep ==
  ASSUME TypeInv, TypeInv', CoverInv, CoverInv', SyncInv, NEW c \in Callers, Step(c)
  PROVE  SyncInv'
<1> DEFINE op == job[c].op
<1> USE DEF history
<1>1. /\ job[c] \in Job /\ pc \in [Callers -> PCs] /\ job \in [Callers -> Job]
      /\ left.faults = 0
      /\ job[c].held <=> \/ pc[c] = "paying"
                         \/ pc[c] = "queued" /\ job[c].kind \in {"finalize", "release"}
  BY DEF TypeInv, TypeOK, CoverInv, HeldInv
<1>2. ~LedgerRowFails(c) /\ ~SaveFails(c)
  BY <1>1 DEF LedgerRowFails, SaveFails, Spend
<1>3. CASE \/ AskSaved(c) \/ ApproveSaved(c) \/ DeclineSaved(c) \/ ReserveSaved(c)
           \/ FinalizeSaved(c) \/ ReleaseSaved(c)
  <2>1. /\ pc[c] \in Saving /\ disk' = snap /\ mem' = mem
        /\ \A d \in Callers : d # c => pc'[d] = pc[d]
        /\ pc'[c] \notin Saving
    BY <1>1, <1>3 DEF AskSaved, ApproveSaved, DeclineSaved, ReserveSaved,
       FinalizeSaved, ReleaseSaved, Leave, Saving
  <2>2. \A d \in Callers : d # c => pc[d] \notin Saving
    BY <2>1 DEF TypeInv, LockInv, InLock, Holds
  <2>3. disk' = mem'
    BY <2>1 DEF SyncInv
  <2> QED
    BY <2>1, <2>2, <2>3, SyncSaved
<1>4. CASE AskUser(c)
  BY <1>4, SyncSave DEF AskUser, Turn, Saving
<1>5. CASE Approve(c)
  BY <1>5, SyncSave, SavedType DEF Approve, InLock, Saving
<1>6. CASE Decline(c)
  BY <1>6, SyncSave, SavedType DEF Decline, InLock, Saving
<1>7. ASSUME Reserve(c), Holds(c), pc[c] \notin Saving PROVE SyncInv'
  <2> DEFINE j == [job[c] EXCEPT !.byApproval = op \in mem.approved]
  <2>1. j.op = op /\ j.held = job[c].held
    BY <1>1 DEF Job
  <2>2. Save(c, WithReservation(mem, op), "saveCommit", j) /\ UNCHANGED disk
    BY <1>7 DEF Reserve
  <2> HIDE DEF j
  <2> QED
    BY <1>7, <2>1, <2>2, SyncSave DEF Saving
<1>8. ASSUME NEW s, NEW stage \in {"saveFinalize", "saveRelease"}, Holds(c),
             pc[c] = "queued", Save(c, s, stage, [job[c] EXCEPT !.held = FALSE]),
             UNCHANGED disk
      PROVE  SyncInv'
  <2> DEFINE j == [job[c] EXCEPT !.held = FALSE]
  <2>1. j.op = op /\ ~j.held
    BY <1>1 DEF Job
  <2>2. Save(c, s, stage, j)
    BY <1>8
  <2> HIDE DEF j
  <2> QED
    BY <1>8, <2>1, <2>2, SyncSave DEF Saving
<1>9. CASE \/ Call(c) \/ Refuse(c) \/ AnswerFails(c) \/ LedgerRow(c)
  <2>1. NoJob.held = FALSE
        /\ \A o, force : [NoJob EXCEPT !.kind = "reserve", !.op = o,
                                       !.force = force].held = FALSE
    BY DEF NoJob
  <2>2. job[c].held = FALSE /\ pc[c] \notin Saving
    BY <1>1, <1>9 DEF Call, Refuse, AnswerFails, LedgerRow, Turn, Saving, Job
  <2>3. UNCHANGED <<mem, disk, snap>>
    BY <1>9 DEF Call, Refuse, AnswerFails, LedgerRow
  <2>4. pc'[c] \notin Saving /\ job'[c].held = FALSE
    <3>1. CASE Call(c)
      BY <1>1, <2>1, <3>1 DEF Call, Enqueue, Saving
    <3>2. CASE Refuse(c) \/ AnswerFails(c) \/ LedgerRow(c)
      BY <1>1, <2>1, <3>2 DEF Refuse, AnswerFails, LedgerRow, Leave, Saving
    <3> QED
      BY <1>9, <3>1, <3>2
  <2>5. \A d \in Callers : d # c => pc'[d] = pc[d] /\ job'[d] = job[d]
    BY <1>1, <1>9 DEF Call, Refuse, AnswerFails, LedgerRow, Enqueue, Leave
  <2> QED
    BY <2>2, <2>3, <2>4, <2>5, SyncQuiet
<1>10. CASE CallPaid(c) \/ CallFailed(c)
  <2>1. PICK j : Enqueue(c, j) /\ j.held = job[c].held /\ j.op = op
    <3>1. CASE CallPaid(c)
      <4>1. PICK charge \in Charges :
              Enqueue(c, [job[c] EXCEPT !.kind = "finalize", !.charge = charge])
        BY <3>1 DEF CallPaid
      <4>2. /\ [job[c] EXCEPT !.kind = "finalize", !.charge = charge].held = job[c].held
            /\ [job[c] EXCEPT !.kind = "finalize", !.charge = charge].op = op
        BY <1>1 DEF Job
      <4> QED
        BY <4>1, <4>2
    <3>2. CASE CallFailed(c)
      <4>1. /\ [job[c] EXCEPT !.kind = "release"].held = job[c].held
            /\ [job[c] EXCEPT !.kind = "release"].op = op
        BY <1>1 DEF Job
      <4> QED
        BY <3>2, <4>1 DEF CallFailed
    <3> QED
      BY <1>10, <3>1, <3>2
  <2>2. UNCHANGED <<mem, disk, snap>> /\ pc[c] = "paying"
    BY <1>10 DEF CallPaid, CallFailed
  <2> QED
    BY <1>1, <2>1, <2>2, SyncQuiet DEF Enqueue, Saving
<1> QED
  BY <1>2, <1>3, <1>4, <1>5, <1>6, <1>7, <1>8, <1>9, <1>10, SavedType
  DEF Step, Progress, ReserveFreely, ReserveApproved, Finalize, Release, Turn,
      InLock, Saving

LEMMA SyncOutside ==
  ASSUME TypeInv, TypeInv', CoverInv, CoverInv', SyncInv,
         \/ BeginQuery \/ ResumeDecline \/ Crash
         \/ \E cents \in Budgets : SetBudget(cents) \/ SetDefault(cents)
         \/ \E budget \in Budgets \cup {0} : ResumeApprove(budget)
  PROVE  SyncInv'
<1>1. mem' = disk' /\ \A c \in Callers : pc'[c] \notin Saving
  BY DEF BeginQuery, ResumeDecline, SetBudget, SetDefault, ResumeApprove, Crash,
     Between, NoCaller, AllIdle, procs, Saving
<1> QED
  BY <1>1, SyncSaved

\* As long as no write fails after a payment, the reserved total covers all that
\* callers hold, in memory and in session.json, at every moment.
THEOREM ReservedIsCovered == Bound.faults = 0 => (Spec => []ReservedCoversHeld)
<1> SUFFICES ASSUME Bound.faults = 0 PROVE Spec => []ReservedCoversHeld
  OBVIOUS
<1> DEFINE IInv == TypeInv /\ CoverInv /\ SyncInv
<1>1. Init => IInv
  <2> SUFFICES ASSUME Init PROVE IInv
    OBVIOUS
  <2>1. TypeInv /\ CoverInv
    BY InitType, CoverInit
  <2>2. disk = mem /\ \A c \in Callers : pc[c] \notin Saving
    BY DEF Init, Saving
  <2> QED
    BY <2>1, <2>2, HoldersCovered DEF SyncInv
<1>2. IInv /\ [Next]_vars => IInv'
  <2> SUFFICES ASSUME IInv, [Next]_vars PROVE IInv'
    OBVIOUS
  <2>1. TypeInv' /\ CoverInv'
    BY NextType, CoverNext DEF NextWithToggles
  <2>2. CASE UNCHANGED vars
    <3>1. UNCHANGED <<mem, disk, snap, pc, job>>
      BY <2>2 DEF vars, procs
    <3>2. /\ \A d \in Callers : pc'[d] \in Saving <=> pc[d] \in Saving
          /\ \A d \in Callers : job'[d].held = job[d].held
          /\ \A d \in Callers : job[d].held => job'[d].op = job[d].op
      BY <3>1
    <3>3. SyncInv'
      BY <3>1, <3>2, SyncQuiet
    <3> QED
      BY <2>1, <3>3
  <2> QED
    BY <2>1, <2>2, SyncStep, SyncOutside DEF Next
<1>3. IInv => ReservedCoversHeld
  BY HoldersCovered DEF SyncInv, ReservedCoversHeld
<1> QED
  BY <1>1, <1>2, <1>3, PTL DEF Spec
=============================================================================
