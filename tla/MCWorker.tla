------------------------------ MODULE MCWorker ------------------------------
(***************************************************************************)
(* Small instances of Worker for TLC.                                      *)
(***************************************************************************)
EXTENDS Worker

CONSTANTS r1, r2

Plain(id, type, run) ==
  [id |-> id, type |-> type, run |-> run, cause |-> "none", op |-> NoOp]
ResumeOf(id, run, cause, turn, kind) ==
  [id |-> id, type |-> "run.resume", run |-> run, cause |-> cause,
   op |-> [turn |-> turn, kind |-> kind]]

\* One run that is steered, cancelled, resumed from either pause, shut down.
MCCommands ==
  {Plain(1, "run.start", r1), Plain(3, "run.cancel", r1),
   Plain(4, "run.message", r1), Plain(5, "worker.shutdown", NoRun),
   ResumeOf(6, r1, "approval_granted", 0, "paid"),
   ResumeOf(7, r1, "payment_reconciled", 1, "model")}

\* Two runs compete for the agent; the first may wait, and be resumed.
MCTwoRuns ==
  {Plain(1, "run.start", r1), Plain(2, "run.start", r2),
   Plain(3, "run.cancel", r1), Plain(5, "worker.shutdown", NoRun),
   ResumeOf(7, r1, "payment_reconciled", 0, "model")}
=============================================================================
