-------------------------------- MODULE Worker --------------------------------
(***************************************************************************)
(* The durable worker process of packages/agent-runtime/src/worker.ts.     *)
(*                                                                         *)
(* A supervisor writes commands on stdin and reads events from stdout.     *)
(* The reader handles one line at a time (handleLine); beside it at most   *)
(* one run is executed (execute, over the loop of index.ts).  Both change  *)
(* worker.json through one chain of writes: a mutation is applied in       *)
(* memory, the whole state is written, and only then does the caller go on *)
(* or its event reach stdout.  A crash loses the memory; the next process  *)
(* starts from worker.json, and the supervisor may send any line again.    *)
(*                                                                         *)
(* Abstracted: a turn asks for one tool at most; events that only report   *)
(* progress are left out (they write what is already written); sessions,   *)
(* prices and the completion gate are Budget's and Purchases'.             *)
(***************************************************************************)
EXTENDS Naturals, FiniteSets

CONSTANTS
  Runs,        \* run ids
  NoRun,       \* activeRunId is undefined
  Commands,    \* the lines the supervisor may send
  ToolNames,   \* the tools the model may ask for
  Pauses,      \* the waiting outcomes the bridge may report
  MaxTurns,    \* payload.maxTurns
  MaxLines,    \* bound: lines the supervisor sends
  Mishaps,     \* what may go wrong: "crash", "disk"
  MaxMishaps   \* bound: how often

Waits == {"waiting_for_approval", "waiting_for_funds",
          "waiting_for_delegation", "payment_unknown"}
Terminal == {"completed", "budget_exhausted", "user_stopped", "max_turns",
             "failed", "cancelled"}
Turns == 0..(MaxTurns - 1)
Ops   == [turn : 0..MaxTurns, kind : {"model", "paid", "none"}]
NoOp  == [turn |-> 0, kind |-> "none"]

Causes == [waiting_for_approval   |-> "approval_granted",
           waiting_for_funds      |-> "funds_available",
           waiting_for_delegation |-> "delegation_renewed",
           payment_unknown        |-> "payment_reconciled"]

CommandTypes == {"run.start", "run.resume", "run.cancel", "run.message",
                 "worker.shutdown"}
Command == [id : Nat, type : CommandTypes, run : Runs \cup {NoRun},
            cause : {Causes[w] : w \in Waits} \cup {"none"}, op : Ops]

ASSUME WorkerAssumption ==
  /\ NoRun \notin Runs
  /\ Commands \subseteq Command
  /\ \A c \in Commands : (c.run = NoRun) <=> (c.type = "worker.shutdown")
  /\ ToolNames \subseteq {"run_shell", "call_paid_service", "read_file"}
  /\ Pauses \subseteq Waits
  /\ MaxTurns \in Nat \ {0} /\ MaxLines \in Nat
  /\ Mishaps \subseteq {"crash", "disk"} /\ MaxMishaps \in Nat

VARIABLES
  mem,       \* this.state
  disk,      \* worker.json
  writing,   \* whose mutation is being written
  broken,    \* a write failed: every later mutation throws
  reader,    \* where handleLine stands
  runner,    \* where execute stands
  shutting,  \* this.shuttingDown
  line,      \* what stdout will have shown once the write is done
  shown,     \* what stdout has shown
  ran,       \* history: times the tool of a turn was executed
  lines,     \* lines sent so far
  left       \* mishaps that may still happen

journal == <<mem, disk, writing, line, shown>>
bounds  == <<lines, left>>
vars    == <<journal, broken, reader, runner, shutting, ran, bounds>>

Messages  == {c \in Commands : c.type = "run.message"}
Responses == ToolNames \cup {"unasked", "answer"}
Ckpt == [saved : BOOLEAN, turn : 0..MaxTurns, response : Responses,
         completed : BOOLEAN, delivered : SUBSET Messages, held : BOOLEAN]
ToolStates == {"none", "begun", "approval", "done", "lost"}
Run  == [started : BOOLEAN, outcome : Waits \cup Terminal \cup {"none"},
         pending : Ops, ckpt : Ckpt, tools : [Turns -> ToolStates],
         inbox : SUBSET Messages]
State == [commands : SUBSET Commands, runs : [Runs -> Run],
          active : Runs \cup {NoRun}]
Shown == [accepted : SUBSET Commands, told : SUBSET Messages,
          ended : [Runs -> Waits \cup Terminal \cup {"none"}]]
ReaderPCs == {"idle", "drain", "record", "accept", "act", "again", "replay",
              "tell", "finish", "report"}
RunnerPCs == {"idle", "begin", "turn", "deliver", "tell", "freeze", "model",
              "answered", "save", "act", "execute", "tool", "result", "approval",
              "settle", "end", "catch", "pause", "ending", "report", "done"}
NoCommand == [id |-> 0, type |-> "worker.shutdown", run |-> NoRun,
              cause |-> "none", op |-> NoOp]
Reader == [pc : ReaderPCs, cmd : Commands \cup {NoCommand}]
Runner == [pc : RunnerPCs, run : Runs \cup {NoRun}, turn : 0..MaxTurns,
           response : Responses, delivered : SUBSET Messages, held : BOOLEAN,
           told : SUBSET Messages, next : RunnerPCs,
           how : Waits \cup Terminal \cup {"none"}, op : Ops, aborted : BOOLEAN]

NoCkpt == [saved |-> FALSE, turn |-> 0, response |-> "unasked",
           completed |-> FALSE, delivered |-> {}, held |-> FALSE]
NewRun == [started |-> FALSE, outcome |-> "none", pending |-> NoOp,
           ckpt |-> NoCkpt, tools |-> [t \in Turns |-> "none"], inbox |-> {}]
NewState == [commands |-> {}, runs |-> [r \in Runs |-> NewRun], active |-> NoRun]
IdleReader == [pc |-> "idle", cmd |-> NoCommand]
IdleRunner == [pc |-> "idle", run |-> NoRun, turn |-> 0, response |-> "unasked",
               delivered |-> {}, held |-> FALSE, told |-> {}, next |-> "idle", how |-> "none",
               op |-> NoOp, aborted |-> FALSE]

-----------------------------------------------------------------------------
(***************************************************************************)
(* The chain of writes: mutate and emit.                                   *)
(***************************************************************************)
Running == runner.pc # "idle"
My      == mem.runs[runner.run]
Its(c)  == mem.runs[c.run]
Waiting(outcome) == outcome \in Waits

\* mutate: the change is applied when the writes before it are done.
Mutate(who, state) ==
  /\ writing = "none" /\ ~broken
  /\ mem' = state
  /\ writing' = who
  /\ line' = shown
  /\ UNCHANGED <<disk, shown>>

\* emit: the same with the next sequence number, and a line once it is written.
Emit(who, printed) ==
  /\ writing = "none" /\ ~broken
  /\ line' = printed
  /\ writing' = who
  /\ UNCHANGED <<mem, disk, shown>>

WriteDone ==
  /\ writing # "none"
  /\ disk' = mem
  /\ shown' = line
  /\ writing' = "none"
  /\ UNCHANGED <<mem, line, broken, reader, runner, shutting, ran, bounds>>

WithRun(r, run) == [mem EXCEPT !.runs[r] = run]
Accepted(c)  == [shown EXCEPT !.accepted = @ \cup {c}]
Told(ms)     == [shown EXCEPT !.told = @ \cup ms]
Ended(r, o)  == [shown EXCEPT !.ended[r] = o]

\* What finish records; a terminal outcome gives the agent free again.
Finished(r, how) ==
  [mem EXCEPT !.runs[r].outcome = how,
              !.active = IF Waiting(how) \/ @ # r THEN @ ELSE NoRun]

-----------------------------------------------------------------------------
(***************************************************************************)
(* The reader: handleLine.  Everything up to the first mutation happens in *)
(* one step; a line with a known id and other content is refused.          *)
(***************************************************************************)
Known(c)     == c \in mem.commands
Conflicts(c) == \E d \in mem.commands : d.id = c.id /\ d # c

Read(c) ==
  /\ reader.pc = "idle" /\ writing # "reader" /\ ~broken
  /\ lines < MaxLines
  /\ lines' = lines + 1
  /\ UNCHANGED <<journal, broken, ran, left>>

\* Where the line leads, when it is not refused.
Handle(c, pc) ==
  /\ Read(c) /\ ~Conflicts(c) /\ ~shutting
  /\ reader' = [pc |-> pc, cmd |-> c]

ReadShutdown ==
  \E c \in Commands :
    /\ c.type = "worker.shutdown"
    /\ Handle(c, "drain")
    /\ shutting' = TRUE
    /\ runner' = [runner EXCEPT !.aborted = Running]

ReadCancel ==
  \E c \in Commands :
    /\ c.type = "run.cancel" /\ Its(c).started
    /\ Handle(c, "record")
    /\ UNCHANGED <<runner, shutting>>

Ends(run) == run.outcome # "none" /\ ~Waiting(run.outcome)

ReadMessage ==
  \E c \in Commands :
    /\ c.type = "run.message" /\ Its(c).started /\ ~Ends(Its(c))
    /\ Handle(c, "record")
    /\ UNCHANGED <<runner, shutting>>

StartsRun(c) == c.type \in {"run.start", "run.resume"}

\* A duplicate while a run executes is only acknowledged.
ReadDuplicate ==
  \E c \in Commands :
    /\ StartsRun(c) /\ Running /\ Known(c)
    /\ Handle(c, "again")
    /\ UNCHANGED <<runner, shutting>>

\* A duplicate of a run that has an outcome: report it once more.
ReadFinished ==
  \E c \in Commands :
    /\ StartsRun(c) /\ ~Running /\ Known(c)
    /\ Its(c).started /\ Its(c).outcome # "none"
    /\ Handle(c, "replay")
    /\ UNCHANGED <<runner, shutting>>

Resumes(c) ==
  LET run == Its(c) IN
  /\ Waiting(run.outcome)
  /\ run.pending = NoOp \/ c.op = run.pending
  /\ Causes[run.outcome] = c.cause

AnyRunFits(c) == c.run \in Runs
AgentFree(c) == mem.active \in {NoRun, c.run}

\* A start of a new run, a resume that resolves the wait, or the repetition
\* of either after a crash.
ReadRun ==
  \E c \in Commands :
    /\ StartsRun(c) /\ ~Running
    /\ \/ Known(c) /\ Its(c).outcome = "none"
       \/ ~Known(c) /\ c.type = "run.start" /\ ~Its(c).started
       \/ ~Known(c) /\ c.type = "run.resume" /\ Its(c).started /\ Resumes(c)
    /\ AgentFree(c)
    /\ Handle(c, "record")
    /\ UNCHANGED <<runner, shutting>>

\* Shutdown waits for the run it aborted.
Drained ==
  /\ reader.pc = "drain" /\ ~Running
  /\ reader' = [reader EXCEPT !.pc = "record"]
  /\ UNCHANGED <<journal, broken, runner, shutting, ran, bounds>>

WithCommand(c) == [mem EXCEPT !.commands = @ \cup {c}]
WithMessage(c) == [WithCommand(c) EXCEPT !.runs[c.run].inbox = @ \cup {c}]
WithActive(c) ==
  [WithCommand(c) EXCEPT !.runs[c.run].started = TRUE,
                         !.runs[c.run].outcome = "none",
                         !.active = c.run]

Record ==
  LET c == reader.cmd IN
  /\ reader.pc = "record"
  /\ Mutate("reader", CASE c.type = "run.message" -> WithMessage(c)
                        [] StartsRun(c) -> WithActive(c)
                        [] OTHER -> WithCommand(c))
  /\ reader' = [reader EXCEPT !.pc = "accept"]
  /\ UNCHANGED <<broken, runner, shutting, ran, bounds>>

Accept ==
  LET c == reader.cmd IN
  /\ reader.pc = "accept" /\ writing # "reader"
  /\ Emit("reader", Accepted(c))
  /\ reader' = IF c.type = "run.cancel" \/ StartsRun(c)
               THEN [reader EXCEPT !.pc = "act"] ELSE IdleReader
  /\ UNCHANGED <<broken, runner, shutting, ran, bounds>>

ReaderActs(c) ==
  /\ reader.pc = "act" /\ writing # "reader" /\ reader.cmd = c
  /\ UNCHANGED <<journal, broken, shutting, ran, bounds>>

Execute ==
  \E c \in Commands :
    /\ ReaderActs(c) /\ StartsRun(c)
    /\ runner' = [IdleRunner EXCEPT !.pc = "begin", !.run = c.run]
    /\ reader' = IdleReader

CancelsWhatItFinds ==
  \E c \in Commands :
    /\ ReaderActs(c) /\ c.type = "run.cancel"
    /\ IF mem.active = c.run /\ Running
       THEN /\ runner' = [runner EXCEPT !.aborted = TRUE]
            /\ reader' = IdleReader
       ELSE /\ reader' = [reader EXCEPT !.pc = "finish"]
            /\ UNCHANGED runner

\* A run being executed is aborted, one that is not is finished here, and
\* one that has ended stays as it is.
Cancel ==
  \E c \in Commands :
    /\ ReaderActs(c) /\ c.type = "run.cancel"
    /\ IF mem.active = c.run /\ Running
       THEN /\ runner' = [runner EXCEPT !.aborted = TRUE]
            /\ reader' = IdleReader
       ELSE /\ reader' = IF Ends(Its(c)) THEN IdleReader
                         ELSE [reader EXCEPT !.pc = "finish"]
            /\ UNCHANGED runner

CancelFinish ==
  /\ reader.pc = "finish"
  /\ Mutate("reader", Finished(reader.cmd.run, "cancelled"))
  /\ reader' = [reader EXCEPT !.pc = "report"]
  /\ UNCHANGED <<broken, runner, shutting, ran, bounds>>

\* run.finished, after a cancel or for a duplicate.
ReaderReports ==
  LET r == reader.cmd.run IN
  /\ reader.pc = "report" /\ writing # "reader"
  /\ Emit("reader", Ended(r, mem.runs[r].outcome))
  /\ reader' = IdleReader
  /\ UNCHANGED <<broken, runner, shutting, ran, bounds>>

AcceptAgain ==
  /\ reader.pc \in {"again", "replay"}
  /\ Emit("reader", Accepted(reader.cmd))
  /\ reader' = IF reader.pc = "again" THEN IdleReader ELSE [reader EXCEPT !.pc = "tell"]
  /\ UNCHANGED <<broken, runner, shutting, ran, bounds>>

\* The messages of the run that its conversation holds are named once more.
TellAgain ==
  LET run == Its(reader.cmd) IN
  /\ reader.pc = "tell" /\ writing # "reader"
  /\ Emit("reader", Told(run.inbox \cap run.ckpt.delivered))
  /\ reader' = [reader EXCEPT !.pc = "report"]
  /\ UNCHANGED <<broken, runner, shutting, ran, bounds>>

-----------------------------------------------------------------------------
(***************************************************************************)
(* The runner: execute, the loop of runAgentTaskDetailed and record.       *)
(***************************************************************************)
At(pc) == runner.pc = pc /\ writing # "runner"
Go(pc) == runner' = [runner EXCEPT !.pc = pc]

\* A step of the runner that writes nothing.
Quietly == UNCHANGED <<journal, broken, reader, shutting, ran, bounds>>
\* The rest of a step that writes.
Rest == UNCHANGED <<broken, reader, shutting, ran, bounds>>

\* The loop is left, and with it everything it held in memory.
Leave(pc, how, op) ==
  runner' = [IdleRunner EXCEPT !.pc = pc, !.run = runner.run, !.how = how,
               !.op = op, !.aborted = runner.aborted]
Throw(how)     == Leave("catch", how, NoOp)
Pause(how, kind) == Leave("catch", how, [turn |-> runner.turn, kind |-> kind])
Return(how)    == Leave("ending", how, NoOp)

\* An answer held while a gate asked for more is delivered whatever the rest
\* of the run meets, unless the run is aborted (deliverHeld).
Delivers == runner.held /\ ~runner.aborted /\ Return("completed")
Stop     == Return("user_stopped") \/ Delivers

\* The session is loaded and the loop restored from the checkpoint.
Restored(ckpt) ==
  IF ~ckpt.saved \/ ckpt.turn = MaxTurns THEN "turn"
  ELSE IF ckpt.response = "unasked" THEN "freeze" ELSE "answered"

Begin ==
  LET ckpt == My.ckpt IN
  /\ At("begin")
  /\ \/ runner' = [runner EXCEPT !.pc = Restored(ckpt), !.turn = ckpt.turn,
                     !.response = ckpt.response, !.delivered = ckpt.delivered,
                     !.held = ckpt.held]
     \/ Throw("failed")
  /\ Quietly

\* signal.throwIfAborted.
Aborted ==
  /\ \/ At("turn") /\ runner.turn < MaxTurns
     \/ At("freeze") \/ At("model") \/ At("answered")
     \/ At("act") /\ runner.response # "answer"
  /\ runner.aborted
  /\ Throw("failed")
  /\ Quietly

OutOfTurns ==
  /\ At("turn") /\ runner.turn = MaxTurns
  /\ Return("max_turns") \/ Delivers
  /\ Quietly

\* injectMessages: new messages enter the conversation, whose checkpoint is
\* saved before they are reported; then the loop goes on where it was.
Inject(turn, next, nextIfFresh) ==
  LET fresh == My.inbox \ runner.delivered IN
  /\ writing = "none"
  /\ runner' = [runner EXCEPT
       !.pc = IF fresh # {} THEN "deliver"
              ELSE IF My.inbox \subseteq runner.told THEN next ELSE "tell",
       !.turn = IF fresh # {} THEN turn ELSE @,
       !.delivered = @ \cup fresh,
       !.held = @ /\ fresh = {},
       !.told = My.inbox,
       !.next = IF fresh # {} THEN nextIfFresh
                ELSE IF My.inbox \subseteq runner.told THEN "idle" ELSE next]
  /\ Quietly

InjectBefore ==
  /\ At("turn") /\ runner.turn < MaxTurns /\ ~runner.aborted
  /\ Inject(runner.turn, "freeze", "freeze")

InjectAfter ==
  /\ At("act") /\ runner.response = "answer"
  /\ Inject(runner.turn + 1, "end", "turn")

SaveCkpt(ckpt) == Mutate("runner", WithRun(runner.run, [My EXCEPT !.ckpt = ckpt]))
Unanswered(turn) ==
  [saved |-> TRUE, turn |-> turn, response |-> "unasked", completed |-> FALSE,
   delivered |-> runner.delivered, held |-> runner.held]

DeliversUnsaved ==
  /\ At("deliver")
  /\ Go("tell")
  /\ Quietly

Deliver ==
  /\ At("deliver")
  /\ SaveCkpt(Unanswered(runner.turn))
  /\ Go("tell")
  /\ Rest

Tell ==
  /\ At("tell")
  /\ Emit("runner", Told(runner.told))
  /\ runner' = [runner EXCEPT !.pc = runner.next, !.next = "idle"]
  /\ Rest

\* completeWithContext saves the exact request before it is paid for.
Freeze ==
  /\ At("freeze") /\ ~runner.aborted
  /\ SaveCkpt(Unanswered(runner.turn))
  /\ Go("model")
  /\ Rest

ModelAnswers ==
  /\ At("model") /\ ~runner.aborted
  /\ \E response \in ToolNames \cup {"answer"} :
       runner' = [runner EXCEPT !.pc = "save", !.response = response]
  /\ Quietly

ModelPauses ==
  /\ At("model") /\ ~runner.aborted
  /\ \E w \in Pauses : Pause(w, "model")
  /\ Quietly

\* The call fails, or the budget is exhausted.
ModelEnds ==
  /\ At("model") /\ ~runner.aborted
  /\ Throw("failed") \/ Return("budget_exhausted") \/ Delivers
  /\ Quietly

\* The answer of the checkpoint is taken as it was.
Replay ==
  /\ At("answered") /\ ~runner.aborted
  /\ Go("save")
  /\ Quietly

Save ==
  /\ At("save")
  /\ SaveCkpt([Unanswered(runner.turn) EXCEPT !.response = runner.response,
                                             !.completed = My.ckpt.completed])
  /\ Go("act")
  /\ Rest

(***************************************************************************)
(* A tool call: record.  Its request is saved before it is executed, its   *)
(* result before the loop takes it; the ids are scoped to the turn.        *)
(***************************************************************************)
Calling == At("act") /\ runner.response \in ToolNames /\ ~runner.aborted
Saved   == My.tools[runner.turn]
Keep(tool) ==
  Mutate("runner", WithRun(runner.run, [My EXCEPT !.tools[runner.turn] = tool]))
NextTurn(r) ==
  [r EXCEPT !.pc = "turn", !.turn = @ + 1, !.response = "unasked"]

ToolCompleted ==
  /\ Calling /\ My.ckpt.completed
  /\ runner' = NextTurn(runner) \/ Stop
  /\ Quietly

ToolReplayed ==
  /\ Calling /\ ~My.ckpt.completed /\ Saved \in {"done", "lost"}
  /\ Go("settle")
  /\ Quietly

Interrupted == Calling /\ ~My.ckpt.completed /\ Saved = "begun"

\* An interrupted shell command is answered with an error, never rerun.
ShellLost ==
  /\ Interrupted /\ runner.response = "run_shell"
  /\ Keep("lost")
  /\ Go("settle")
  /\ Rest

PaidCallLost ==
  /\ Interrupted /\ runner.response = "call_paid_service"
  /\ Throw("failed") \/ Delivers
  /\ Quietly

RerunsInterrupted ==
  /\ Calling /\ ~My.ckpt.completed /\ Saved \notin {"done", "lost"}
  /\ Keep("begun")
  /\ Go("execute")
  /\ Rest

ToolBegins ==
  /\ Calling /\ ~My.ckpt.completed /\ Saved \notin {"done", "lost"}
  /\ Saved = "begun" => runner.response = "read_file"
  /\ Keep("begun")
  /\ Go("execute")
  /\ Rest

Counted == runner.response # "read_file"

ToolExecutes ==
  /\ At("execute")
  /\ Go("tool")
  /\ ran' = IF Counted THEN [ran EXCEPT ![runner.run][runner.turn] = @ + 1] ELSE ran
  /\ UNCHANGED <<journal, broken, reader, shutting, bounds>>

ToolReturns ==
  /\ At("tool")
  /\ Go("result")
  /\ Quietly

WaitsForTheTool == At("tool") /\ runner.aborted /\ Go("result") /\ Quietly

\* withinDeadline: a tool that does not return is answered for.
ToolDeadline ==
  /\ At("tool")
  /\ Go("result")
  /\ Quietly

\* The purchase waits for the owner's approval: nothing was bought.
ToolPauses ==
  /\ At("tool") /\ runner.response = "call_paid_service"
  /\ "waiting_for_approval" \in Pauses
  /\ Go("approval")
  /\ ran' = [ran EXCEPT ![runner.run][runner.turn] = @ - 1]
  /\ UNCHANGED <<journal, broken, reader, shutting, bounds>>

ToolThrows ==
  /\ At("tool")
  /\ Throw("failed") \/ Throw("user_stopped") \/ Delivers
  /\ Quietly

KeepApproval ==
  /\ At("approval")
  /\ Keep("approval")
  /\ Pause("waiting_for_approval", "paid") \/ Delivers
  /\ Rest

KeepResult ==
  /\ At("result")
  /\ Keep("done")
  /\ Go("settle")
  /\ Rest

\* The loop saves the result; repeated failures stop the run.
Settle ==
  /\ At("settle")
  /\ SaveCkpt([My.ckpt EXCEPT !.completed = TRUE, !.delivered = runner.delivered])
  /\ runner' = NextTurn(runner) \/ Stop
  /\ Rest

\* The completion gate: the answer is delivered, the model is asked for
\* another turn (and its answer held, if it is one), or the gate throws.
Complete ==
  /\ At("end")
  /\ Return("completed") \/ Stop \/ Throw("failed")
  /\ Quietly

Nudge ==
  /\ At("end")
  /\ \E held \in {TRUE, runner.held} :
       /\ SaveCkpt([Unanswered(runner.turn + 1) EXCEPT !.held = held])
       /\ runner' = [NextTurn(runner) EXCEPT !.held = held]
  /\ Rest

(***************************************************************************)
(* How execute ends.                                                       *)
(***************************************************************************)
Catch ==
  /\ At("catch")
  /\ runner' = IF runner.aborted
               THEN [runner EXCEPT !.pc = "ending", !.how = "cancelled", !.op = NoOp]
               ELSE [runner EXCEPT !.pc = IF Waiting(runner.how) THEN "pause" ELSE "ending"]
  /\ Quietly

KeepsFirstOperation ==
  /\ At("pause")
  /\ Mutate("runner", IF My.pending = NoOp
                      THEN WithRun(runner.run, [My EXCEPT !.pending = runner.op])
                      ELSE mem)
  /\ Go("ending")
  /\ Rest

KeepOperation ==
  /\ At("pause")
  /\ Mutate("runner", WithRun(runner.run, [My EXCEPT !.pending = runner.op]))
  /\ Go("ending")
  /\ Rest

Finish ==
  /\ At("ending")
  /\ Mutate("runner", Finished(runner.run, runner.how))
  /\ Go("report")
  /\ Rest

Report ==
  /\ At("report")
  /\ Emit("runner", Ended(runner.run, runner.how))
  /\ Go("done")
  /\ Rest

Done ==
  /\ At("done")
  /\ runner' = IdleRunner
  /\ Quietly

-----------------------------------------------------------------------------
(***************************************************************************)
(* The process and its environment.                                        *)
(***************************************************************************)
\* A new process starts from what is on disk.
Restart(state) ==
  /\ disk' = state /\ mem' = state
  /\ writing' = "none" /\ line' = shown
  /\ broken' = FALSE /\ shutting' = FALSE
  /\ reader' = IdleReader /\ runner' = IdleRunner
  /\ UNCHANGED <<shown, ran, lines>>

Mishap(kind) == kind \in Mishaps /\ left > 0 /\ left' = left - 1

\* The rename of worker.json happened, or it did not.
OnDisk == IF writing = "none" THEN {disk} ELSE {disk, mem}

Crash == Mishap("crash") /\ \E state \in OnDisk : Restart(state)

\* A write fails.  handleLine throws and the process ends; execute throws,
\* and the process lives on until the reader mutates again.
WriteFails ==
  /\ writing # "none" /\ Mishap("disk")
  /\ \E state \in OnDisk :
       \/ writing = "reader" /\ Restart(state)
       \/ /\ writing = "runner"
          /\ disk' = state /\ writing' = "none" /\ line' = shown
          /\ broken' = TRUE
          /\ runner' = IdleRunner
          /\ UNCHANGED <<mem, shown, reader, shutting, ran, lines>>

ReaderThrows == broken /\ Restart(disk) /\ UNCHANGED left

\* The supervisor closes stdin after a shutdown.
InputEnds ==
  /\ shutting /\ reader = IdleReader /\ ~Running /\ writing = "none" /\ ~broken
  /\ Restart(disk)
  /\ UNCHANGED left

-----------------------------------------------------------------------------
Init ==
  /\ mem = NewState /\ disk = NewState
  /\ writing = "none" /\ broken = FALSE
  /\ reader = IdleReader /\ runner = IdleRunner /\ shutting = FALSE
  /\ shown = [accepted |-> {}, told |-> {}, ended |-> [r \in Runs |-> "none"]]
  /\ line = shown
  /\ ran = [r \in Runs |-> [t \in Turns |-> 0]]
  /\ lines = 0 /\ left = MaxMishaps

ReadLine == \/ ReadShutdown \/ ReadCancel \/ ReadMessage \/ ReadDuplicate
            \/ ReadFinished \/ ReadRun
ReaderStep == \/ Drained \/ Record \/ Accept \/ Execute \/ Cancel \/ CancelFinish
              \/ ReaderReports \/ AcceptAgain \/ TellAgain
LoopStep == \/ Begin \/ Aborted \/ OutOfTurns \/ InjectBefore \/ InjectAfter
            \/ Deliver \/ Tell \/ Freeze \/ ModelAnswers \/ ModelPauses
            \/ ModelEnds \/ Replay \/ Save \/ Settle \/ Complete \/ Nudge
ToolStep == \/ ToolCompleted \/ ToolReplayed \/ ShellLost \/ PaidCallLost
            \/ ToolBegins \/ ToolExecutes \/ ToolDeadline \/ KeepApproval
            \/ KeepResult
ToolAnswers == ToolReturns \/ ToolPauses \/ ToolThrows
EndStep  == Catch \/ KeepOperation \/ Finish \/ Report \/ Done
RunnerStep == LoopStep \/ ToolStep \/ EndStep
Faults == Crash \/ WriteFails \/ ReaderThrows \/ InputEnds
Next == ReadLine \/ ReaderStep \/ WriteDone \/ RunnerStep \/ ToolAnswers \/ Faults
Spec == Init /\ [][Next]_vars

\* Writes end, the reader and the runner go on; a tool need not answer.
FairSpec == Spec /\ WF_vars(WriteDone) /\ WF_vars(ReaderStep) /\ WF_vars(RunnerStep)

-----------------------------------------------------------------------------
(***************************************************************************)
(* Properties.                                                             *)
(***************************************************************************)
\* Every variable stays in its type.
TypeOK ==
  /\ mem \in State /\ disk \in State
  /\ writing \in {"none", "reader", "runner"} /\ broken \in BOOLEAN
  /\ reader \in Reader /\ runner \in Runner /\ shutting \in BOOLEAN
  /\ line \in Shown /\ shown \in Shown
  /\ ran \in [Runs -> [Turns -> Nat]]
  /\ lines \in 0..MaxLines /\ left \in 0..MaxMishaps

\* What the supervisor was told survives every crash: an accepted command, a
\* message of the conversation (inbox.ts: acknowledgement follows the
\* checkpoint) and a terminal outcome are in worker.json.
ShownIsDurable ==
  /\ shown.accepted \subseteq disk.commands
  /\ \A m \in shown.told : m \in disk.runs[m.run].ckpt.delivered
  /\ \A r \in Runs : shown.ended[r] \in Terminal =>
       disk.runs[r].outcome = shown.ended[r]

Unfinished(state) == {r \in Runs : state.runs[r].started /\ ~Ends(state.runs[r])}

\* One run per agent is unfinished at any time, whatever is sent, sent again
\* or cancelled, and it is the one activeRunId names (handleLine's checks).
OneUnfinishedRun ==
  \A state \in {mem, disk} :
    \A r \in Unfinished(state) : state.active = r

\* A run that has ended stays ended as it did: no repeated start, late
\* resume, cancel or crash opens it again or changes its outcome.
EndedStaysEnded ==
  [][\A r \in Runs : Ends(disk.runs[r]) =>
       disk'.runs[r].outcome = disk.runs[r].outcome]_vars

\* A shell command is executed once and a purchase is sent once, through
\* crashes, pauses, failed writes and repeated commands, and a result the
\* loop was given is that of its own turn (record).
ToolsRunOnce ==
  /\ \A r \in Runs, t \in Turns : ran[r][t] <= 1
  /\ \A r \in Runs : LET c == disk.runs[r].ckpt IN
       c.completed /\ c.response \in {"run_shell", "call_paid_service"} =>
         ran[r][c.turn] = 1 \/ disk.runs[r].tools[c.turn] = "lost"

\* A paused run goes on with the operation it waits for: the checkpoint and
\* the tool record on disk lead back to pendingOperationId and to no other.
PauseLeadsBack ==
  \A r \in Runs : LET run == disk.runs[r] IN
    Waiting(run.outcome) =>
      /\ run.ckpt.saved /\ run.ckpt.turn = run.pending.turn
      /\ ~run.ckpt.completed
      /\ CASE run.pending.kind = "model" -> run.ckpt.response = "unasked"
           [] run.pending.kind = "paid"  ->
                /\ run.ckpt.response = "call_paid_service"
                /\ run.tools[run.ckpt.turn] = "approval"
           [] OTHER -> FALSE

\* The owner hears back: an executing run comes to an end, even when a tool
\* never returns, however it is interrupted (withinDeadline).
RunnerEnds == Running ~> ~Running

(***************************************************************************)
(* What the documents say, and the code does not do.                       *)
(***************************************************************************)
Quiescent == writing = "none" /\ reader = IdleReader /\ ~Running /\ ~broken

\* worker.ts:392-393: a run that waits is cancelled before the next message
\* starts its own; an accepted cancel leaves no run waiting.
CancelEndsTheWait ==
  Quiescent => \A c \in shown.accepted :
    c.type = "run.cancel" => ~Waiting(disk.runs[c.run].outcome)

=============================================================================
