------------------------------ MODULE WorkerProof ------------------------------
(***************************************************************************)
(* Proofs about Worker, for any number of runs, commands, turns, crashes   *)
(* and failed writes: what stdout has shown is durable, one run of the     *)
(* agent is unfinished at a time and an ended one stays ended, a tool      *)
(* that counts is executed once, and a pause leads back to its operation.  *)
(*                                                                         *)
(* All five rest on one inductive invariant of three parts: what the two   *)
(* copies of the state hold and how they differ (JournalInv), what the     *)
(* reader relies on between two steps of a line (ReaderInv), and what the  *)
(* loop in memory and the checkpoint have in common (RunnerInv).           *)
(***************************************************************************)
EXTENDS Worker, TLAPS

USE WorkerAssumption

-----------------------------------------------------------------------------
(***************************************************************************)
(* The invariant.                                                          *)
(***************************************************************************)
Counts(response) == response \in {"run_shell", "call_paid_service"}

\* No tool of the turns from t on was asked for.
ClearFrom(run, t) == \A u \in Turns : t <= u => run.tools[u] = "none"

\* The tools of a run, its checkpoint and the number of executions n agree.
ToolsAgree(run, n) ==
  LET c == run.ckpt IN
  /\ \A t \in Turns : n[t] <= 1
  /\ \A t \in Turns : run.tools[t] \in {"none", "approval"} => n[t] = 0
  /\ ~c.saved \/ c.response = "unasked" => ~c.completed /\ ClearFrom(run, c.turn)
  /\ ClearFrom(run, c.turn + 1)
  /\ c.turn \in Turns =>
       /\ c.response = "read_file" => n[c.turn] = 0
       /\ Counts(c.response) /\ run.tools[c.turn] = "done" => n[c.turn] = 1
       /\ Counts(c.response) /\ c.completed =>
            n[c.turn] = 1 \/ run.tools[c.turn] = "lost"
  /\ c.turn = MaxTurns => ~c.completed

\* The checkpoint and the tool record lead back to the operation op.
LeadsTo(run, op) ==
  /\ run.ckpt.saved /\ run.ckpt.turn = op.turn /\ ~run.ckpt.completed
  /\ \/ op.kind = "model" /\ run.ckpt.response = "unasked"
     \/ /\ op.kind = "paid" /\ op.turn \in Turns
        /\ run.ckpt.response = "call_paid_service" /\ run.tools[op.turn] = "approval"

RunOK(r, run, n) ==
  /\ ~run.started => run.outcome = "none"
  /\ \A m \in run.inbox : m.run = r
  /\ Waiting(run.outcome) => LeadsTo(run, run.pending)
  /\ ToolsAgree(run, n)

StateOK(state, n) ==
  \A r \in Runs : /\ RunOK(r, state.runs[r], n[r])
                  /\ r \in Unfinished(state) => state.active = r

\* What no later state takes back.
Follows(new, old) ==
  /\ old.commands \subseteq new.commands
  /\ \A r \in Runs :
       /\ Ends(old.runs[r]) => new.runs[r].outcome = old.runs[r].outcome
       /\ old.runs[r].ckpt.delivered \subseteq new.runs[r].ckpt.delivered

ShownIn(out, state) ==
  /\ out.accepted \subseteq state.commands
  /\ \A m \in out.told : m \in state.runs[m.run].ckpt.delivered
  /\ \A r \in Runs : out.ended[r] \in Terminal =>
       state.runs[r].outcome = out.ended[r]

JournalInv ==
  /\ StateOK(mem, ran) /\ StateOK(disk, ran)
  /\ Follows(mem, disk)
  /\ writing = "none" /\ ~broken => mem = disk
  /\ writing = "runner" => Running
  /\ broken => writing = "none" /\ ~Running
  /\ ShownIn(shown, disk) /\ ShownIn(line, mem)

\* A line that starts a run finds nothing running and the agent free, and a
\* cancel that finishes a run itself finds it neither executed nor ended.
ReaderInv ==
  LET c == reader.cmd IN
  /\ reader.pc # "idle" => c \in Commands
  /\ reader.pc = "drain" => c.type = "worker.shutdown"
  /\ reader.pc \in {"accept", "act", "again", "replay"} => c \in mem.commands
  /\ reader.pc \in {"again", "replay", "tell"} => StartsRun(c)
  /\ reader.pc = "act" => StartsRun(c) \/ c.type = "run.cancel"
  /\ reader.pc \in {"finish", "report"} => c.run \in Runs
  /\ reader.pc \in {"record", "accept", "act"} /\ c.type = "run.cancel" => Its(c).started
  /\ reader.pc \in {"record", "accept", "act"} /\ StartsRun(c) => ~Running /\ ~broken
  /\ reader.pc = "record" /\ StartsRun(c) => AgentFree(c) /\ ~Ends(Its(c))
  /\ reader.pc \in {"accept", "act"} /\ StartsRun(c) =>
       mem.active = c.run /\ Its(c).started /\ Its(c).outcome = "none"
  /\ reader.pc = "finish" => ~Running /\ Its(c).started /\ ~Ends(Its(c))

\* Where the loop is.
Asking  == {"freeze", "model"}
Called  == {"execute", "tool", "result", "approval", "settle"}
InLoop  == {"turn", "deliver", "tell", "answered", "save", "act", "end"} \cup Asking \cup Called
Begun   == {"execute", "tool", "result", "approval"}

\* The conversation in memory and the one in the checkpoint.
TalkAgrees(q, run) ==
  /\ run.ckpt.delivered \subseteq q.delivered
  /\ q.pc # "deliver" => q.delivered \subseteq run.ckpt.delivered
  /\ q.told \subseteq q.delivered
  /\ \A m \in q.told : m.run = q.run
  /\ q.pc = "tell"    => q.next \in {"freeze", "turn", "end"}
  /\ q.pc = "deliver" => q.next \in {"freeze", "turn"}

\* Where a step leads that first tells of messages.
Leading(q) == IF q.pc \in {"tell", "deliver"} THEN q.next ELSE q.pc

\* The turn in memory and the one in the checkpoint.
TurnAgrees(q, run, n) ==
  LET to == Leading(q) c == run.ckpt IN
  /\ to # "turn" => q.turn \in Turns
  /\ to \in {"turn", "freeze", "model"} => ClearFrom(run, q.turn)
  /\ to \notin {"turn", "freeze"} => c.saved /\ c.turn = q.turn
  /\ to = "model" => c.response = "unasked"
  /\ to = "save" => c.response \in {"unasked", q.response}
  /\ to \in {"answered", "act", "end"} \cup Called => c.response = q.response
  /\ to \in {"answered", "save", "act"} => q.response \in ToolNames \cup {"answer"}
  /\ to = "end" => q.response = "answer"
  /\ to \in Called => q.response \in ToolNames
  /\ to \in Begun => run.tools[q.turn] = "begun" /\ ~c.completed
  /\ to \in {"execute", "approval"} => n[q.turn] = 0
  /\ to \in {"tool", "result"} /\ Counts(q.response) => n[q.turn] = 1
  /\ to = "approval" => q.response = "call_paid_service"
  /\ to = "settle" => run.tools[q.turn] \in {"done", "lost"}

RunnerOK(q, run, n) ==
  /\ q.pc = "begin" => q.told = {}
  /\ q.pc \in InLoop => TalkAgrees(q, run) /\ TurnAgrees(q, run, n)
  /\ q.pc \in {"catch", "pause", "ending"} => q.how \in Waits \cup Terminal
  /\ q.pc = "catch" /\ Waiting(q.how) => LeadsTo(run, q.op)
  /\ q.pc = "pause" => LeadsTo(run, q.op)
  /\ q.pc = "ending" /\ Waiting(q.how) => LeadsTo(run, run.pending)
  /\ q.pc \notin {"report", "done"} => run.started /\ run.outcome = "none"
  /\ q.pc = "report" => run.outcome = q.how

SameButInbox(a, b) ==
  /\ a.started = b.started /\ a.outcome = b.outcome /\ a.pending = b.pending
  /\ a.ckpt = b.ckpt /\ a.tools = b.tools

RunnerInv ==
  Running =>
    /\ runner.run \in Runs
    /\ writing # "runner" => SameButInbox(mem.runs[runner.run], disk.runs[runner.run])
    /\ runner.pc \notin {"report", "done"} => mem.active = runner.run
    /\ RunnerOK(runner, My, ran[runner.run])

Inv == TypeOK /\ JournalInv /\ ReaderInv /\ RunnerInv

-----------------------------------------------------------------------------
(***************************************************************************)
(* The initial state.                                                      *)
(***************************************************************************)
LEMMA Starts == Init => Inv
<1> SUFFICES ASSUME Init PROVE Inv OBVIOUS
<1>1. NewRun \in Run
  BY DEF NewRun, NoCkpt, NoOp, Run, Ckpt, Responses, Ops, ToolStates
<1>2. NewState \in State
  BY <1>1 DEF NewState, State
<1>3. IdleReader \in Reader /\ IdleRunner \in Runner
  BY DEF IdleReader, IdleRunner, Reader, Runner, ReaderPCs, RunnerPCs, Responses, Ops, NoOp
<1>4. shown \in Shown /\ line = shown
  BY DEF Init, Shown
<1>5. TypeOK
  <2>1. ran \in [Runs -> [Turns -> Nat]] BY DEF Init
  <2>2. lines \in 0..MaxLines /\ left \in 0..MaxMishaps BY DEF Init
  <2> QED BY <1>2, <1>3, <1>4, <2>1, <2>2 DEF Init, TypeOK
<1>6. \A r \in Runs : ToolsAgree(NewRun, ran[r])
  BY DEF Init, ToolsAgree, NewRun, NoCkpt, ClearFrom, Counts
<1>7. StateOK(NewState, ran)
  BY <1>6 DEF StateOK, RunOK, NewState, NewRun, Waiting, Waits, Unfinished
<1>8. ShownIn(shown, NewState)
  BY DEF Init, ShownIn, Terminal
<1>9. JournalInv
  BY <1>7, <1>8 DEF Init, JournalInv, Follows, Running, IdleRunner
<1>10. ReaderInv /\ RunnerInv
  BY DEF Init, ReaderInv, IdleReader, RunnerInv, Running, IdleRunner
<1> QED BY <1>5, <1>9, <1>10 DEF Inv

-----------------------------------------------------------------------------
(***************************************************************************)
(* What a step may not disturb.                                            *)
(***************************************************************************)
\* A supervisor that was told something is still told the truth later.
LEMMA ShownStays ==
  ASSUME NEW old \in State, NEW new \in State, NEW out \in Shown,
         ShownIn(out, old), Follows(new, old)
  PROVE  ShownIn(out, new)
<1>1. \A m \in Messages : m.run \in Runs
  BY DEF Messages, Command
<1>2. \A m \in out.told : m \in new.runs[m.run].ckpt.delivered
  BY <1>1 DEF ShownIn, Follows, Shown
<1>3. \A r \in Runs : old.runs[r].outcome \in Terminal => Ends(old.runs[r])
  BY DEF Ends, Terminal, Waiting, Waits
<1>4. \A r \in Runs : out.ended[r] \in Terminal => new.runs[r].outcome = out.ended[r]
  BY <1>3 DEF ShownIn, Follows
<1> QED BY <1>2, <1>4 DEF ShownIn, Follows

\* Whether the tools agree depends on the checkpoint and the tools alone.
LEMMA ToolsAgreeStays ==
  ASSUME NEW run, NEW old, NEW n, ToolsAgree(old, n), run.ckpt = old.ckpt, run.tools = old.tools
  PROVE  ToolsAgree(run, n)
BY DEF ToolsAgree, ClearFrom

LEMMA FollowsItself == ASSUME NEW s PROVE Follows(s, s)
BY DEF Follows

\* A mutation whose result is sound and takes nothing back.
LEMMA MutateKeeps ==
  ASSUME TypeOK, JournalInv, NEW who \in {"reader", "runner"}, NEW s \in State,
         Mutate(who, s), StateOK(s, ran), Follows(s, mem),
         UNCHANGED <<broken, ran>>, who = "runner" => Running'
  PROVE  JournalInv'
<1>1. mem = disk /\ ~broken /\ writing' = who /\ mem' = s /\ disk' = disk
      /\ line' = shown /\ shown' = shown /\ broken' = broken /\ ran' = ran
  BY DEF Mutate, JournalInv
<1>2. ShownIn(shown, s)
  BY <1>1, ShownStays DEF JournalInv, TypeOK
<1>3. StateOK(mem, ran)' /\ StateOK(disk, ran)' /\ Follows(mem, disk)'
  BY <1>1 DEF JournalInv
<1>4. ShownIn(shown, disk)' /\ ShownIn(line, mem)'
  BY <1>1, <1>2 DEF JournalInv
<1> QED BY <1>1, <1>3, <1>4 DEF JournalInv

\* An event that says what is true.
LEMMA EmitKeeps ==
  ASSUME TypeOK, JournalInv, NEW who \in {"reader", "runner"}, NEW out,
         Emit(who, out), ShownIn(out, mem), UNCHANGED <<broken, ran>>,
         who = "runner" => Running'
  PROVE  JournalInv'
<1>1. mem = disk /\ ~broken /\ writing' = who /\ mem' = mem /\ disk' = disk
      /\ line' = out /\ shown' = shown /\ broken' = broken /\ ran' = ran
  BY DEF Emit, JournalInv
<1>2. StateOK(mem, ran)' /\ StateOK(disk, ran)' /\ Follows(mem, disk)'
      /\ ShownIn(shown, disk)' /\ ShownIn(line, mem)'
  BY <1>1 DEF JournalInv
<1> QED BY <1>1, <1>2 DEF JournalInv

\* A step that writes nothing.
LEMMA QuietKeeps ==
  ASSUME JournalInv, UNCHANGED <<journal, broken, ran>>,
         writing = "runner" => Running', broken => ~Running'
  PROVE  JournalInv'
<1>1. mem' = mem /\ disk' = disk /\ writing' = writing /\ broken' = broken /\ ran' = ran
      /\ line' = line /\ shown' = shown
  BY DEF journal
<1>2. StateOK(mem, ran)' /\ StateOK(disk, ran)' /\ Follows(mem, disk)'
      /\ ShownIn(shown, disk)' /\ ShownIn(line, mem)'
  BY <1>1 DEF JournalInv
<1> QED BY <1>1, <1>2 DEF JournalInv

\* While a run is executed, the reader has nothing that relies on a free agent.
LEMMA ReaderStays ==
  ASSUME ReaderInv, Running, UNCHANGED reader,
         mem.commands \subseteq mem'.commands,
         \A r \in Runs : mem.runs[r].started => mem'.runs[r].started
  PROVE  ReaderInv'
<1> DEFINE c == reader.cmd
<1>1. c' = c /\ reader' = reader OBVIOUS
<1>2. c.type = "run.cancel" /\ c \in Commands => c.run \in Runs BY DEF Command
<1>3. reader.pc \in {"record", "accept", "act"} => ~StartsRun(c)
  BY DEF ReaderInv
<1>4. reader.pc # "finish" BY DEF ReaderInv
<1>5. StartsRun(c)' <=> StartsRun(c) BY <1>1 DEF StartsRun
<1> QED BY <1>1, <1>2, <1>3, <1>4, <1>5 DEF ReaderInv, Its

\* What is known of the loop does not depend on the inbox, nor on a cancel.
LEMMA RunnerOKStays ==
  ASSUME NEW q, NEW p, NEW run, NEW old, NEW n, RunnerOK(q, old, n), SameButInbox(run, old),
         p.pc = q.pc, p.run = q.run, p.turn = q.turn, p.response = q.response,
         p.delivered = q.delivered, p.told = q.told, p.next = q.next, p.how = q.how, p.op = q.op
  PROVE  RunnerOK(p, run, n)
<1>1. TalkAgrees(q, old) => TalkAgrees(p, run)
  BY DEF TalkAgrees, SameButInbox
<1>2. TurnAgrees(q, old, n) => TurnAgrees(p, run, n)
  BY DEF TurnAgrees, SameButInbox, Leading, ClearFrom
<1>3. \A op : LeadsTo(old, op) => LeadsTo(run, op)
  BY DEF LeadsTo, SameButInbox
<1> QED BY <1>1, <1>2, <1>3 DEF RunnerOK, SameButInbox

\* A step of the reader or the disk while a run is executed, or is not.
LEMMA RunnerStays ==
  ASSUME RunnerInv, runner.run \in Runs => SameButInbox(mem'.runs[runner.run], My),
         UNCHANGED ran,
         Running' => Running,
         Running => \/ runner' = runner
                    \/ runner' = [runner EXCEPT !.aborted = TRUE] /\ runner \in Runner,
         Running /\ writing' # "runner" /\ runner.run \in Runs =>
           SameButInbox(mem'.runs[runner.run], disk'.runs[runner.run]),
         Running => mem'.active = mem.active
  PROVE  RunnerInv'
<1> SUFFICES ASSUME Running' PROVE RunnerInv' BY DEF RunnerInv
<1>1. Running OBVIOUS
<1>2. runner'.pc = runner.pc /\ runner'.run = runner.run /\ runner'.turn = runner.turn
      /\ runner'.response = runner.response /\ runner'.delivered = runner.delivered
      /\ runner'.told = runner.told /\ runner'.next = runner.next
      /\ runner'.how = runner.how /\ runner'.op = runner.op
  BY <1>1 DEF Runner
<1>3. RunnerOK(runner, My, ran[runner.run]) /\ runner.run \in Runs
  BY <1>1 DEF RunnerInv
<1>4. RunnerOK(runner', mem'.runs[runner.run], ran[runner.run])
  BY <1>2, <1>3, RunnerOKStays
<1>5. RunnerOK(runner, My, ran[runner.run])'
  BY <1>2, <1>4 DEF My
<1> QED BY <1>1, <1>2, <1>3, <1>5 DEF RunnerInv

-----------------------------------------------------------------------------
(***************************************************************************)
(* The steps of the loop: each leaves the run it executes as RunnerOK says *)
(* and, when it saves, gives the run's record a sound value.               *)
(***************************************************************************)
LEMMA WithRunIs ==
  ASSUME NEW s \in State, NEW r \in Runs, NEW new \in Run
  PROVE  LET t == [s EXCEPT !.runs[r] = new] IN
         /\ t \in State /\ t.commands = s.commands /\ t.active = s.active
         /\ t.runs[r] = new /\ \A o \in Runs : o # r => t.runs[o] = s.runs[o]
BY DEF State

\* The loop writes nothing.
LEMMA RunnerQuiet ==
  ASSUME Inv, Running, runner.pc \notin {"report", "done"}, writing # "runner",
         Quietly, UNCHANGED bounds, runner' \in Runner, runner'.run = runner.run,
         runner'.pc \notin {"idle", "report", "done"},
         RunnerOK(runner', My, ran[runner.run])
  PROVE  Inv'
<1>1. mem' = mem /\ disk' = disk /\ writing' = writing /\ line' = line /\ shown' = shown
      /\ broken' = broken /\ ran' = ran /\ reader' = reader /\ shutting' = shutting
  BY DEF Quietly, journal
<1>2. Running' BY DEF Running
<1>3. TypeOK' BY <1>1 DEF Inv, TypeOK, bounds
<1>4. JournalInv' BY <1>1, <1>2, QuietKeeps DEF Inv, JournalInv, journal
<1>5. ReaderInv' BY <1>1, ReaderStays DEF Inv
<1>6. RunnerInv' BY <1>1 DEF Inv, RunnerInv, My
<1> QED BY <1>3, <1>4, <1>5, <1>6 DEF Inv

\* The loop saves a new record of its run.
LEMMA RunnerSaves ==
  ASSUME Inv, Running, runner.pc \notin {"report", "done"}, NEW new \in Run,
         Mutate("runner", WithRun(runner.run, new)), Rest,
         new.started = My.started, new.outcome = My.outcome, new.inbox = My.inbox,
         My.ckpt.delivered \subseteq new.ckpt.delivered,
         ToolsAgree(new, ran[runner.run]),
         runner' \in Runner, runner'.run = runner.run,
         runner'.pc \notin {"idle", "report", "done"},
         RunnerOK(runner', new, ran[runner.run])
  PROVE  Inv'
<1> DEFINE r == runner.run
           s == WithRun(r, new)
<1>1. r \in Runs /\ mem.active = r /\ My.started /\ My.outcome = "none" /\ mem \in State
  BY DEF Inv, RunnerInv, RunnerOK, TypeOK
<1>2. /\ s \in State /\ s.commands = mem.commands /\ s.active = mem.active
      /\ s.runs[r] = new /\ \A o \in Runs : o # r => s.runs[o] = mem.runs[o]
  BY <1>1, WithRunIs DEF WithRun
<1>3. writing' = "runner" /\ mem' = s /\ disk' = disk /\ line' = shown /\ shown' = shown
  BY DEF Mutate
<1>4. broken' = broken /\ ran' = ran /\ reader' = reader /\ shutting' = shutting /\ bounds' = bounds
  BY DEF Rest
<1> HIDE DEF s
<1>5. Running' BY DEF Running
<1>6. TypeOK' BY <1>2, <1>3, <1>4 DEF Inv, TypeOK, bounds
<1>7. StateOK(s, ran)
  <2>1. RunOK(r, new, ran[r])
    BY <1>1 DEF Inv, JournalInv, StateOK, RunOK, My, Waiting, Waits
  <2> QED BY <1>1, <1>2, <2>1 DEF Inv, JournalInv, StateOK, Unfinished
<1>8. Follows(s, mem)
  BY <1>1, <1>2 DEF Follows, My, Ends
<1>9. JournalInv'
  BY <1>2, <1>4, <1>5, <1>7, <1>8, MutateKeeps DEF Inv, s
<1>10. ReaderInv'
  BY <1>1, <1>2, <1>3, <1>4, ReaderStays DEF Inv, My
<1>11. RunnerInv'
  BY <1>1, <1>2, <1>3, <1>4 DEF Inv, RunnerInv, My
<1> QED BY <1>6, <1>9, <1>10, <1>11 DEF Inv

\* What every step of the loop finds.
LEMMA LoopFinds ==
  ASSUME Inv, Running, runner.pc \in InLoop
  PROVE  /\ runner \in Runner /\ My \in Run /\ runner.run \in Runs
         /\ TalkAgrees(runner, My) /\ TurnAgrees(runner, My, ran[runner.run])
         /\ ToolsAgree(My, ran[runner.run]) /\ ran[runner.run] \in [Turns -> Nat]
         /\ My.started /\ My.outcome = "none"
         /\ runner.pc \notin {"idle", "report", "done", "catch", "pause", "ending"}
<1>1. runner.pc \notin {"idle", "report", "done", "catch", "pause", "ending"}
  BY DEF InLoop, Asking, Called
<1>2. runner \in Runner /\ My \in Run /\ runner.run \in Runs
  BY DEF Inv, TypeOK, State, RunnerInv, My
<1>3. ToolsAgree(My, ran[runner.run])
  BY <1>2 DEF Inv, JournalInv, StateOK, RunOK, My
<1>4. ran[runner.run] \in [Turns -> Nat]
  BY <1>2 DEF Inv, TypeOK
<1> QED BY <1>1, <1>2, <1>3, <1>4 DEF Inv, RunnerInv, RunnerOK

\* The loop is left for the end of execute.
LEMMA Leaves ==
  ASSUME Inv, Running, runner.pc \in InLoop \cup {"begin"}, writing # "runner", Quietly,
         NEW pc \in {"catch", "ending"}, NEW how \in Waits \cup Terminal, NEW op \in Ops,
         Leave(pc, how, op), Waiting(how) => pc = "catch" /\ LeadsTo(My, op)
  PROVE  Inv'
<1>1. runner \in Runner /\ runner.pc \notin {"report", "done"} /\ My.started
      /\ My.outcome = "none"
  BY DEF Inv, TypeOK, InLoop, Asking, Called, RunnerInv, RunnerOK
<1>2. /\ runner' \in Runner /\ runner'.pc = pc /\ runner'.how = how /\ runner'.op = op
      /\ runner'.run = runner.run
  <2>1. IdleRunner \in Runner
    BY DEF IdleRunner, Runner, RunnerPCs, Responses, NoOp, Ops
  <2>2. pc \in RunnerPCs BY DEF RunnerPCs
  <2>3. runner.run \in Runs \cup {NoRun} /\ runner.aborted \in BOOLEAN
    BY <1>1 DEF Runner
  <2> QED BY <2>1, <2>2, <2>3 DEF Leave, Runner
<1>3. RunnerOK(runner', My, ran[runner.run])
  BY <1>1, <1>2 DEF RunnerOK, InLoop, Asking, Called
<1> QED BY <1>1, <1>2, <1>3, RunnerQuiet DEF Quietly

\* The ways out that are no pause.
LEMMA Throws ==
  ASSUME Inv, Running, runner.pc \in InLoop \cup {"begin"}, writing # "runner", Quietly,
         \/ \E how \in Terminal : Throw(how) \/ Return(how)
         \/ Delivers \/ Stop
  PROVE  Inv'
<1>1. NoOp \in Ops BY DEF NoOp, Ops
<1>2. \A how \in Terminal : ~Waiting(how) BY DEF Terminal, Waiting, Waits
<1>3. PICK pc \in {"catch", "ending"}, how \in Terminal : Leave(pc, how, NoOp)
  BY DEF Throw, Return, Delivers, Stop, Terminal
<1> QED BY <1>1, <1>2, <1>3, Leaves

\* A new checkpoint of a turn of which no tool was asked for.
LEMMA UnansweredAgrees ==
  ASSUME NEW run \in Run, NEW n \in [Turns -> Nat], ToolsAgree(run, n), NEW c \in Ckpt,
         ClearFrom(run, c.turn), c.response = "unasked", ~c.completed
  PROVE  LET new == [run EXCEPT !.ckpt = c] IN
         /\ new \in Run /\ ToolsAgree(new, n) /\ new.tools = run.tools /\ new.ckpt = c
         /\ new.started = run.started /\ new.outcome = run.outcome /\ new.inbox = run.inbox
<1> DEFINE new == [run EXCEPT !.ckpt = c]
<1>1. /\ new \in Run /\ new.tools = run.tools /\ new.ckpt = c /\ new.started = run.started
      /\ new.outcome = run.outcome /\ new.inbox = run.inbox
  BY DEF Run
<1>2. c.turn \in Nat BY DEF Ckpt
<1>3. ClearFrom(new, c.turn) /\ ClearFrom(new, c.turn + 1)
  BY <1>1, <1>2 DEF ClearFrom, Turns
<1> HIDE DEF new
<1>4. ToolsAgree(new, n) BY <1>1, <1>3 DEF ToolsAgree, Counts
<1> QED BY <1>1, <1>4 DEF new

\* A new record of the tool of the turn at hand.
Keeps(new, run, t, tool) == new = [run EXCEPT !.tools[t] = tool]

LEMMA KeepAgrees ==
  ASSUME NEW run \in Run, NEW n \in [Turns -> Nat], ToolsAgree(run, n), NEW t \in Turns,
         run.ckpt.turn = t, run.ckpt.saved, run.ckpt.response # "unasked", ~run.ckpt.completed,
         NEW tool \in {"begun", "approval", "done", "lost"},
         tool = "approval" => n[t] = 0,
         tool = "done" /\ Counts(run.ckpt.response) => n[t] = 1,
         NEW new, Keeps(new, run, t, tool)
  PROVE  /\ new \in Run /\ ToolsAgree(new, n) /\ new.ckpt = run.ckpt /\ new.tools[t] = tool
         /\ new.started = run.started /\ new.outcome = run.outcome /\ new.inbox = run.inbox
<1>1. run.tools \in [Turns -> ToolStates] /\ tool \in ToolStates
  BY DEF Run, ToolStates
<1>2. /\ new \in Run /\ new.ckpt = run.ckpt /\ new.started = run.started
      /\ new.outcome = run.outcome /\ new.inbox = run.inbox
      /\ new.tools[t] = tool /\ \A u \in Turns : u # t => new.tools[u] = run.tools[u]
  BY <1>1 DEF Run, Keeps
<1>3. t \in Nat BY DEF Turns
<1>4. ClearFrom(new, t + 1)
  <2>1. ClearFrom(run, t + 1) BY DEF ToolsAgree
  <2>2. \A u \in Turns : t + 1 <= u => u # t BY <1>3 DEF Turns
  <2> QED BY <1>2, <2>1, <2>2 DEF ClearFrom
<1>5. ToolsAgree(new, n)
  BY <1>2, <1>4 DEF ToolsAgree
<1> QED BY <1>2, <1>5

LEMMA BeginKeeps ==
  ASSUME Inv, Running, Begin PROVE Inv'
<1>1. runner.pc = "begin" /\ writing # "runner" /\ Quietly BY DEF Begin, At
<1>2. CASE Throw("failed")
  BY <1>1, <1>2, Throws DEF Terminal
<1>3. CASE runner' = [runner EXCEPT !.pc = Restored(My.ckpt), !.turn = My.ckpt.turn,
                        !.response = My.ckpt.response, !.delivered = My.ckpt.delivered,
                        !.held = My.ckpt.held]
  <2>1. runner \in Runner /\ My \in Run /\ My.ckpt \in Ckpt /\ runner.run \in Runs
        /\ My.started /\ My.outcome = "none" /\ runner.told = {}
    BY <1>1 DEF Inv, TypeOK, State, RunnerInv, RunnerOK, My, Run
  <2>2. ToolsAgree(My, ran[runner.run])
    BY <2>1 DEF Inv, JournalInv, StateOK, RunOK, My
  <2> DEFINE to == Restored(My.ckpt)
  <2>3. to \in {"turn", "freeze", "answered"} BY DEF Restored
  <2>4. /\ to # "turn" => My.ckpt.saved /\ My.ckpt.turn # MaxTurns
        /\ to = "turn" => ~My.ckpt.saved \/ My.ckpt.turn = MaxTurns
        /\ to = "freeze" => My.ckpt.response = "unasked"
        /\ to = "answered" => My.ckpt.response # "unasked"
    BY DEF Restored
  <2> HIDE DEF to
  <2>5. /\ runner' \in Runner /\ runner'.pc = to /\ runner'.turn = My.ckpt.turn
        /\ runner'.response = My.ckpt.response /\ runner'.delivered = My.ckpt.delivered
        /\ runner'.run = runner.run /\ runner'.told = runner.told
    <3>1. to \in RunnerPCs BY <2>3 DEF RunnerPCs
    <3> QED BY <1>3, <2>1, <3>1 DEF Runner, Ckpt, to
  <2>6. TalkAgrees(runner', My)
    BY <2>1, <2>3, <2>5 DEF TalkAgrees
  <2>7. Leading(runner') = to BY <2>3, <2>5 DEF Leading
  <2>8. My.ckpt.turn \in 0..MaxTurns /\ My.ckpt.response \in Responses
    BY <2>1 DEF Ckpt
  <2>9. to \in {"turn", "freeze"} => ClearFrom(My, My.ckpt.turn)
    BY <2>2, <2>4, <2>8 DEF ToolsAgree, ClearFrom, Turns
  <2>10. TurnAgrees(runner', My, ran[runner.run])
    BY <2>3, <2>4, <2>5, <2>7, <2>8, <2>9 DEF TurnAgrees, Called, Begun, Responses, Turns
  <2>11. RunnerOK(runner', My, ran[runner.run])
    BY <2>1, <2>3, <2>5, <2>6, <2>10 DEF RunnerOK
  <2> QED BY <1>1, <2>3, <2>5, <2>11, RunnerQuiet DEF Quietly
<1> QED BY <1>2, <1>3 DEF Begin

LEMMA AbortedKeeps ==
  ASSUME Inv, Running, Aborted \/ OutOfTurns \/ Complete \/ ModelEnds \/ PaidCallLost \/ ToolThrows
  PROVE  Inv'
<1>1. /\ runner.pc \in InLoop /\ writing # "runner" /\ Quietly
      /\ (\E how \in Terminal : Throw(how) \/ Return(how)) \/ Delivers \/ Stop
  BY DEF Aborted, OutOfTurns, Complete, ModelEnds, PaidCallLost, ToolThrows, At, Interrupted,
     Calling, InLoop, Asking, Called, Terminal
<1> QED BY <1>1, Throws

\* The pcs of the loop are no ends of it.
LEMMA LoopPCs ==
  \A pc \in InLoop : pc \in RunnerPCs
                     /\ pc \notin {"idle", "begin", "report", "done", "catch", "pause", "ending"}
BY DEF InLoop, Asking, Called, RunnerPCs

\* Messages enter the conversation: before a turn, or after the final answer.
LEMMA InjectKeeps ==
  ASSUME Inv, Running, InjectBefore \/ InjectAfter PROVE Inv'
<1> DEFINE before == InjectBefore
           turn == IF before THEN runner.turn ELSE runner.turn + 1
           next == IF before THEN "freeze" ELSE "end"
           nextIfFresh == IF before THEN "freeze" ELSE "turn"
           fresh == My.inbox \ runner.delivered
<1>1. /\ runner.pc = IF before THEN "turn" ELSE "act"
      /\ Inject(turn, next, nextIfFresh)
      /\ before => runner.turn < MaxTurns
      /\ ~before => runner.response = "answer"
  BY DEF InjectBefore, InjectAfter, At
<1>2. before \in BOOLEAN BY DEF InjectBefore
<1>3. runner.pc \in InLoop /\ writing = "none" /\ Quietly
  BY <1>1, <1>2 DEF InLoop, Inject
<1>4. /\ runner \in Runner /\ My \in Run /\ runner.run \in Runs
      /\ TalkAgrees(runner, My) /\ TurnAgrees(runner, My, ran[runner.run])
      /\ ToolsAgree(My, ran[runner.run]) /\ My.started /\ My.outcome = "none"
  BY <1>3, LoopFinds
<1>5. \A m \in My.inbox : m.run = runner.run
  BY <1>4 DEF Inv, JournalInv, StateOK, RunOK, My
<1>6. runner.turn \in Turns /\ My.inbox \subseteq Messages /\ runner.delivered \subseteq Messages
      /\ runner.turn \in Nat
  BY <1>1, <1>2, <1>4 DEF TurnAgrees, Leading, Turns, Runner, Run, before
<1> DEFINE to == IF fresh # {} THEN "deliver"
                 ELSE IF My.inbox \subseteq runner.told THEN next ELSE "tell"
           then == IF fresh # {} THEN nextIfFresh
                   ELSE IF My.inbox \subseteq runner.told THEN "idle" ELSE next
           at == IF fresh # {} THEN turn ELSE runner.turn
<1>7. to \in InLoop /\ then \in RunnerPCs /\ at \in 0..MaxTurns
  BY <1>2, <1>6 DEF InLoop, Asking, RunnerPCs, Turns
<1>8. /\ runner' \in Runner /\ runner'.pc = to /\ runner'.turn = at /\ runner'.next = then
      /\ runner'.run = runner.run /\ runner'.response = runner.response
      /\ runner'.delivered = runner.delivered \cup fresh /\ runner'.told = My.inbox
  <2> HIDE DEF before, next, nextIfFresh, turn
  <2>1. runner' = [runner EXCEPT !.pc = to, !.turn = at, !.delivered = @ \cup fresh,
                     !.held = @ /\ fresh = {}, !.told = My.inbox, !.next = then]
    BY <1>1 DEF Inject
  <2>2. to \in RunnerPCs BY <1>7, LoopPCs
  <2> HIDE DEF to, then, at
  <2>3. (runner.held /\ fresh = {}) \in BOOLEAN BY <1>4 DEF Runner
  <2> QED BY <1>4, <1>6, <1>7, <2>1, <2>2, <2>3 DEF Runner
<1>9. TalkAgrees(runner', My)
  <2>1. My.ckpt.delivered \subseteq runner.delivered /\ runner.delivered \subseteq My.ckpt.delivered
    BY <1>1, <1>2, <1>4 DEF TalkAgrees
  <2> HIDE DEF before
  <2>2. /\ to = "deliver" => then \in {"freeze", "turn"}
        /\ to = "tell" => then \in {"freeze", "end"}
        /\ to # "deliver" => fresh = {}
    OBVIOUS
  <2> HIDE DEF to, then, at
  <2> QED BY <1>5, <1>8, <2>1, <2>2 DEF TalkAgrees
<1>10. TurnAgrees(runner', My, ran[runner.run])
  <2>1. CASE fresh = {}
    <3>1. Leading(runner') = next /\ runner'.turn = runner.turn
      BY <1>2, <1>8, <2>1 DEF Leading
    <3> QED BY <1>1, <1>2, <1>4, <1>6, <1>8, <3>1 DEF TurnAgrees, Leading, Called, Begun
  <2>2. CASE fresh # {}
    <3>1. Leading(runner') = nextIfFresh /\ runner'.turn = turn
      BY <1>8, <2>2 DEF Leading
    <3>2. ClearFrom(My, turn)
      <4>1. before => ClearFrom(My, runner.turn)
        BY <1>1, <1>4 DEF TurnAgrees, Leading
      <4>2. ~before => My.ckpt.turn = runner.turn
        BY <1>1, <1>4 DEF TurnAgrees, Leading
      <4> QED BY <1>4, <4>1, <4>2 DEF ToolsAgree
    <3> QED BY <1>1, <1>2, <1>6, <1>8, <3>1, <3>2 DEF TurnAgrees, Called, Begun
  <2> QED BY <2>1, <2>2
<1> HIDE DEF to, then, at, before
<1>11. RunnerOK(runner', My, ran[runner.run]) /\ runner'.pc \notin {"idle", "report", "done"}
  BY <1>4, <1>7, <1>8, <1>9, <1>10, LoopPCs DEF RunnerOK
<1> QED BY <1>3, <1>4, <1>8, <1>11, RunnerQuiet, LoopPCs DEF Quietly

\* The checkpoint is saved with a turn that is not answered: messages are
\* delivered, or the request is frozen.
LEMMA DeliverKeeps ==
  ASSUME Inv, Running, Deliver \/ Freeze PROVE Inv'
<1> DEFINE c == Unanswered(runner.turn)
           to == IF runner.pc = "deliver" THEN "tell" ELSE "model"
           new == [My EXCEPT !.ckpt = c]
<1>1. runner.pc \in {"deliver", "freeze"} /\ SaveCkpt(c) /\ Go(to) /\ Rest /\ writing # "runner"
  BY DEF Deliver, Freeze, At
<1>2. runner.pc \in InLoop BY <1>1 DEF InLoop, Asking
<1>3. /\ runner \in Runner /\ My \in Run /\ runner.run \in Runs
      /\ TalkAgrees(runner, My) /\ TurnAgrees(runner, My, ran[runner.run])
      /\ ToolsAgree(My, ran[runner.run]) /\ ran[runner.run] \in [Turns -> Nat]
      /\ My.started /\ My.outcome = "none"
  BY <1>2, LoopFinds
<1>4. c \in Ckpt /\ c.turn = runner.turn /\ c.response = "unasked" /\ ~c.completed /\ c.saved
      /\ c.delivered = runner.delivered
  BY <1>3 DEF Unanswered, Ckpt, Responses, Runner
<1>5. ClearFrom(My, runner.turn)
  BY <1>1, <1>3 DEF TurnAgrees, Leading, TalkAgrees
<1> HIDE DEF c
<1>6. /\ new \in Run /\ ToolsAgree(new, ran[runner.run]) /\ new.tools = My.tools /\ new.ckpt = c
      /\ new.started = My.started /\ new.outcome = My.outcome /\ new.inbox = My.inbox
  BY <1>3, <1>4, <1>5, UnansweredAgrees
<1>7. Mutate("runner", WithRun(runner.run, new)) BY <1>1 DEF SaveCkpt
<1>8. /\ runner' \in Runner /\ runner'.pc = to /\ runner'.turn = runner.turn
      /\ runner'.run = runner.run /\ runner'.response = runner.response
      /\ runner'.delivered = runner.delivered /\ runner'.told = runner.told
      /\ runner'.next = runner.next
  BY <1>1, <1>3 DEF Go, Runner, RunnerPCs
<1> HIDE DEF new
<1>9. TalkAgrees(runner', new)
  BY <1>1, <1>3, <1>4, <1>6, <1>8 DEF TalkAgrees
<1>10. ClearFrom(new, runner.turn) BY <1>5, <1>6 DEF ClearFrom
<1>11. TurnAgrees(runner', new, ran[runner.run])
  BY <1>1, <1>3, <1>4, <1>6, <1>8, <1>10 DEF TurnAgrees, TalkAgrees, Leading, Called, Begun
<1>12. RunnerOK(runner', new, ran[runner.run]) /\ runner'.pc \notin {"idle", "report", "done"}
  BY <1>3, <1>6, <1>8, <1>9, <1>11 DEF RunnerOK
<1>13. My.ckpt.delivered \subseteq new.ckpt.delivered
  BY <1>3, <1>4, <1>6 DEF TalkAgrees
<1> QED BY <1>1, <1>2, <1>6, <1>7, <1>8, <1>12, <1>13, LoopPCs, RunnerSaves

\* The messages of the checkpoint are reported.
LEMMA TellKeeps ==
  ASSUME Inv, Running, Tell PROVE Inv'
<1>1. /\ runner.pc = "tell" /\ writing = "none" /\ Emit("runner", Told(runner.told)) /\ Rest
      /\ runner' = [runner EXCEPT !.pc = runner.next, !.next = "idle"]
  BY DEF Tell, At, Emit
<1>2. runner.pc \in InLoop BY <1>1 DEF InLoop
<1>3. /\ runner \in Runner /\ My \in Run /\ runner.run \in Runs
      /\ TalkAgrees(runner, My) /\ TurnAgrees(runner, My, ran[runner.run])
      /\ My.started /\ My.outcome = "none"
  BY <1>2, LoopFinds
<1>4. runner.next \in {"freeze", "turn", "end"} BY <1>1, <1>3 DEF TalkAgrees
<1>5. /\ runner' \in Runner /\ runner'.pc = runner.next /\ runner'.turn = runner.turn
      /\ runner'.run = runner.run /\ runner'.response = runner.response
      /\ runner'.delivered = runner.delivered /\ runner'.told = runner.told
  BY <1>1, <1>3, <1>4 DEF Runner, RunnerPCs
<1>6. TalkAgrees(runner', My) /\ TurnAgrees(runner', My, ran[runner.run])
  <2>1. Leading(runner') = Leading(runner) BY <1>1, <1>4, <1>5 DEF Leading
  <2> QED BY <1>1, <1>3, <1>4, <1>5, <2>1 DEF TalkAgrees, TurnAgrees
<1>7. RunnerOK(runner', My, ran[runner.run])
  BY <1>3, <1>4, <1>5, <1>6 DEF RunnerOK
<1>8. mem' = mem /\ disk' = disk /\ line' = Told(runner.told) /\ shown' = shown /\ writing' = "runner"
      /\ broken' = broken /\ ran' = ran /\ reader' = reader /\ shutting' = shutting /\ bounds' = bounds
  BY <1>1 DEF Emit, Rest
<1>9. Running' BY <1>4, <1>5 DEF Running
<1>10. Told(runner.told) \in Shown
  BY <1>3 DEF Told, Shown, Runner, Inv, TypeOK
<1>11. TypeOK' BY <1>5, <1>8, <1>10 DEF Inv, TypeOK, bounds
<1>12. ShownIn(Told(runner.told), mem)
  <2>1. ShownIn(shown, mem) /\ shown \in Shown
    BY <1>1 DEF Inv, JournalInv, Emit, TypeOK
  <2>2. \A m \in runner.told : m \in mem.runs[m.run].ckpt.delivered
    BY <1>1, <1>3 DEF TalkAgrees, My
  <2>3. Told(runner.told).accepted = shown.accepted /\ Told(runner.told).ended = shown.ended
        /\ Told(runner.told).told = shown.told \cup runner.told
    BY <2>1 DEF Told, Shown
  <2> QED BY <2>1, <2>2, <2>3 DEF ShownIn
<1>13. JournalInv' BY <1>1, <1>8, <1>9, <1>12, EmitKeeps DEF Inv
<1>14. ReaderInv' BY <1>8, ReaderStays DEF Inv
<1>15. RunnerInv' BY <1>1, <1>5, <1>7, <1>8 DEF Inv, RunnerInv, My
<1> QED BY <1>11, <1>13, <1>14, <1>15 DEF Inv

LEMMA NextTurnIs ==
  ASSUME NEW q \in Runner, q.turn \in Turns
  PROVE  LET p == NextTurn(q) IN
         /\ p \in Runner /\ p.pc = "turn" /\ p.response = "unasked" /\ p.turn = q.turn + 1
         /\ p.run = q.run /\ p.delivered = q.delivered
         /\ p.told = q.told /\ p.next = q.next
<1>1. q.turn + 1 \in 0..MaxTurns BY DEF Turns
<1>2. "turn" \in RunnerPCs /\ "unasked" \in Responses BY DEF RunnerPCs, Responses
<1> QED BY <1>1, <1>2 DEF NextTurn, Runner

\* The loop goes on at the next turn, with a record whose checkpoint is of this one.
LEMMA NextTurnOK ==
  ASSUME NEW q \in Runner, NEW run, NEW new, NEW n, TalkAgrees(q, run), q.turn \in Turns,
         q.pc \notin {"deliver", "tell"},
         ClearFrom(new, q.turn + 1), new.ckpt.delivered = q.delivered,
         new.started, new.outcome = "none"
  PROVE  RunnerOK(NextTurn(q), new, n)
<1> DEFINE p == NextTurn(q)
<1>1. /\ p.pc = "turn" /\ p.response = "unasked" /\ p.turn = q.turn + 1 /\ p.run = q.run
      /\ p.delivered = q.delivered /\ p.told = q.told
  BY NextTurnIs
<1> HIDE DEF p
<1>2. TalkAgrees(p, new) BY <1>1 DEF TalkAgrees
<1>3. TurnAgrees(p, new, n) BY <1>1 DEF TurnAgrees, Leading, Called, Begun
<1> QED BY <1>1, <1>2, <1>3 DEF RunnerOK, p

LEMMA ModelKeeps ==
  ASSUME Inv, Running, ModelAnswers \/ Replay PROVE Inv'
<1>1. runner.pc \in {"model", "answered"} /\ writing # "runner" /\ Quietly
  BY DEF ModelAnswers, Replay, At
<1>2. runner.pc \in InLoop BY <1>1 DEF InLoop, Asking
<1>3. /\ runner \in Runner /\ TalkAgrees(runner, My) /\ TurnAgrees(runner, My, ran[runner.run])
      /\ My.started /\ My.outcome = "none"
  BY <1>2, LoopFinds
<1>4. PICK response \in ToolNames \cup {"answer"} :
        /\ runner' = [runner EXCEPT !.pc = "save", !.response = response]
        /\ runner.pc = "answered" => response = runner.response
  <2>1. CASE ModelAnswers BY <2>1, <1>1 DEF ModelAnswers, At
  <2>2. CASE Replay
    <3>1. runner.response \in ToolNames \cup {"answer"} /\ runner' = [runner EXCEPT !.pc = "save"]
      BY <1>3, <2>2 DEF Replay, At, Go, TurnAgrees, Leading
    <3>2. runner' = [runner EXCEPT !.pc = "save", !.response = runner.response]
      BY <1>3, <3>1 DEF Runner
    <3> QED BY <3>1, <3>2
  <2> QED BY <2>1, <2>2
<1>5. "save" \in RunnerPCs /\ response \in Responses BY DEF RunnerPCs, Responses
<1>6. /\ runner' \in Runner /\ runner'.pc = "save" /\ runner'.response = response
      /\ runner'.run = runner.run /\ runner'.turn = runner.turn
      /\ runner'.delivered = runner.delivered /\ runner'.told = runner.told
  BY <1>3, <1>4, <1>5 DEF Runner
<1>7. TalkAgrees(runner', My) BY <1>1, <1>3, <1>6 DEF TalkAgrees
<1>8. TurnAgrees(runner', My, ran[runner.run])
  BY <1>1, <1>3, <1>4, <1>6 DEF TurnAgrees, Leading, Called, Begun
<1>9. RunnerOK(runner', My, ran[runner.run]) BY <1>3, <1>6, <1>7, <1>8 DEF RunnerOK
<1> QED BY <1>1, <1>6, <1>9, RunnerQuiet DEF Quietly

LEMMA ModelPausesKeeps ==
  ASSUME Inv, Running, ModelPauses PROVE Inv'
<1>1. runner.pc = "model" /\ writing # "runner" /\ Quietly BY DEF ModelPauses, At
<1>2. runner.pc \in InLoop BY <1>1 DEF InLoop, Asking
<1>3. runner \in Runner /\ My \in Run /\ TurnAgrees(runner, My, ran[runner.run])
      /\ ToolsAgree(My, ran[runner.run])
  BY <1>2, LoopFinds
<1> DEFINE op == [turn |-> runner.turn, kind |-> "model"]
<1>4. op \in Ops BY <1>3 DEF Ops, Runner
<1>5. LeadsTo(My, op) BY <1>1, <1>3 DEF TurnAgrees, Leading, LeadsTo, ToolsAgree
<1>6. PICK w \in Waits : Leave("catch", w, op) BY DEF ModelPauses, Pause
<1> QED BY <1>1, <1>2, <1>4, <1>5, <1>6, Leaves

\* The answer enters the checkpoint of its turn.
LEMMA SaveAnswerKeeps ==
  ASSUME Inv, Running, Save PROVE Inv'
<1> DEFINE c == [Unanswered(runner.turn) EXCEPT !.response = runner.response,
                                                !.completed = My.ckpt.completed]
           new == [My EXCEPT !.ckpt = c]
           n == ran[runner.run]
<1>1. runner.pc = "save" /\ SaveCkpt(c) /\ Go("act") /\ Rest BY DEF Save, At
<1>2. runner.pc \in InLoop BY <1>1 DEF InLoop
<1>3. /\ runner \in Runner /\ My \in Run /\ TalkAgrees(runner, My) /\ TurnAgrees(runner, My, n)
      /\ ToolsAgree(My, n) /\ n \in [Turns -> Nat] /\ My.started /\ My.outcome = "none"
  BY <1>2, LoopFinds
<1>4. /\ runner.turn \in Turns /\ My.ckpt.saved /\ My.ckpt.turn = runner.turn
      /\ My.ckpt.response \in {"unasked", runner.response}
      /\ runner.response \in ToolNames \cup {"answer"}
  BY <1>1, <1>3 DEF TurnAgrees, Leading
<1>5. /\ c \in Ckpt /\ c.saved /\ c.turn = runner.turn /\ c.response = runner.response
      /\ c.completed = My.ckpt.completed /\ c.delivered = runner.delivered
  BY <1>3, <1>4 DEF Unanswered, Ckpt, Responses, Runner, Run
<1> HIDE DEF c
<1>6. /\ new \in Run /\ new.ckpt = c /\ new.tools = My.tools /\ new.started = My.started
      /\ new.outcome = My.outcome /\ new.inbox = My.inbox
  BY <1>3, <1>5 DEF Run
<1>7. Mutate("runner", WithRun(runner.run, new)) BY <1>1 DEF SaveCkpt
<1> HIDE DEF new, n
<1>8. ToolsAgree(new, n)
  <2>1. ClearFrom(new, c.turn + 1)
    BY <1>3, <1>4, <1>5, <1>6 DEF ToolsAgree, ClearFrom
  <2>2. c.response # "unasked" /\ c.turn # MaxTurns BY <1>4, <1>5 DEF Turns
  <2>3. My.ckpt.response = "unasked" =>
          My.tools[runner.turn] = "none" /\ n[runner.turn] = 0 /\ ~My.ckpt.completed
    BY <1>3, <1>4 DEF ToolsAgree, ClearFrom, Turns
  <2> QED BY <1>3, <1>4, <1>5, <1>6, <2>1, <2>2, <2>3 DEF ToolsAgree
<1>9. /\ runner' \in Runner /\ runner'.pc = "act" /\ runner'.response = runner.response
      /\ runner'.run = runner.run /\ runner'.turn = runner.turn
      /\ runner'.delivered = runner.delivered /\ runner'.told = runner.told
  BY <1>1, <1>3 DEF Go, Runner, RunnerPCs
<1>10. TalkAgrees(runner', new) BY <1>1, <1>3, <1>5, <1>6, <1>9 DEF TalkAgrees
<1>11. TurnAgrees(runner', new, n)
  BY <1>4, <1>5, <1>6, <1>9 DEF TurnAgrees, Leading, Called, Begun
<1>12. RunnerOK(runner', new, n) BY <1>3, <1>6, <1>9, <1>10, <1>11 DEF RunnerOK
<1>13. My.ckpt.delivered \subseteq new.ckpt.delivered BY <1>3, <1>5, <1>6 DEF TalkAgrees
<1> QED BY <1>1, <1>6, <1>7, <1>8, <1>9, <1>12, <1>13, RunnerSaves DEF n

-----------------------------------------------------------------------------
(***************************************************************************)
(* The steps of a tool call.                                               *)
(***************************************************************************)
\* A tool call that was answered before, by this process or an earlier one.
LEMMA ToolAnsweredKeeps ==
  ASSUME Inv, Running, ToolCompleted \/ ToolReplayed PROVE Inv'
<1>1. runner.pc = "act" /\ runner.response \in ToolNames /\ writing # "runner" /\ Quietly
  BY DEF ToolCompleted, ToolReplayed, Calling, At
<1>2. runner.pc \in InLoop BY <1>1 DEF InLoop
<1>3. /\ runner \in Runner /\ TalkAgrees(runner, My) /\ TurnAgrees(runner, My, ran[runner.run])
      /\ ToolsAgree(My, ran[runner.run]) /\ My.started /\ My.outcome = "none"
      /\ runner.pc \notin {"report", "done"}
  BY <1>2, LoopFinds
<1>4. runner.turn \in Turns /\ My.ckpt.turn = runner.turn /\ My.ckpt.saved
      /\ My.ckpt.response = runner.response
      /\ My.ckpt.delivered = runner.delivered
  BY <1>1, <1>3 DEF TurnAgrees, TalkAgrees, Leading
<1>5. CASE ToolCompleted
  <2>1. CASE Stop BY <1>1, <1>2, <2>1, Throws
  <2>2. CASE runner' = NextTurn(runner)
    <3>1. ClearFrom(My, runner.turn + 1) BY <1>3, <1>4 DEF ToolsAgree
    <3>2. RunnerOK(runner', My, ran[runner.run])
      BY <1>1, <1>3, <1>4, <2>2, <3>1, NextTurnOK
    <3>3. runner' \in Runner /\ runner'.pc = "turn" /\ runner'.run = runner.run
      BY <1>3, <1>4, <2>2, NextTurnIs
    <3> QED BY <1>1, <1>3, <3>2, <3>3, RunnerQuiet DEF Quietly
  <2> QED BY <1>5, <2>1, <2>2 DEF ToolCompleted
<1>6. CASE ToolReplayed
  <2>1. My.tools[runner.turn] \in {"done", "lost"} BY <1>6 DEF ToolReplayed, Saved
  <2>2. /\ runner' \in Runner /\ runner'.pc = "settle" /\ runner'.response = runner.response
        /\ runner'.run = runner.run /\ runner'.turn = runner.turn
        /\ runner'.delivered = runner.delivered /\ runner'.told = runner.told
    BY <1>3, <1>6 DEF ToolReplayed, Go, Runner, RunnerPCs
  <2>3. TalkAgrees(runner', My) BY <1>1, <1>3, <2>2 DEF TalkAgrees
  <2>4. TurnAgrees(runner', My, ran[runner.run])
    BY <1>1, <1>4, <2>1, <2>2 DEF TurnAgrees, Leading, Called, Begun
  <2>5. RunnerOK(runner', My, ran[runner.run]) BY <1>3, <2>2, <2>3, <2>4 DEF RunnerOK
  <2> QED BY <1>1, <1>3, <2>2, <2>5, RunnerQuiet DEF Quietly
<1> QED BY <1>5, <1>6

\* The tool record of the turn is saved, and the loop goes on in this turn.
LEMMA KeepKeeps ==
  ASSUME Inv, Running, runner.pc \in {"act", "result"}, runner.response \in ToolNames,
         ~My.ckpt.completed,
         NEW tool \in {"begun", "done", "lost"}, Keep(tool), Rest,
         NEW to \in {"execute", "settle"}, Go(to),
         to = "execute" => tool = "begun" /\ ran[runner.run][runner.turn] = 0,
         to = "settle"  => tool \in {"done", "lost"},
         tool = "done"  => runner.pc = "result"
  PROVE  Inv'
<1> DEFINE n == ran[runner.run]
           new == [My EXCEPT !.tools[runner.turn] = tool]
<1>1. runner.pc \in InLoop BY DEF InLoop, Called
<1>2. /\ runner \in Runner /\ My \in Run /\ TalkAgrees(runner, My) /\ TurnAgrees(runner, My, n)
      /\ ToolsAgree(My, n) /\ n \in [Turns -> Nat] /\ My.started /\ My.outcome = "none"
  BY <1>1, LoopFinds
<1>3. /\ runner.turn \in Turns /\ My.ckpt.saved /\ My.ckpt.turn = runner.turn
      /\ My.ckpt.response = runner.response
      /\ tool = "done" /\ Counts(runner.response) => n[runner.turn] = 1
  BY <1>2 DEF TurnAgrees, Leading, Called
<1> HIDE DEF n
<1>4. /\ new \in Run /\ ToolsAgree(new, n) /\ new.ckpt = My.ckpt
      /\ new.tools[runner.turn] = tool
      /\ new.started = My.started /\ new.outcome = My.outcome /\ new.inbox = My.inbox
  <2>1. My.ckpt.response # "unasked" BY <1>3
  <2>2. Keeps(new, My, runner.turn, tool) BY DEF Keeps
  <2> HIDE DEF new
  <2>3. My \in Run /\ n \in [Turns -> Nat] BY <1>2
  <2>4. ToolsAgree(My, n) BY <1>2
  <2>5. runner.turn \in Turns /\ My.ckpt.turn = runner.turn BY <1>3
  <2>6. My.ckpt.saved /\ ~My.ckpt.completed BY <1>3
  <2>7. tool = "done" /\ Counts(My.ckpt.response) => n[runner.turn] = 1 BY <1>3
  <2> QED BY <2>1, <2>2, <2>3, <2>4, <2>5, <2>6, <2>7, KeepAgrees
<1>5. Mutate("runner", WithRun(runner.run, new)) BY DEF Keep
<1> HIDE DEF new
<1>6. /\ runner' \in Runner /\ runner'.pc = to /\ runner'.response = runner.response
      /\ runner'.run = runner.run /\ runner'.turn = runner.turn
      /\ runner'.delivered = runner.delivered /\ runner'.told = runner.told
  BY <1>2 DEF Go, Runner, RunnerPCs
<1>7. TalkAgrees(runner', new) BY <1>2, <1>4, <1>6 DEF TalkAgrees
<1>8. TurnAgrees(runner', new, n)
  BY <1>3, <1>4, <1>6 DEF TurnAgrees, Leading, Called, Begun, n
<1>9. RunnerOK(runner', new, n) BY <1>2, <1>4, <1>6, <1>7, <1>8 DEF RunnerOK
<1> QED BY <1>2, <1>4, <1>5, <1>6, <1>9, RunnerSaves DEF n

\* A counted tool is begun only when it was not executed in its turn, an
\* interrupted shell command is answered with an error, a result is kept.
LEMMA ToolKept ==
  ASSUME Inv, Running, ToolBegins \/ ShellLost \/ KeepResult PROVE Inv'
<1>1. runner.pc \in {"act", "result"} /\ Rest
  BY DEF ToolBegins, ShellLost, KeepResult, Calling, Interrupted, At
<1>2. runner.pc \in InLoop BY <1>1 DEF InLoop, Called
<1>3. /\ My \in Run /\ TurnAgrees(runner, My, ran[runner.run])
      /\ ToolsAgree(My, ran[runner.run])
  BY <1>2, LoopFinds
<1>4. runner.turn \in Turns /\ My.ckpt.turn = runner.turn /\ My.ckpt.response = runner.response
  BY <1>1, <1>3 DEF TurnAgrees, Leading, Called
<1>5. CASE ToolBegins
  <2>1. /\ ~My.ckpt.completed /\ My.tools[runner.turn] \notin {"done", "lost"}
        /\ My.tools[runner.turn] = "begun" => runner.response = "read_file"
        /\ Keep("begun") /\ Go("execute") /\ runner.pc = "act" /\ runner.response \in ToolNames
    BY <1>5 DEF ToolBegins, Calling, Saved, At
  <2>2. My.tools[runner.turn] \in ToolStates BY <1>3, <1>4 DEF Run
  <2>3. ran[runner.run][runner.turn] = 0
    BY <1>3, <1>4, <2>1, <2>2 DEF ToolsAgree, ToolStates
  <2> QED BY <1>1, <2>1, <2>3, KeepKeeps
<1>6. CASE ShellLost
  <2>1. ~My.ckpt.completed /\ Keep("lost") /\ Go("settle") /\ runner.response \in ToolNames
        /\ runner.pc = "act"
    BY <1>6 DEF ShellLost, Interrupted, Calling, At
  <2> QED BY <1>1, <2>1, KeepKeeps
<1>7. CASE KeepResult
  <2>1. Keep("done") /\ Go("settle") /\ runner.pc = "result" BY <1>7 DEF KeepResult, At
  <2>2. ~My.ckpt.completed /\ runner.response \in ToolNames
    BY <1>3, <2>1 DEF TurnAgrees, Leading, Begun, Called
  <2> QED BY <1>1, <2>1, <2>2, KeepKeeps
<1> QED BY <1>5, <1>6, <1>7

\* The purchase that waits for the owner's approval.
LEMMA KeepApprovalKeeps ==
  ASSUME Inv, Running, KeepApproval PROVE Inv'
<1> DEFINE n == ran[runner.run]
           new == [My EXCEPT !.tools[runner.turn] = "approval"]
           op == [turn |-> runner.turn, kind |-> "paid"]
<1>1. runner.pc = "approval" /\ Keep("approval") /\ Rest BY DEF KeepApproval, At
<1>2. runner.pc \in InLoop BY <1>1 DEF InLoop, Called
<1>3. /\ runner \in Runner /\ My \in Run /\ TurnAgrees(runner, My, n)
      /\ ToolsAgree(My, n) /\ n \in [Turns -> Nat] /\ My.started /\ My.outcome = "none"
  BY <1>2, LoopFinds
<1>4. /\ runner.turn \in Turns /\ My.ckpt.saved /\ My.ckpt.turn = runner.turn
      /\ My.ckpt.response = "call_paid_service" /\ ~My.ckpt.completed /\ n[runner.turn] = 0
  BY <1>1, <1>3 DEF TurnAgrees, Leading, Called, Begun
<1> HIDE DEF n
<1>5. /\ new \in Run /\ ToolsAgree(new, n) /\ new.ckpt = My.ckpt
      /\ new.tools[runner.turn] = "approval"
      /\ new.started = My.started /\ new.outcome = My.outcome /\ new.inbox = My.inbox
  <2>1. My.ckpt.response # "unasked" BY <1>4
  <2>2. Keeps(new, My, runner.turn, "approval") BY DEF Keeps
  <2> HIDE DEF new
  <2>3. My \in Run /\ n \in [Turns -> Nat] BY <1>3
  <2>4. ToolsAgree(My, n) BY <1>3
  <2>5. runner.turn \in Turns /\ My.ckpt.turn = runner.turn BY <1>4
  <2>6. My.ckpt.saved /\ ~My.ckpt.completed /\ n[runner.turn] = 0 BY <1>4
  <2> QED BY <2>1, <2>2, <2>3, <2>4, <2>5, <2>6, KeepAgrees
<1>6. Mutate("runner", WithRun(runner.run, new)) BY <1>1 DEF Keep
<1> HIDE DEF new
<1>7. LeadsTo(new, op) BY <1>4, <1>5 DEF LeadsTo
<1>8. op \in Ops /\ NoOp \in Ops BY <1>3 DEF Ops, Runner, NoOp
<1>9. PICK pc \in {"catch", "ending"}, how \in Waits \cup Terminal, o \in Ops :
        Leave(pc, how, o) /\ (Waiting(how) => pc = "catch" /\ o = op)
  BY <1>8 DEF KeepApproval, Pause, Delivers, Return, Waits, Terminal, Waiting
<1>10. /\ runner' \in Runner /\ runner'.pc = pc /\ runner'.how = how /\ runner'.op = o
       /\ runner'.run = runner.run
  <2>1. IdleRunner \in Runner
    BY DEF IdleRunner, Runner, RunnerPCs, Responses, NoOp, Ops
  <2>2. pc \in RunnerPCs BY DEF RunnerPCs
  <2>3. runner.run \in Runs \cup {NoRun} /\ runner.aborted \in BOOLEAN BY <1>3 DEF Runner
  <2> QED BY <1>9, <2>1, <2>2, <2>3 DEF Leave, Runner
<1>11. RunnerOK(runner', new, n)
  BY <1>3, <1>5, <1>7, <1>9, <1>10, LoopPCs DEF RunnerOK
<1> QED BY <1>1, <1>5, <1>6, <1>10, <1>11, RunnerSaves DEF n

\* A tool that is at work is on disk as begun, so its executions may be counted.
LEMMA CountAgrees ==
  ASSUME NEW run \in Run, NEW n \in [Turns -> Nat], ToolsAgree(run, n), NEW t \in Turns,
         run.ckpt.turn = t, run.tools[t] = "begun", ~run.ckpt.completed,
         NEW k \in {0, 1}, Counts(run.ckpt.response) \/ k = n[t]
  PROVE  ToolsAgree(run, [n EXCEPT ![t] = k])
<1> DEFINE m == [n EXCEPT ![t] = k]
<1>1. m[t] = k /\ \A u \in Turns : u # t => m[u] = n[u] OBVIOUS
<1>2. Counts(run.ckpt.response) => run.ckpt.response # "read_file" BY DEF Counts
<1> HIDE DEF m
<1>3. \A u \in Turns : m[u] <= 1 BY <1>1 DEF ToolsAgree
<1>4. ToolsAgree(run, m) BY <1>1, <1>2, <1>3 DEF ToolsAgree
<1> QED BY <1>4 DEF m

LEMMA RunnerCounts ==
  ASSUME Inv, Running, runner.pc \in Begun, writing # "runner",
         NEW k \in {0, 1}, Counts(runner.response) \/ k = ran[runner.run][runner.turn],
         ran' = [ran EXCEPT ![runner.run] = [@ EXCEPT ![runner.turn] = k]],
         UNCHANGED <<journal, broken, reader, shutting, bounds>>,
         runner' \in Runner, runner'.run = runner.run,
         runner'.pc \notin {"idle", "report", "done"},
         RunnerOK(runner', My, [ran[runner.run] EXCEPT ![runner.turn] = k])
  PROVE  Inv'
<1> DEFINE r == runner.run
           t == runner.turn
           n == [ran[r] EXCEPT ![t] = k]
<1>1. runner.pc \in InLoop /\ runner.pc \notin {"report", "done"}
  BY DEF Begun, InLoop, Called
<1>2. /\ r \in Runs /\ My \in Run /\ TurnAgrees(runner, My, ran[r])
      /\ ran[r] \in [Turns -> Nat]
  BY <1>1, LoopFinds
<1>3. /\ t \in Turns /\ My.ckpt.turn = t /\ My.tools[t] = "begun" /\ ~My.ckpt.completed
      /\ My.ckpt.response = runner.response
  BY <1>2 DEF TurnAgrees, Leading, Begun, Called
<1>4. mem' = mem /\ disk' = disk /\ writing' = writing /\ line' = line /\ shown' = shown
      /\ broken' = broken /\ reader' = reader /\ shutting' = shutting /\ bounds' = bounds
  BY DEF journal
<1>5. ran \in [Runs -> [Turns -> Nat]] /\ mem \in State /\ disk \in State
  BY DEF Inv, TypeOK
<1>6. ran'[r] = n /\ \A o \in Runs : o # r => ran'[o] = ran[o]
  BY <1>2, <1>5
<1>7. n \in [Turns -> Nat] BY <1>2, <1>3
<1>8. ran' \in [Runs -> [Turns -> Nat]] BY <1>2, <1>5, <1>7
<1>9. Running' BY DEF Running
<1>10. TypeOK' BY <1>4, <1>8 DEF Inv, TypeOK, bounds
<1>11. SameButInbox(My, disk.runs[r]) BY <1>1, <1>2 DEF Inv, RunnerInv, My
<1> DEFINE old == disk.runs[r]
<1>12. ToolsAgree(My, n)
  <2>1. ToolsAgree(My, ran[r]) BY <1>1, LoopFinds
  <2> QED BY <1>2, <1>3, <2>1, CountAgrees
<1>13. ToolsAgree(old, n)
  <2>1. ToolsAgree(old, ran[r]) BY <1>2 DEF Inv, JournalInv, StateOK, RunOK
  <2>2. old \in Run BY <1>2, <1>5 DEF State
  <2>3. old.ckpt.turn = t /\ old.tools[t] = "begun" /\ ~old.ckpt.completed
        /\ old.ckpt.response = runner.response
    BY <1>3, <1>11 DEF SameButInbox
  <2> HIDE DEF old
  <2> QED BY <1>2, <1>3, <2>1, <2>2, <2>3, CountAgrees
<1> HIDE DEF n, old
<1>14. StateOK(mem, ran') /\ StateOK(disk, ran')
  <2>1. StateOK(mem, ran) /\ StateOK(disk, ran) BY DEF Inv, JournalInv
  <2>2. RunOK(r, mem.runs[r], ran'[r]) /\ RunOK(r, disk.runs[r], ran'[r])
    BY <1>2, <1>6, <1>12, <1>13, <2>1 DEF StateOK, RunOK, My, old
  <2> QED BY <1>6, <2>1, <2>2 DEF StateOK
<1>15. StateOK(mem, ran)' /\ StateOK(disk, ran)' BY <1>4, <1>14
<1>16. Follows(mem, disk)' /\ ShownIn(shown, disk)' /\ ShownIn(line, mem)'
  BY <1>4 DEF Inv, JournalInv
<1>17. JournalInv' BY <1>4, <1>9, <1>15, <1>16 DEF Inv, JournalInv
<1>18. ReaderInv' BY <1>4, ReaderStays DEF Inv
<1>19. RunnerInv' BY <1>1, <1>4, <1>6 DEF Inv, RunnerInv, My, n
<1> QED BY <1>10, <1>17, <1>18, <1>19 DEF Inv

\* The tool is executed, returns, is cut off, or asks for an approval.
LEMMA ToolWorksKeeps ==
  ASSUME Inv, Running, ToolExecutes \/ ToolReturns \/ ToolDeadline \/ ToolPauses PROVE Inv'
<1> DEFINE r == runner.run
           t == runner.turn
           to == IF ToolExecutes THEN "tool" ELSE IF ToolPauses THEN "approval" ELSE "result"
           k == IF ToolExecutes THEN IF Counted THEN 1 ELSE ran[r][t]
                ELSE IF ToolPauses THEN 0 ELSE ran[r][t]
           n == [ran[r] EXCEPT ![t] = k]
<1>0. ToolExecutes \in BOOLEAN /\ ToolPauses \in BOOLEAN BY DEF ToolExecutes, ToolPauses
<1>1. /\ runner.pc = IF ToolExecutes THEN "execute" ELSE "tool"
      /\ writing # "runner" /\ Go(to)
      /\ UNCHANGED <<journal, broken, reader, shutting, bounds>>
  BY <1>0 DEF ToolExecutes, ToolReturns, ToolDeadline, ToolPauses, At, Quietly
<1>2. runner.pc \in Begun /\ runner.pc \in InLoop BY <1>1 DEF Begun, InLoop, Called
<1>3. /\ runner \in Runner /\ r \in Runs /\ TalkAgrees(runner, My) /\ TurnAgrees(runner, My, ran[r])
      /\ ToolsAgree(My, ran[r]) /\ ran[r] \in [Turns -> Nat] /\ My.started /\ My.outcome = "none"
      /\ runner.pc \notin {"report", "done"}
  BY <1>2, LoopFinds
<1>4. /\ t \in Turns /\ My.ckpt.saved /\ My.ckpt.turn = t /\ My.tools[t] = "begun"
      /\ ~My.ckpt.completed /\ My.ckpt.response = runner.response
      /\ runner.response \in ToolNames
  BY <1>1, <1>2, <1>3 DEF TurnAgrees, Leading, Called, Begun
<1>5. Counted <=> Counts(runner.response) BY <1>4 DEF Counted, Counts
<1>6. /\ ToolExecutes => ran[r][t] = 0
      /\ ~ToolExecutes /\ Counts(runner.response) => ran[r][t] = 1
      /\ ToolPauses => runner.response = "call_paid_service" /\ runner.pc = "tool"
  BY <1>1, <1>3 DEF TurnAgrees, Leading, Called, Begun, ToolPauses, At
<1>7. runner.response = "read_file" => ran[r][t] = 0
  BY <1>3, <1>4 DEF ToolsAgree
<1>8. ran[r][t] \in {0, 1}
  <2>1. ran[r][t] \in Nat /\ ran[r][t] <= 1 BY <1>3, <1>4 DEF ToolsAgree
  <2> QED BY <2>1
<1>9. /\ k \in {0, 1}
      /\ Counts(runner.response) \/ k = ran[r][t]
      /\ to = "approval" => k = 0 /\ runner.response = "call_paid_service"
      /\ to \in {"tool", "result"} /\ Counts(runner.response) => k = 1
  BY <1>0, <1>1, <1>5, <1>6, <1>8 DEF Counts
<1>10. ran' = [ran EXCEPT ![r] = [@ EXCEPT ![t] = k]]
  <2>1. ran \in [Runs -> [Turns -> Nat]] BY DEF Inv, TypeOK
  <2>2. CASE ToolExecutes /\ Counted
    <3>1. k = 1 BY <2>2
    <3>2. ran' = [ran EXCEPT ![r][t] = @ + 1] BY <2>2 DEF ToolExecutes
    <3>3. ran[r][t] = 0 BY <1>6, <2>2
    <3> HIDE DEF k
    <3> QED BY <2>1, <3>1, <3>2, <3>3
  <2>3. CASE ~ToolExecutes /\ ToolPauses
    <3>1. k = 0 BY <2>3
    <3>2. ran' = [ran EXCEPT ![r][t] = @ - 1] BY <2>3 DEF ToolPauses
    <3>3. ran[r][t] = 1 BY <1>6, <2>3 DEF Counts
    <3> HIDE DEF k
    <3> QED BY <2>1, <3>1, <3>2, <3>3
  <2>4. CASE (ToolExecutes /\ ~Counted) \/ (~ToolExecutes /\ ~ToolPauses)
    <3>1. k = ran[r][t] BY <1>0, <2>4, <1>1
    <3>2. ran' = ran BY <1>0, <2>4 DEF ToolExecutes, ToolReturns, ToolDeadline, Quietly
    <3> QED BY <1>3, <1>4, <2>1, <3>1, <3>2
  <2> QED BY <1>0, <2>2, <2>3, <2>4
<1>11. to \in {"tool", "approval", "result"} BY <1>0
<1> HIDE DEF to, k
<1>12. /\ runner' \in Runner /\ runner'.pc = to /\ runner'.response = runner.response
       /\ runner'.run = r /\ runner'.turn = t
       /\ runner'.delivered = runner.delivered /\ runner'.told = runner.told
  BY <1>1, <1>3, <1>11 DEF Go, Runner, RunnerPCs
<1>13. TalkAgrees(runner', My) BY <1>1, <1>3, <1>11, <1>12 DEF TalkAgrees
<1>14. n[t] = k BY <1>3, <1>4
<1> HIDE DEF n
<1>15. TurnAgrees(runner', My, n)
  BY <1>4, <1>9, <1>11, <1>12, <1>14 DEF TurnAgrees, Leading, Called, Begun
<1>16. RunnerOK(runner', My, n) BY <1>3, <1>11, <1>12, <1>13, <1>15 DEF RunnerOK
<1>17. runner'.pc \notin {"idle", "report", "done"} BY <1>11, <1>12
<1> QED BY <1>1, <1>2, <1>9, <1>10, <1>12, <1>16, <1>17, RunnerCounts DEF n

\* The result enters the checkpoint; the loop goes on, or stops.
LEMMA SettleKeeps ==
  ASSUME Inv, Running, Settle PROVE Inv'
<1> DEFINE c == [My.ckpt EXCEPT !.completed = TRUE, !.delivered = runner.delivered]
           new == [My EXCEPT !.ckpt = c]
           n == ran[runner.run]
<1>1. runner.pc = "settle" /\ SaveCkpt(c) /\ Rest /\ (runner' = NextTurn(runner) \/ Stop)
  BY DEF Settle, At
<1>2. runner.pc \in InLoop BY <1>1 DEF InLoop, Called
<1>3. /\ runner \in Runner /\ My \in Run /\ TalkAgrees(runner, My) /\ TurnAgrees(runner, My, n)
      /\ ToolsAgree(My, n) /\ n \in [Turns -> Nat] /\ My.started /\ My.outcome = "none"
  BY <1>2, LoopFinds
<1>4. /\ runner.turn \in Turns /\ My.ckpt.saved /\ My.ckpt.turn = runner.turn
      /\ My.ckpt.response = runner.response /\ runner.response \in ToolNames
      /\ My.tools[runner.turn] \in {"done", "lost"}
  BY <1>1, <1>3 DEF TurnAgrees, Leading, Called
<1>5. /\ c \in Ckpt /\ c.saved /\ c.turn = runner.turn /\ c.response = runner.response
      /\ c.completed /\ c.delivered = runner.delivered
  BY <1>3, <1>4 DEF Ckpt, Runner, Run
<1> HIDE DEF c
<1>6. /\ new \in Run /\ new.ckpt = c /\ new.tools = My.tools /\ new.started = My.started
      /\ new.outcome = My.outcome /\ new.inbox = My.inbox
  BY <1>3, <1>5 DEF Run
<1>7. Mutate("runner", WithRun(runner.run, new)) BY <1>1 DEF SaveCkpt
<1> HIDE DEF new, n
<1>8. ClearFrom(new, runner.turn + 1)
  BY <1>3, <1>4, <1>6 DEF ToolsAgree, ClearFrom
<1>9. ToolsAgree(new, n)
  <2>1. c.response # "unasked" /\ c.turn # MaxTurns BY <1>4, <1>5 DEF Turns
  <2> QED BY <1>3, <1>4, <1>5, <1>6, <1>8, <2>1 DEF ToolsAgree
<1>10. My.ckpt.delivered \subseteq new.ckpt.delivered BY <1>3, <1>5, <1>6 DEF TalkAgrees
<1>11. CASE runner' = NextTurn(runner)
  <2>1. runner' \in Runner /\ runner'.pc = "turn" /\ runner'.run = runner.run
    BY <1>3, <1>4, <1>11, NextTurnIs
  <2>2. RunnerOK(runner', new, n)
    BY <1>1, <1>3, <1>4, <1>5, <1>6, <1>8, <1>11, NextTurnOK
  <2> QED BY <1>1, <1>6, <1>7, <1>9, <1>10, <2>1, <2>2, RunnerSaves DEF n
<1>12. CASE Stop
  <2>1. PICK how \in Terminal : Leave("ending", how, NoOp)
    BY <1>12 DEF Stop, Delivers, Return, Terminal
  <2>2. runner' \in Runner /\ runner'.pc = "ending" /\ runner'.how = how /\ runner'.run = runner.run
    <3>1. IdleRunner \in Runner
      BY DEF IdleRunner, Runner, RunnerPCs, Responses, NoOp, Ops
    <3>2. runner.run \in Runs \cup {NoRun} /\ runner.aborted \in BOOLEAN /\ NoOp \in Ops
      BY <1>3 DEF Runner, NoOp, Ops
    <3>3. "ending" \in RunnerPCs BY DEF RunnerPCs
    <3> QED BY <2>1, <3>1, <3>2, <3>3 DEF Leave, Runner
  <2>3. ~Waiting(how) BY DEF Terminal, Waiting, Waits
  <2>4. RunnerOK(runner', new, n)
    BY <1>3, <1>6, <2>2, <2>3, LoopPCs DEF RunnerOK
  <2> QED BY <1>1, <1>6, <1>7, <1>9, <1>10, <2>2, <2>4, RunnerSaves DEF n
<1> QED BY <1>1, <1>11, <1>12

\* The completion gate asks the model for another turn.
LEMMA NudgeKeeps ==
  ASSUME Inv, Running, Nudge PROVE Inv'
<1> DEFINE n == ran[runner.run]
<1>1. runner.pc = "end" /\ Rest BY DEF Nudge, At
<1>2. PICK held \in {TRUE, runner.held} :
        /\ SaveCkpt([Unanswered(runner.turn + 1) EXCEPT !.held = held])
        /\ runner' = [NextTurn(runner) EXCEPT !.held = held]
  BY DEF Nudge
<1> DEFINE c == [Unanswered(runner.turn + 1) EXCEPT !.held = held]
           new == [My EXCEPT !.ckpt = c]
           next == NextTurn(runner)
<1>3. runner.pc \in InLoop BY <1>1 DEF InLoop
<1>4. /\ runner \in Runner /\ My \in Run /\ TalkAgrees(runner, My) /\ TurnAgrees(runner, My, n)
      /\ ToolsAgree(My, n) /\ n \in [Turns -> Nat] /\ My.started /\ My.outcome = "none"
  BY <1>3, LoopFinds
<1>5. runner.turn \in Turns /\ My.ckpt.turn = runner.turn
  BY <1>1, <1>4 DEF TurnAgrees, Leading
<1>6. runner.turn + 1 \in 0..MaxTurns /\ held \in BOOLEAN
  <2>1. runner.turn + 1 \in 0..MaxTurns BY <1>5 DEF Turns
  <2>2. runner.held \in BOOLEAN BY <1>4 DEF Runner
  <2> QED BY <2>1, <2>2
<1>7. c \in Ckpt /\ c.turn = runner.turn + 1 /\ c.response = "unasked" /\ ~c.completed
      /\ c.delivered = runner.delivered
  BY <1>4, <1>6 DEF Unanswered, Ckpt, Responses, Runner
<1>8. ClearFrom(My, runner.turn + 1) BY <1>4, <1>5 DEF ToolsAgree
<1> HIDE DEF c, n
<1>9. /\ new \in Run /\ ToolsAgree(new, n) /\ new.tools = My.tools /\ new.ckpt = c
      /\ new.started = My.started /\ new.outcome = My.outcome /\ new.inbox = My.inbox
  <2>1. ClearFrom(My, c.turn) BY <1>7, <1>8
  <2>2. My \in Run /\ n \in [Turns -> Nat] /\ ToolsAgree(My, n) BY <1>4
  <2>3. c \in Ckpt /\ c.response = "unasked" /\ ~c.completed BY <1>7
  <2> QED BY <2>1, <2>2, <2>3, UnansweredAgrees
<1>10. Mutate("runner", WithRun(runner.run, new)) BY <1>2 DEF SaveCkpt, c
<1> HIDE DEF new, n
<1>11. /\ next \in Runner /\ next.pc = "turn" /\ next.response = "unasked"
       /\ next.turn = runner.turn + 1 /\ next.run = runner.run
       /\ next.delivered = runner.delivered /\ next.told = runner.told
  BY <1>4, <1>5, NextTurnIs
<1> HIDE DEF next
<1>12. /\ runner' \in Runner /\ runner'.pc = "turn" /\ runner'.response = "unasked"
       /\ runner'.turn = runner.turn + 1 /\ runner'.run = runner.run
       /\ runner'.delivered = runner.delivered /\ runner'.told = runner.told
  BY <1>2, <1>6, <1>11 DEF Runner, next
<1>13. ClearFrom(new, runner.turn + 1) BY <1>8, <1>9 DEF ClearFrom
<1>14. TalkAgrees(runner', new) BY <1>1, <1>4, <1>7, <1>9, <1>12 DEF TalkAgrees
<1>15. TurnAgrees(runner', new, n) BY <1>12, <1>13 DEF TurnAgrees, Leading, Called, Begun
<1>16. RunnerOK(runner', new, n) BY <1>4, <1>9, <1>12, <1>14, <1>15 DEF RunnerOK
<1>17. My.ckpt.delivered \subseteq new.ckpt.delivered BY <1>4, <1>7, <1>9 DEF TalkAgrees
<1> QED BY <1>1, <1>9, <1>10, <1>12, <1>16, <1>17, RunnerSaves DEF n

-----------------------------------------------------------------------------
(***************************************************************************)
(* How execute ends.                                                       *)
(***************************************************************************)
\* What finish records of a run that has not ended.
LEMMA FinishedKeeps ==
  ASSUME TypeOK, JournalInv, NEW r \in Runs, NEW how \in Waits \cup Terminal,
         mem.runs[r].started, ~Ends(mem.runs[r]),
         Waiting(how) => mem.active = r /\ LeadsTo(mem.runs[r], mem.runs[r].pending)
  PROVE  LET s == Finished(r, how) IN
         /\ s \in State /\ StateOK(s, ran) /\ Follows(s, mem)
         /\ s.commands = mem.commands /\ s.runs[r].outcome = how
         /\ \A o \in Runs : s.runs[o].started = mem.runs[o].started
<1> DEFINE s == Finished(r, how)
           new == [mem.runs[r] EXCEPT !.outcome = how]
           active == IF Waiting(how) \/ mem.active # r THEN mem.active ELSE NoRun
<1>1. mem \in State /\ mem.runs[r] \in Run BY DEF TypeOK, State
<1>2. active \in Runs \cup {NoRun} BY <1>1 DEF State
<1>3. new \in Run BY <1>1 DEF Run
<1>4. /\ new.outcome = how /\ new.started = mem.runs[r].started /\ new.inbox = mem.runs[r].inbox
      /\ new.ckpt = mem.runs[r].ckpt /\ new.tools = mem.runs[r].tools
      /\ new.pending = mem.runs[r].pending
  BY <1>1 DEF Run
<1>5. s = [mem EXCEPT !.runs = [mem.runs EXCEPT ![r] = new], !.active = active]
  BY <1>1 DEF Finished, State
<1> HIDE DEF new, active, s
<1>6. /\ s \in State /\ s.commands = mem.commands /\ s.active = active
      /\ s.runs[r] = new /\ \A o \in Runs : o # r => s.runs[o] = mem.runs[o]
  BY <1>1, <1>2, <1>3, <1>5 DEF State
<1>7. RunOK(r, new, ran[r])
  <2>1. RunOK(r, mem.runs[r], ran[r]) BY DEF JournalInv, StateOK
  <2>2. ToolsAgree(new, ran[r]) BY <1>4, <2>1, ToolsAgreeStays DEF RunOK
  <2>3. Waiting(how) => LeadsTo(new, new.pending) BY <1>4 DEF LeadsTo
  <2> QED BY <1>4, <2>1, <2>2, <2>3 DEF RunOK
<1>8. ~Waiting(how) => Ends(new)
  BY <1>4 DEF Ends, Waiting, Waits, Terminal
<1>9. \A o \in Runs : o \in Unfinished(s) => s.active = o
  <2> SUFFICES ASSUME NEW o \in Runs, o \in Unfinished(s) PROVE active = o BY <1>6
  <2>1. CASE o = r
    BY <1>6, <1>8, <2>1 DEF Unfinished, active
  <2>2. CASE o # r
    <3>1. o \in Unfinished(mem) BY <1>6, <2>2 DEF Unfinished
    <3>2. mem.active = o BY <3>1 DEF JournalInv, StateOK
    <3> QED BY <2>2, <3>2 DEF active
  <2> QED BY <2>1, <2>2
<1>10. StateOK(s, ran) BY <1>6, <1>7, <1>9 DEF JournalInv, StateOK
<1>11. Follows(s, mem) BY <1>4, <1>6 DEF Follows
<1> QED BY <1>4, <1>6, <1>10, <1>11 DEF s

LEMMA CatchKeeps ==
  ASSUME Inv, Running, Catch PROVE Inv'
<1>1. /\ runner.pc = "catch" /\ writing # "runner" /\ Quietly
      /\ runner \in Runner /\ My.started /\ My.outcome = "none"
      /\ runner.how \in Waits \cup Terminal /\ (Waiting(runner.how) => LeadsTo(My, runner.op))
  BY DEF Catch, At, Inv, TypeOK, RunnerInv, RunnerOK
<1>2. CASE runner.aborted
  <2>1. NoOp \in Ops /\ "ending" \in RunnerPCs /\ "cancelled" \in Terminal
        /\ ~Waiting("cancelled")
    BY DEF NoOp, Ops, RunnerPCs, Terminal, Waiting, Waits
  <2>2. runner' \in Runner /\ runner'.pc = "ending" /\ runner'.how = "cancelled"
        /\ runner'.run = runner.run
    BY <1>1, <1>2, <2>1 DEF Catch, Runner
  <2>3. RunnerOK(runner', My, ran[runner.run])
    BY <1>1, <2>1, <2>2, LoopPCs DEF RunnerOK
  <2> QED BY <1>1, <2>2, <2>3, RunnerQuiet DEF Quietly
<1>3. CASE ~runner.aborted
  <2> DEFINE pc == IF Waiting(runner.how) THEN "pause" ELSE "ending"
  <2>1. /\ pc \in {"pause", "ending"} /\ (pc = "pause" => Waiting(runner.how))
        /\ (pc = "ending" => ~Waiting(runner.how))
    OBVIOUS
  <2>2. runner' = [runner EXCEPT !.pc = pc] BY <1>1, <1>3 DEF Catch
  <2> HIDE DEF pc
  <2>3. runner' \in Runner /\ runner'.pc = pc /\ runner'.how = runner.how
        /\ runner'.op = runner.op /\ runner'.run = runner.run
    BY <1>1, <2>1, <2>2 DEF Runner, RunnerPCs
  <2>4. RunnerOK(runner', My, ran[runner.run])
    BY <1>1, <2>1, <2>3, LoopPCs DEF RunnerOK
  <2> QED BY <1>1, <2>1, <2>3, <2>4, RunnerQuiet DEF Quietly
<1> QED BY <1>2, <1>3

\* The operation the run waits for is noted before its outcome.
LEMMA KeepOperationKeeps ==
  ASSUME Inv, Running, KeepOperation PROVE Inv'
<1> DEFINE new == [My EXCEPT !.pending = runner.op]
           n == ran[runner.run]
<1>1. /\ runner.pc = "pause" /\ Mutate("runner", WithRun(runner.run, new)) /\ Rest
      /\ Go("ending")
  BY DEF KeepOperation, At
<1>2. /\ runner \in Runner /\ My \in Run /\ My.started /\ My.outcome = "none"
      /\ runner.how \in Waits \cup Terminal /\ LeadsTo(My, runner.op) /\ runner.run \in Runs
  BY <1>1 DEF Inv, TypeOK, State, RunnerInv, RunnerOK, My
<1>3. ToolsAgree(My, n) BY <1>2 DEF Inv, JournalInv, StateOK, RunOK, My
<1>4. /\ new \in Run /\ new.pending = runner.op /\ new.started = My.started
      /\ new.outcome = My.outcome /\ new.inbox = My.inbox /\ new.ckpt = My.ckpt
      /\ new.tools = My.tools
  BY <1>2 DEF Run, Runner
<1> HIDE DEF new, n
<1>5. ToolsAgree(new, n) BY <1>3, <1>4, ToolsAgreeStays
<1>6. LeadsTo(new, new.pending) BY <1>2, <1>4 DEF LeadsTo
<1>7. runner' \in Runner /\ runner'.pc = "ending" /\ runner'.how = runner.how
      /\ runner'.run = runner.run
  BY <1>1, <1>2 DEF Go, Runner, RunnerPCs
<1>8. RunnerOK(runner', new, n) BY <1>2, <1>4, <1>6, <1>7, LoopPCs DEF RunnerOK
<1> QED BY <1>1, <1>4, <1>5, <1>7, <1>8, RunnerSaves DEF n

LEMMA FinishKeeps ==
  ASSUME Inv, Running, Finish PROVE Inv'
<1> DEFINE r == runner.run
           s == Finished(r, runner.how)
<1>1. runner.pc = "ending" /\ Mutate("runner", s) /\ Rest /\ Go("report")
  BY DEF Finish, At
<1>2. /\ runner \in Runner /\ r \in Runs /\ My.started /\ My.outcome = "none"
      /\ runner.how \in Waits \cup Terminal /\ mem.active = r
      /\ (Waiting(runner.how) => LeadsTo(My, My.pending))
  BY <1>1 DEF Inv, TypeOK, RunnerInv, RunnerOK
<1>3. ~Ends(mem.runs[r]) BY <1>2 DEF Ends, My
<1>4. /\ s \in State /\ StateOK(s, ran) /\ Follows(s, mem)
      /\ s.commands = mem.commands /\ s.runs[r].outcome = runner.how
      /\ \A o \in Runs : s.runs[o].started = mem.runs[o].started
  BY <1>2, <1>3, FinishedKeeps DEF Inv, My
<1> HIDE DEF s
<1>5. runner' \in Runner /\ runner'.pc = "report" /\ runner'.how = runner.how /\ runner'.run = r
  BY <1>1, <1>2 DEF Go, Runner, RunnerPCs
<1>6. writing' = "runner" /\ mem' = s /\ disk' = disk /\ line' = shown /\ shown' = shown
      /\ broken' = broken /\ ran' = ran /\ reader' = reader /\ shutting' = shutting /\ bounds' = bounds
  BY <1>1 DEF Mutate, Rest
<1>7. Running' BY <1>5 DEF Running
<1>8. TypeOK' BY <1>4, <1>5, <1>6 DEF Inv, TypeOK, bounds
<1>9. JournalInv' BY <1>1, <1>4, <1>6, <1>7, MutateKeeps DEF Inv
<1>10. ReaderInv' BY <1>4, <1>6, ReaderStays DEF Inv
<1>11. RunnerOK(runner', s.runs[r], ran[r])
  BY <1>4, <1>5, LoopPCs DEF RunnerOK
<1>12. RunnerInv' BY <1>2, <1>5, <1>6, <1>11 DEF RunnerInv, My
<1> QED BY <1>8, <1>9, <1>10, <1>12 DEF Inv

LEMMA ReportKeeps ==
  ASSUME Inv, Running, Report PROVE Inv'
<1> DEFINE r == runner.run
           out == Ended(r, runner.how)
<1>1. runner.pc = "report" /\ Emit("runner", out) /\ Rest /\ Go("done") BY DEF Report, At
<1>2. /\ runner \in Runner /\ r \in Runs /\ My.outcome = runner.how /\ shown \in Shown
      /\ mem \in State
  BY <1>1 DEF Inv, TypeOK, RunnerInv, RunnerOK
<1>3. runner' \in Runner /\ runner'.pc = "done" /\ runner'.run = r
  BY <1>1, <1>2 DEF Go, Runner, RunnerPCs
<1>4. writing' = "runner" /\ mem' = mem /\ disk' = disk /\ line' = out /\ shown' = shown
      /\ broken' = broken /\ ran' = ran /\ reader' = reader /\ shutting' = shutting /\ bounds' = bounds
  BY <1>1 DEF Emit, Rest
<1>5. Running' BY <1>3 DEF Running
<1>6. /\ out \in Shown /\ out.accepted = shown.accepted /\ out.told = shown.told
      /\ out.ended[r] = runner.how /\ \A o \in Runs : o # r => out.ended[o] = shown.ended[o]
  <2>1. runner.how \in Waits \cup Terminal \cup {"none"} BY <1>2 DEF Runner
  <2> QED BY <1>2, <2>1 DEF Ended, Shown
<1> HIDE DEF out
<1>7. ShownIn(out, mem)
  <2>1. ShownIn(shown, mem) BY <1>1 DEF Inv, JournalInv, Emit
  <2> QED BY <1>2, <1>6, <2>1 DEF ShownIn, My
<1>8. TypeOK' BY <1>3, <1>4, <1>6 DEF Inv, TypeOK, bounds
<1>9. JournalInv' BY <1>1, <1>4, <1>5, <1>7, EmitKeeps DEF Inv
<1>10. ReaderInv' BY <1>4, ReaderStays DEF Inv
<1>11. RunnerOK(runner', mem.runs[r], ran[r]) BY <1>3, LoopPCs DEF RunnerOK
<1>12. RunnerInv' BY <1>2, <1>3, <1>4, <1>11 DEF RunnerInv, My
<1> QED BY <1>8, <1>9, <1>10, <1>12 DEF Inv

LEMMA DoneKeeps ==
  ASSUME Inv, Running, Done PROVE Inv'
<1>1. runner.pc = "done" /\ writing # "runner" /\ Quietly /\ runner' = IdleRunner
  BY DEF Done, At
<1>2. mem' = mem /\ disk' = disk /\ writing' = writing /\ line' = line /\ shown' = shown
      /\ broken' = broken /\ ran' = ran /\ reader' = reader /\ shutting' = shutting /\ bounds' = bounds
  BY <1>1 DEF Quietly, journal
<1>3. ~Running' BY <1>1 DEF Running, IdleRunner
<1>4. IdleRunner \in Runner
  BY DEF IdleRunner, Runner, RunnerPCs, Responses, NoOp, Ops
<1>5. TypeOK' BY <1>1, <1>2, <1>4 DEF Inv, TypeOK, bounds
<1>6. JournalInv' BY <1>1, <1>2, <1>3, QuietKeeps DEF Inv, JournalInv, journal
<1>7. ReaderInv' BY <1>2, ReaderStays DEF Inv
<1> QED BY <1>3, <1>5, <1>6, <1>7 DEF Inv, RunnerInv

\* Every step of the runner.
LEMMA RunnerKeeps ==
  ASSUME Inv, RunnerStep \/ ToolAnswers PROVE Inv'
<1>1. Running
  BY DEF RunnerStep, ToolAnswers, LoopStep, ToolStep, EndStep, Running, At, Calling, Interrupted,
     Begin, Aborted, OutOfTurns, InjectBefore, InjectAfter, Deliver, Tell, Freeze, ModelAnswers,
     ModelPauses, ModelEnds, Replay, Save, Settle, Complete, Nudge, ToolCompleted, ToolReplayed,
     ShellLost, PaidCallLost, ToolBegins, ToolExecutes, ToolDeadline, KeepApproval, KeepResult,
     ToolReturns, ToolPauses, ToolThrows, Catch, KeepOperation, Finish, Report, Done
<1>2. CASE LoopStep
  BY <1>1, <1>2, BeginKeeps, AbortedKeeps, InjectKeeps, DeliverKeeps, TellKeeps, ModelKeeps,
     ModelPausesKeeps, SaveAnswerKeeps, SettleKeeps, NudgeKeeps DEF LoopStep
<1>3. CASE ToolStep \/ ToolAnswers
  BY <1>1, <1>3, ToolAnsweredKeeps, ToolKept, AbortedKeeps, ToolWorksKeeps, KeepApprovalKeeps
     DEF ToolStep, ToolAnswers
<1>4. CASE EndStep
  BY <1>1, <1>4, CatchKeeps, KeepOperationKeeps, FinishKeeps, ReportKeeps, DoneKeeps DEF EndStep
<1> QED BY <1>2, <1>3, <1>4 DEF RunnerStep

-----------------------------------------------------------------------------
(***************************************************************************)
(* The reader's steps.                                                     *)
(***************************************************************************)
\* A step of the reader that writes nothing.
LEMMA ReaderQuiet ==
  ASSUME Inv, UNCHANGED <<journal, broken, ran>>, reader' \in Reader, shutting' \in BOOLEAN,
         lines' \in 0..MaxLines, left' = left,
         \/ runner' = runner
         \/ Running /\ runner' = [runner EXCEPT !.aborted = TRUE]
         \/ ~Running /\ ~Running' /\ runner' \in Runner,
         ReaderInv'
  PROVE  Inv'
<1>1. mem' = mem /\ disk' = disk /\ writing' = writing /\ line' = line /\ shown' = shown
      /\ broken' = broken /\ ran' = ran
  BY DEF journal
<1>2. runner \in Runner BY DEF Inv, TypeOK
<1>3. runner' \in Runner /\ (Running' <=> Running)
  BY <1>2 DEF Runner, Running
<1>4. TypeOK' BY <1>1, <1>3 DEF Inv, TypeOK
<1>5. JournalInv' BY <1>1, <1>3, QuietKeeps DEF Inv, JournalInv
<1>6. RunnerInv'
  BY <1>1, <1>2, <1>3, RunnerStays DEF Inv, RunnerInv, SameButInbox, My
<1> QED BY <1>4, <1>5, <1>6 DEF Inv

LEMMA ReadLineKeeps ==
  ASSUME Inv, ReadLine PROVE Inv'
<1> DEFINE q == reader
<1>1. PICK c \in Commands, pc \in ReaderPCs \ {"idle"} :
        /\ Handle(c, pc)
        /\ \/ pc = "drain" /\ c.type = "worker.shutdown" /\ shutting' = TRUE
              /\ runner' = [runner EXCEPT !.aborted = Running]
           \/ /\ UNCHANGED <<runner, shutting>>
              /\ \/ pc = "record" /\ c.type = "run.cancel" /\ Its(c).started
                 \/ pc = "record" /\ c.type = "run.message"
                 \/ pc \in {"again", "replay"} /\ StartsRun(c) /\ c \in mem.commands
                 \/ pc = "record" /\ StartsRun(c) /\ ~Running /\ AgentFree(c)
                    /\ \/ Its(c).outcome = "none" \/ ~Its(c).started
                       \/ Waiting(Its(c).outcome)
  BY DEF ReadLine, ReadShutdown, ReadCancel, ReadMessage, ReadDuplicate, ReadFinished, ReadRun,
     ReaderPCs, Known, Resumes
<1>2. /\ reader' = [pc |-> pc, cmd |-> c] /\ lines' = lines + 1 /\ lines < MaxLines /\ ~broken
      /\ UNCHANGED <<journal, broken, ran, left>>
  BY <1>1 DEF Handle, Read
<1>3. reader' \in Reader /\ reader'.pc = pc /\ reader'.cmd = c
  BY <1>2 DEF Reader
<1>4. lines' \in 0..MaxLines BY <1>2 DEF Inv, TypeOK
<1>5. mem' = mem /\ broken' = broken BY <1>2 DEF journal
<1>6. runner \in Runner /\ Running \in BOOLEAN BY DEF Inv, TypeOK, Running
<1>7. runner' \in Runner /\ (Running' <=> Running)
  BY <1>1, <1>6 DEF Runner, Running
<1>8. shutting' \in BOOLEAN BY <1>1 DEF Inv, TypeOK
<1>9. StartsRun(c) => c.run \in Runs
  BY DEF StartsRun, Command
<1>10. StartsRun(c) /\ (Its(c).outcome = "none" \/ ~Its(c).started \/ Waiting(Its(c).outcome))
         => ~Ends(Its(c))
  <2>1. c.run \in Runs /\ ~Its(c).started => Its(c).outcome = "none"
    BY DEF Inv, JournalInv, StateOK, RunOK, Its
  <2> QED BY <1>9, <2>1 DEF Ends
<1>11. ReaderInv'
  BY <1>1, <1>2, <1>3, <1>5, <1>7, <1>10 DEF ReaderInv, StartsRun, Its, AgentFree
<1>12. \/ runner' = runner
       \/ Running /\ runner' = [runner EXCEPT !.aborted = TRUE]
       \/ ~Running /\ ~Running' /\ runner' \in Runner
  BY <1>1, <1>7
<1> QED BY <1>2, <1>3, <1>4, <1>8, <1>11, <1>12, ReaderQuiet

LEMMA IdleReaderIs ==
  IdleReader \in Reader /\ IdleReader.pc = "idle"
BY DEF IdleReader, Reader, ReaderPCs

LEMMA IdleReaderInv == reader' = IdleReader => ReaderInv'
BY IdleReaderIs DEF ReaderInv

LEMMA DrainedKeeps ==
  ASSUME Inv, Drained PROVE Inv'
<1>1. reader \in Reader BY DEF Inv, TypeOK
<1>2. reader' \in Reader /\ reader'.pc = "record" /\ reader'.cmd = reader.cmd
  BY <1>1 DEF Drained, Reader, ReaderPCs
<1>3. reader.cmd.type = "worker.shutdown" /\ reader.cmd \in Commands
  BY DEF Drained, Inv, ReaderInv
<1>4. mem' = mem BY DEF Drained, journal
<1>5. ReaderInv' BY <1>2, <1>3, <1>4 DEF ReaderInv, StartsRun
<1> QED BY <1>2, <1>5, ReaderQuiet DEF Drained, Inv, TypeOK, bounds

\* A run starts to be executed: the reader has recorded it, and its write is done.
LEMMA ExecuteKeeps ==
  ASSUME Inv, Execute PROVE Inv'
<1>1. PICK c \in Commands :
        /\ reader.pc = "act" /\ writing # "reader" /\ reader.cmd = c /\ StartsRun(c)
        /\ UNCHANGED <<journal, broken, shutting, ran, bounds>>
        /\ runner' = [IdleRunner EXCEPT !.pc = "begin", !.run = c.run]
        /\ reader' = IdleReader
  BY DEF Execute, ReaderActs
<1>2. c.run \in Runs BY <1>1 DEF StartsRun, Command
<1>3. ~Running /\ ~broken /\ mem.active = c.run /\ Its(c).started /\ Its(c).outcome = "none"
  BY <1>1 DEF Inv, ReaderInv
<1>4. writing = "none" /\ mem = disk BY <1>1, <1>3 DEF Inv, TypeOK, JournalInv
<1>5. IdleRunner \in Runner
  BY DEF IdleRunner, Runner, RunnerPCs, Responses, NoOp, Ops
<1>6. /\ runner' \in Runner /\ runner'.pc = "begin" /\ runner'.run = c.run /\ runner'.told = {}
  <2>1. "begin" \in RunnerPCs /\ IdleRunner.told = {} BY DEF RunnerPCs, IdleRunner
  <2> QED BY <1>1, <1>2, <1>5, <2>1 DEF Runner
<1>7. mem' = mem /\ disk' = disk /\ writing' = writing /\ line' = line /\ shown' = shown
      /\ broken' = broken /\ ran' = ran /\ shutting' = shutting /\ bounds' = bounds
  BY <1>1 DEF journal
<1>8. TypeOK' BY <1>1, <1>6, <1>7, IdleReaderIs DEF Inv, TypeOK, bounds
<1>9. JournalInv' BY <1>1, <1>3, <1>4, <1>7, QuietKeeps DEF Inv
<1>10. ReaderInv' BY <1>1, IdleReaderInv
<1>11. RunnerOK(runner', mem.runs[c.run], ran[c.run])
  BY <1>3, <1>6, LoopPCs DEF RunnerOK, Its
<1>12. RunnerInv'
  BY <1>2, <1>3, <1>4, <1>6, <1>7, <1>11 DEF RunnerInv, My, SameButInbox
<1> QED BY <1>8, <1>9, <1>10, <1>12 DEF Inv

LEMMA CancelKeeps ==
  ASSUME Inv, Cancel PROVE Inv'
<1>1. PICK c \in Commands :
        /\ ReaderActs(c) /\ c.type = "run.cancel"
        /\ IF mem.active = c.run /\ Running
           THEN /\ runner' = [runner EXCEPT !.aborted = TRUE]
                /\ reader' = IdleReader
           ELSE /\ reader' = IF Ends(Its(c)) THEN IdleReader
                             ELSE [reader EXCEPT !.pc = "finish"]
                /\ UNCHANGED runner
  BY DEF Cancel
<1>2. /\ reader.pc = "act" /\ reader.cmd = c /\ reader \in Reader
      /\ UNCHANGED <<journal, broken, shutting, ran, bounds>>
  BY <1>1 DEF ReaderActs, Inv, TypeOK
<1>3. mem' = mem /\ broken' = broken BY <1>2 DEF journal
<1>4. c.run \in Runs /\ Its(c).started
  BY <1>1, <1>2 DEF Inv, ReaderInv, Command
<1>5. CASE mem.active = c.run /\ Running
  BY <1>1, <1>2, <1>5, IdleReaderIs, IdleReaderInv, ReaderQuiet DEF Inv, TypeOK, bounds
<1>6. CASE ~(mem.active = c.run /\ Running) /\ Ends(Its(c))
  BY <1>1, <1>2, <1>6, IdleReaderIs, IdleReaderInv, ReaderQuiet DEF Inv, TypeOK, bounds
<1>7. CASE ~(mem.active = c.run /\ Running) /\ ~Ends(Its(c))
  <2>1. mem.active = c.run
    BY <1>4, <1>7 DEF Inv, JournalInv, StateOK, Unfinished, Its
  <2>2. ~Running BY <1>7, <2>1
  <2>3. runner' = runner /\ reader' = [reader EXCEPT !.pc = "finish"] BY <1>1, <1>7
  <2>4. reader' \in Reader /\ reader'.pc = "finish" /\ reader'.cmd = c
    BY <1>2, <2>3 DEF Reader, ReaderPCs
  <2>5. ReaderInv'
    BY <1>1, <1>3, <1>4, <1>7, <2>2, <2>3, <2>4 DEF ReaderInv, Its, Running, StartsRun
  <2> QED BY <1>2, <2>3, <2>4, <2>5, ReaderQuiet DEF Inv, TypeOK, bounds
<1> QED BY <1>5, <1>6, <1>7

\* The reader saves a change of the state.
LEMMA ReaderMutates ==
  ASSUME Inv, NEW s \in State, Mutate("reader", s), StateOK(s, ran), Follows(s, mem),
         UNCHANGED <<broken, runner, shutting, ran, bounds>>, reader' \in Reader, ReaderInv',
         Running => SameButInbox(s.runs[runner.run], My) /\ s.active = mem.active
  PROVE  Inv'
<1>1. writing' = "reader" /\ mem' = s /\ disk' = disk /\ line' = shown /\ shown' = shown
      /\ mem = disk
  BY DEF Mutate, Inv, JournalInv
<1>2. TypeOK' BY <1>1 DEF Inv, TypeOK, bounds
<1>3. JournalInv' BY MutateKeeps DEF Inv
<1>4. Running' <=> Running BY DEF Running
<1>5. Running => SameButInbox(mem'.runs[runner.run], disk'.runs[runner.run])
  BY <1>1 DEF My
<1>6. RunnerInv'
  <2>1. Running => SameButInbox(mem'.runs[runner.run], My) /\ mem'.active = mem.active
    BY <1>1
  <2>2. Running => runner.run \in Runs BY DEF Inv, RunnerInv
  <2> QED BY <1>4, <1>5, <2>1, <2>2, RunnerStays DEF Inv, RunnerInv
<1> QED BY <1>2, <1>3, <1>6 DEF Inv

\* The reader says something that is true.
LEMMA ReaderEmits ==
  ASSUME Inv, NEW out \in Shown, Emit("reader", out), ShownIn(out, mem),
         UNCHANGED <<broken, runner, shutting, ran, bounds>>, reader' \in Reader, ReaderInv'
  PROVE  Inv'
<1>1. writing' = "reader" /\ mem' = mem /\ disk' = disk /\ line' = out /\ shown' = shown
      /\ writing = "none"
  BY DEF Emit
<1>2. TypeOK' BY <1>1 DEF Inv, TypeOK, bounds
<1>3. JournalInv' BY EmitKeeps DEF Inv
<1>4. Running' <=> Running BY DEF Running
<1>5. RunnerInv' BY <1>1, <1>4 DEF Inv, RunnerInv, My
<1> QED BY <1>2, <1>3, <1>5 DEF Inv

LEMMA WithCommandKeeps ==
  ASSUME Inv, NEW c \in Commands
  PROVE  LET s == WithCommand(c) IN
         /\ s \in State /\ StateOK(s, ran) /\ Follows(s, mem)
         /\ s.runs = mem.runs /\ s.active = mem.active /\ c \in s.commands
<1> DEFINE s == WithCommand(c)
<1>1. mem \in State BY DEF Inv, TypeOK
<1>2. /\ s \in State /\ s.runs = mem.runs /\ s.active = mem.active
      /\ s.commands = mem.commands \cup {c}
  BY <1>1 DEF WithCommand, State
<1> HIDE DEF s
<1>3. StateOK(s, ran) BY <1>2 DEF Inv, JournalInv, StateOK, Unfinished
<1>4. Follows(s, mem) BY <1>2 DEF Follows
<1> QED BY <1>2, <1>3, <1>4 DEF s

LEMMA WithMessageKeeps ==
  ASSUME Inv, NEW c \in Messages
  PROVE  LET s == WithMessage(c) IN
         /\ s \in State /\ StateOK(s, ran) /\ Follows(s, mem)
         /\ s.active = mem.active /\ c \in s.commands
         /\ \A r \in Runs : SameButInbox(s.runs[r], mem.runs[r])
<1> DEFINE w == WithCommand(c)
           r == c.run
           new == [mem.runs[r] EXCEPT !.inbox = @ \cup {c}]
           s == WithMessage(c)
<1>1. c \in Commands /\ r \in Runs BY DEF Messages, Command
<1>2. /\ w \in State /\ StateOK(w, ran) /\ Follows(w, mem)
      /\ w.runs = mem.runs /\ w.active = mem.active /\ c \in w.commands
  BY <1>1, WithCommandKeeps
<1>3. mem.runs[r] \in Run BY <1>1 DEF Inv, TypeOK, State
<1>4. /\ new \in Run /\ new.started = mem.runs[r].started /\ new.outcome = mem.runs[r].outcome
      /\ new.pending = mem.runs[r].pending /\ new.ckpt = mem.runs[r].ckpt
      /\ new.tools = mem.runs[r].tools /\ new.inbox = mem.runs[r].inbox \cup {c}
  BY <1>3 DEF Run
<1>5. s = [w EXCEPT !.runs[r] = new]
  BY <1>1, <1>2 DEF WithMessage, State
<1> HIDE DEF new, w, s
<1>6. /\ s \in State /\ s.commands = w.commands /\ s.active = w.active
      /\ s.runs[r] = new /\ \A o \in Runs : o # r => s.runs[o] = w.runs[o]
  BY <1>1, <1>2, <1>4, <1>5, WithRunIs
<1>7. \A o \in Runs : SameButInbox(s.runs[o], mem.runs[o])
  BY <1>2, <1>4, <1>6 DEF SameButInbox
<1>8. RunOK(r, new, ran[r])
  <2>1. RunOK(r, mem.runs[r], ran[r]) BY <1>1 DEF Inv, JournalInv, StateOK
  <2>2. ToolsAgree(new, ran[r]) BY <1>4, <2>1, ToolsAgreeStays DEF RunOK
  <2>3. LeadsTo(mem.runs[r], mem.runs[r].pending) => LeadsTo(new, new.pending)
    BY <1>4 DEF LeadsTo
  <2> QED BY <1>4, <2>1, <2>2, <2>3 DEF RunOK
<1>9. StateOK(s, ran)
  <2>1. \A o \in Runs : o \in Unfinished(s) => o \in Unfinished(w)
    BY <1>2, <1>4, <1>6 DEF Unfinished, Ends
  <2> QED BY <1>2, <1>6, <1>8, <2>1 DEF StateOK
<1>10. Follows(s, mem)
  BY <1>2, <1>6, <1>7 DEF Follows, SameButInbox
<1> QED BY <1>2, <1>6, <1>7, <1>9, <1>10 DEF s

\* A run that has not ended becomes the agent's one unfinished run.
LEMMA WithActiveKeeps ==
  ASSUME Inv, NEW c \in Commands, StartsRun(c), AgentFree(c), ~Ends(Its(c))
  PROVE  LET s == WithActive(c) IN
         /\ s \in State /\ StateOK(s, ran) /\ Follows(s, mem)
         /\ s.active = c.run /\ c \in s.commands
         /\ s.runs[c.run].started /\ s.runs[c.run].outcome = "none"
<1> DEFINE w == WithCommand(c)
           r == c.run
           new == [mem.runs[r] EXCEPT !.started = TRUE, !.outcome = "none"]
           s == WithActive(c)
<1>1. r \in Runs BY DEF StartsRun, Command
<1>2. /\ w \in State /\ StateOK(w, ran) /\ Follows(w, mem)
      /\ w.runs = mem.runs /\ w.active = mem.active /\ c \in w.commands
  BY <1>1, WithCommandKeeps
<1>3. mem.runs[r] \in Run BY <1>1 DEF Inv, TypeOK, State
<1>4. /\ new \in Run /\ new.started /\ new.outcome = "none"
      /\ new.pending = mem.runs[r].pending /\ new.ckpt = mem.runs[r].ckpt
      /\ new.tools = mem.runs[r].tools /\ new.inbox = mem.runs[r].inbox
  BY <1>3 DEF Run
<1>5. s = [w EXCEPT !.runs = [w.runs EXCEPT ![r] = new], !.active = r]
  <2>1. s = [w EXCEPT !.runs[r].started = TRUE, !.runs[r].outcome = "none", !.active = r]
    BY DEF WithActive
  <2> HIDE DEF w, s
  <2> QED BY <1>1, <1>2, <1>3, <2>1 DEF State, Run
<1> HIDE DEF new, w, s
<1>6. /\ s \in State /\ s.commands = w.commands /\ s.active = r
      /\ s.runs[r] = new /\ \A o \in Runs : o # r => s.runs[o] = w.runs[o]
  BY <1>1, <1>2, <1>4, <1>5 DEF State
<1>7. RunOK(r, new, ran[r])
  <2>1. RunOK(r, mem.runs[r], ran[r]) BY <1>1 DEF Inv, JournalInv, StateOK
  <2>2. ToolsAgree(new, ran[r]) BY <1>4, <2>1, ToolsAgreeStays DEF RunOK
  <2> QED BY <1>4, <2>1, <2>2 DEF RunOK, Waiting, Waits
<1>8. StateOK(s, ran)
  <2>1. \A o \in Runs : o # r => o \notin Unfinished(s)
    BY <1>2, <1>6 DEF StateOK, Unfinished, AgentFree
  <2> QED BY <1>2, <1>6, <1>7, <2>1 DEF StateOK
<1>9. Follows(s, mem)
  BY <1>2, <1>4, <1>6 DEF Follows, Its
<1> QED BY <1>2, <1>4, <1>6, <1>8, <1>9 DEF s

LEMMA RecordKeeps ==
  ASSUME Inv, Record PROVE Inv'
<1> DEFINE c == reader.cmd
           s == CASE c.type = "run.message" -> WithMessage(c)
                  [] StartsRun(c) -> WithActive(c)
                  [] OTHER -> WithCommand(c)
<1>1. /\ reader.pc = "record" /\ Mutate("reader", s) /\ reader' = [reader EXCEPT !.pc = "accept"]
      /\ UNCHANGED <<broken, runner, shutting, ran, bounds>>
  BY DEF Record
<1>2. c \in Commands /\ reader \in Reader BY <1>1 DEF Inv, ReaderInv, TypeOK
<1>3. reader' \in Reader /\ reader'.pc = "accept" /\ reader'.cmd = c
  BY <1>1, <1>2 DEF Reader, ReaderPCs
<1>4. mem' = s /\ (Running' <=> Running) BY <1>1 DEF Mutate, Running
<1>5. c.type = "run.cancel" => Its(c).started /\ c.run \in Runs
  BY <1>1, <1>2 DEF Inv, ReaderInv, Command
<1>6. StartsRun(c) => c.type \notin {"run.message", "run.cancel"} BY DEF StartsRun
<1>7. CASE c.type = "run.message"
  <2>1. s = WithMessage(c) /\ ~StartsRun(c) BY <1>6, <1>7
  <2>2. c \in Messages BY <1>2, <1>7 DEF Messages
  <2>3. /\ s \in State /\ StateOK(s, ran) /\ Follows(s, mem)
        /\ s.active = mem.active /\ c \in s.commands
        /\ \A r \in Runs : SameButInbox(s.runs[r], mem.runs[r])
    BY <2>1, <2>2, WithMessageKeeps
  <2> HIDE DEF s
  <2>4. ReaderInv' BY <1>2, <1>3, <1>4, <1>7, <2>1, <2>3 DEF ReaderInv, StartsRun
  <2>5. Running => SameButInbox(s.runs[runner.run], My) /\ s.active = mem.active
    BY <2>3 DEF Inv, RunnerInv, My
  <2> QED BY <1>1, <1>3, <2>3, <2>4, <2>5, ReaderMutates
<1>8. CASE StartsRun(c)
  <2>1. s = WithActive(c) BY <1>6, <1>8
  <2>2. ~Running /\ ~broken /\ AgentFree(c) /\ ~Ends(Its(c))
    BY <1>1, <1>8 DEF Inv, ReaderInv
  <2>3. /\ s \in State /\ StateOK(s, ran) /\ Follows(s, mem)
        /\ s.active = c.run /\ c \in s.commands
        /\ s.runs[c.run].started /\ s.runs[c.run].outcome = "none"
    BY <1>2, <1>8, <2>1, <2>2, WithActiveKeeps
  <2> HIDE DEF s
  <2>4. ReaderInv'
    BY <1>1, <1>2, <1>3, <1>4, <1>6, <1>8, <2>2, <2>3 DEF ReaderInv, StartsRun, Its
  <2> QED BY <1>1, <1>3, <2>2, <2>3, <2>4, ReaderMutates
<1>9. CASE ~StartsRun(c) /\ c.type # "run.message"
  <2>1. s = WithCommand(c) BY <1>9
  <2>2. /\ s \in State /\ StateOK(s, ran) /\ Follows(s, mem)
        /\ s.runs = mem.runs /\ s.active = mem.active /\ c \in s.commands
    BY <1>2, <2>1, WithCommandKeeps
  <2> HIDE DEF s
  <2>3. ReaderInv' BY <1>2, <1>3, <1>4, <1>5, <1>9, <2>2 DEF ReaderInv, StartsRun, Its
  <2>4. Running => SameButInbox(s.runs[runner.run], My) /\ s.active = mem.active
    BY <2>2 DEF SameButInbox, My
  <2> QED BY <1>1, <1>3, <2>2, <2>3, <2>4, ReaderMutates
<1> QED BY <1>7, <1>8, <1>9

-----------------------------------------------------------------------------
(***************************************************************************)
(* The events of the reader.                                               *)
(***************************************************************************)
LEMMA EmitIs ==
  ASSUME Inv, NEW out, Emit("reader", out)
  PROVE  /\ writing = "none" /\ ~broken /\ mem' = mem /\ mem = disk
         /\ shown \in Shown /\ ShownIn(shown, mem)
BY DEF Emit, Inv, JournalInv, TypeOK

LEMMA AcceptedIsShown ==
  ASSUME Inv, NEW c \in mem.commands, ShownIn(shown, mem)
  PROVE  Accepted(c) \in Shown /\ ShownIn(Accepted(c), mem)
<1>1. shown \in Shown /\ mem \in State BY DEF Inv, TypeOK
<1>2. c \in Commands BY <1>1 DEF State
<1>3. /\ Accepted(c) \in Shown /\ Accepted(c).told = shown.told
      /\ Accepted(c).ended = shown.ended /\ Accepted(c).accepted = shown.accepted \cup {c}
  BY <1>1, <1>2 DEF Accepted, Shown
<1> QED BY <1>3 DEF ShownIn

LEMMA EndedIsShown ==
  ASSUME Inv, NEW r \in Runs, NEW how \in Waits \cup Terminal \cup {"none"},
         ShownIn(shown, mem), how = mem.runs[r].outcome
  PROVE  Ended(r, how) \in Shown /\ ShownIn(Ended(r, how), mem)
<1>1. shown \in Shown BY DEF Inv, TypeOK
<1>2. /\ Ended(r, how) \in Shown /\ Ended(r, how).told = shown.told
      /\ Ended(r, how).accepted = shown.accepted
      /\ \A o \in Runs : Ended(r, how).ended[o] = IF o = r THEN how ELSE shown.ended[o]
  BY <1>1 DEF Ended, Shown
<1> QED BY <1>2 DEF ShownIn

LEMMA AcceptKeeps ==
  ASSUME Inv, Accept PROVE Inv'
<1> DEFINE c == reader.cmd
<1>1. /\ reader.pc = "accept" /\ Emit("reader", Accepted(c))
      /\ reader' = IF c.type = "run.cancel" \/ StartsRun(c)
                   THEN [reader EXCEPT !.pc = "act"] ELSE IdleReader
      /\ UNCHANGED <<broken, runner, shutting, ran, bounds>>
  BY DEF Accept
<1>2. c \in mem.commands /\ c \in Commands /\ reader \in Reader
  BY <1>1 DEF Inv, ReaderInv, TypeOK
<1>3. Accepted(c) \in Shown /\ ShownIn(Accepted(c), mem) /\ mem' = mem
  BY <1>1, <1>2, EmitIs, AcceptedIsShown
<1>4. Running' <=> Running BY <1>1 DEF Running
<1>5. CASE c.type = "run.cancel" \/ StartsRun(c)
  <2>1. reader' = [reader EXCEPT !.pc = "act"] BY <1>1, <1>5
  <2>2. reader' \in Reader /\ reader'.pc = "act" /\ reader'.cmd = c
    BY <1>2, <2>1 DEF Reader, ReaderPCs
  <2>3. ReaderInv'
    BY <1>1, <1>2, <1>3, <1>4, <1>5, <2>2 DEF Inv, ReaderInv, StartsRun, Its
  <2> QED BY <1>1, <1>3, <2>2, <2>3, ReaderEmits
<1>6. CASE ~(c.type = "run.cancel" \/ StartsRun(c))
  <2>1. reader' = IdleReader BY <1>1, <1>6
  <2> QED BY <1>1, <1>3, <2>1, IdleReaderIs, IdleReaderInv, ReaderEmits
<1> QED BY <1>5, <1>6

LEMMA AcceptAgainKeeps ==
  ASSUME Inv, AcceptAgain PROVE Inv'
<1> DEFINE c == reader.cmd
<1>1. /\ reader.pc \in {"again", "replay"} /\ Emit("reader", Accepted(c))
      /\ reader' = IF reader.pc = "again" THEN IdleReader ELSE [reader EXCEPT !.pc = "tell"]
      /\ UNCHANGED <<broken, runner, shutting, ran, bounds>>
  BY DEF AcceptAgain
<1>2. c \in mem.commands /\ c \in Commands /\ reader \in Reader /\ StartsRun(c)
  BY <1>1 DEF Inv, ReaderInv, TypeOK
<1>3. Accepted(c) \in Shown /\ ShownIn(Accepted(c), mem) /\ mem' = mem
  BY <1>1, <1>2, EmitIs, AcceptedIsShown
<1>4. CASE reader.pc = "again"
  BY <1>1, <1>3, <1>4, IdleReaderIs, IdleReaderInv, ReaderEmits
<1>5. CASE reader.pc = "replay"
  <2>1. reader' = [reader EXCEPT !.pc = "tell"] BY <1>1, <1>5
  <2>2. reader' \in Reader /\ reader'.pc = "tell" /\ reader'.cmd = c
    BY <1>2, <2>1 DEF Reader, ReaderPCs
  <2>3. ReaderInv' BY <1>2, <2>2 DEF ReaderInv, StartsRun
  <2> QED BY <1>1, <1>3, <2>2, <2>3, ReaderEmits
<1> QED BY <1>1, <1>4, <1>5

LEMMA TellAgainKeeps ==
  ASSUME Inv, TellAgain PROVE Inv'
<1> DEFINE c == reader.cmd
           ms == Its(c).inbox \cap Its(c).ckpt.delivered
<1>1. /\ reader.pc = "tell" /\ Emit("reader", Told(ms)) /\ reader' = [reader EXCEPT !.pc = "report"]
      /\ UNCHANGED <<broken, runner, shutting, ran, bounds>>
  BY DEF TellAgain
<1>2. c \in Commands /\ reader \in Reader /\ StartsRun(c)
  BY <1>1 DEF Inv, ReaderInv, TypeOK
<1>3. c.run \in Runs BY <1>2 DEF StartsRun, Command
<1>4. shown \in Shown /\ ShownIn(shown, mem) BY <1>1, EmitIs
<1>5. Its(c) \in Run BY <1>3 DEF Inv, TypeOK, State, Its
<1>6. ms \subseteq Messages BY <1>5 DEF Run
<1>7. \A m \in ms : m.run = c.run /\ m \in mem.runs[m.run].ckpt.delivered
  <2>1. RunOK(c.run, Its(c), ran[c.run]) BY <1>3 DEF Inv, JournalInv, StateOK, Its
  <2> QED BY <2>1 DEF RunOK, Its
<1> HIDE DEF ms
<1>8. /\ Told(ms) \in Shown /\ Told(ms).accepted = shown.accepted
      /\ Told(ms).ended = shown.ended /\ Told(ms).told = shown.told \cup ms
  BY <1>4, <1>6 DEF Told, Shown
<1>9. ShownIn(Told(ms), mem) BY <1>4, <1>7, <1>8 DEF ShownIn
<1>10. reader' \in Reader /\ reader'.pc = "report" /\ reader'.cmd = c
  BY <1>1, <1>2 DEF Reader, ReaderPCs
<1>11. ReaderInv' BY <1>2, <1>3, <1>10 DEF ReaderInv
<1> QED BY <1>1, <1>8, <1>9, <1>10, <1>11, ReaderEmits

LEMMA ReaderReportsKeeps ==
  ASSUME Inv, ReaderReports PROVE Inv'
<1> DEFINE r == reader.cmd.run
<1>1. /\ reader.pc = "report" /\ Emit("reader", Ended(r, mem.runs[r].outcome))
      /\ reader' = IdleReader
      /\ UNCHANGED <<broken, runner, shutting, ran, bounds>>
  BY DEF ReaderReports
<1>2. r \in Runs BY <1>1 DEF Inv, ReaderInv
<1>3. mem.runs[r].outcome \in Waits \cup Terminal \cup {"none"}
  BY <1>2 DEF Inv, TypeOK, State, Run
<1>4. Ended(r, mem.runs[r].outcome) \in Shown /\ ShownIn(Ended(r, mem.runs[r].outcome), mem)
  BY <1>1, <1>2, <1>3, EmitIs, EndedIsShown
<1> QED BY <1>1, <1>4, IdleReaderIs, IdleReaderInv, ReaderEmits

LEMMA CancelFinishKeeps ==
  ASSUME Inv, CancelFinish PROVE Inv'
<1> DEFINE r == reader.cmd.run
           s == Finished(r, "cancelled")
<1>1. /\ reader.pc = "finish" /\ Mutate("reader", s) /\ reader' = [reader EXCEPT !.pc = "report"]
      /\ UNCHANGED <<broken, runner, shutting, ran, bounds>>
  BY DEF CancelFinish
<1>2. /\ reader \in Reader /\ reader.cmd \in Commands /\ r \in Runs /\ ~Running
      /\ mem.runs[r].started /\ ~Ends(mem.runs[r])
  BY <1>1 DEF Inv, ReaderInv, TypeOK, Its
<1>3. "cancelled" \in Waits \cup Terminal /\ ~Waiting("cancelled")
  BY DEF Terminal, Waiting, Waits
<1>4. TypeOK /\ JournalInv BY DEF Inv
<1>5. s \in State /\ StateOK(s, ran) /\ Follows(s, mem)
  BY <1>2, <1>3, <1>4, FinishedKeeps
<1> HIDE DEF s
<1>6. reader' \in Reader /\ reader'.pc = "report" /\ reader'.cmd = reader.cmd
  BY <1>1, <1>2 DEF Reader, ReaderPCs
<1>7. ReaderInv' BY <1>2, <1>6 DEF ReaderInv
<1> QED BY <1>1, <1>2, <1>5, <1>6, <1>7, ReaderMutates

LEMMA ReaderStepKeeps == ASSUME Inv, ReaderStep PROVE Inv'
BY DrainedKeeps, RecordKeeps, AcceptKeeps, ExecuteKeeps, CancelKeeps, CancelFinishKeeps,
   ReaderReportsKeeps, AcceptAgainKeeps, TellAgainKeeps
   DEF ReaderStep

-----------------------------------------------------------------------------
(***************************************************************************)
(* Writes that end or fail, crashes and restarts.                          *)
(***************************************************************************)
LEMMA WriteDoneKeeps ==
  ASSUME Inv, WriteDone PROVE Inv'
<1>1. /\ writing # "none" /\ disk' = mem /\ shown' = line /\ writing' = "none"
      /\ mem' = mem /\ line' = line /\ broken' = broken /\ reader' = reader
      /\ runner' = runner /\ shutting' = shutting /\ ran' = ran /\ bounds' = bounds
  BY DEF WriteDone
<1>2. TypeOK' BY <1>1 DEF Inv, TypeOK, bounds
<1>3. JournalInv'
  <2>1. ~broken BY <1>1 DEF Inv, JournalInv
  <2>2. StateOK(mem, ran)' /\ StateOK(disk, ran)' /\ Follows(mem, disk)'
    BY <1>1, FollowsItself DEF Inv, JournalInv
  <2>3. ShownIn(shown, disk)' /\ ShownIn(line, mem)' BY <1>1 DEF Inv, JournalInv
  <2> QED BY <1>1, <2>1, <2>2, <2>3 DEF JournalInv
<1>4. Running' <=> Running BY <1>1 DEF Running
<1>5. ReaderInv' BY <1>1, <1>4 DEF Inv, ReaderInv, StartsRun, Its, AgentFree
<1>6. RunnerInv'
  BY <1>1, <1>4 DEF Inv, RunnerInv, SameButInbox, My
<1> QED BY <1>2, <1>3, <1>5, <1>6 DEF Inv

\* Both copies of the state agree with everything that was shown.
LEMMA BothCopies ==
  ASSUME Inv, NEW s \in {mem, disk}
  PROVE  s \in State /\ StateOK(s, ran) /\ ShownIn(shown, s) /\ Follows(mem, s)
<1>1. mem \in State /\ disk \in State /\ shown \in Shown /\ Follows(mem, disk) /\ ShownIn(shown, disk)
  BY DEF Inv, TypeOK, JournalInv
<1>2. ShownIn(shown, mem) BY <1>1, ShownStays
<1> QED BY <1>1, <1>2, FollowsItself DEF Inv, JournalInv

LEMMA IdleRunnerIs == IdleRunner \in Runner /\ IdleRunner.pc = "idle"
BY DEF IdleRunner, Runner, RunnerPCs, Responses, NoOp, Ops

LEMMA RestartKeeps ==
  ASSUME Inv, NEW s \in {mem, disk}, Restart(s), left' \in 0..MaxMishaps PROVE Inv'
<1>1. /\ disk' = s /\ mem' = s /\ writing' = "none" /\ line' = shown /\ broken' = FALSE
      /\ shutting' = FALSE /\ reader' = IdleReader /\ runner' = IdleRunner
      /\ shown' = shown /\ ran' = ran /\ lines' = lines
  BY DEF Restart
<1>2. s \in State /\ StateOK(s, ran) /\ ShownIn(shown, s) BY BothCopies
<1>3. TypeOK' BY <1>1, <1>2, IdleReaderIs, IdleRunnerIs DEF Inv, TypeOK
<1>4. ~Running' BY <1>1, IdleRunnerIs DEF Running
<1>5. JournalInv'
  <2>1. StateOK(mem, ran)' /\ StateOK(disk, ran)' /\ Follows(mem, disk)'
    BY <1>1, <1>2, FollowsItself
  <2>2. ShownIn(shown, disk)' /\ ShownIn(line, mem)' BY <1>1, <1>2
  <2> QED BY <1>1, <1>4, <2>1, <2>2 DEF JournalInv
<1>6. RunnerInv' BY <1>4 DEF RunnerInv
<1> QED BY <1>1, <1>3, <1>5, <1>6, IdleReaderInv DEF Inv

LEMMA MishapLeaves ==
  ASSUME Inv, NEW kind, Mishap(kind) PROVE left' \in 0..MaxMishaps
BY DEF Inv, TypeOK, Mishap

LEMMA OnDiskIs == OnDisk \subseteq {mem, disk}
BY DEF OnDisk

LEMMA WriteFailsKeeps ==
  ASSUME Inv, WriteFails PROVE Inv'
<1>1. PICK s \in {mem, disk} :
       \/ writing = "reader" /\ Restart(s)
       \/ /\ writing = "runner"
          /\ disk' = s /\ writing' = "none" /\ line' = shown
          /\ broken' = TRUE
          /\ runner' = IdleRunner
          /\ UNCHANGED <<mem, shown, reader, shutting, ran, lines>>
  BY OnDiskIs DEF WriteFails
<1>2. left' \in 0..MaxMishaps BY MishapLeaves DEF WriteFails
<1>3. CASE Restart(s) BY <1>2, <1>3, RestartKeeps
<1>4. CASE /\ writing = "runner"
           /\ disk' = s /\ writing' = "none" /\ line' = shown
           /\ broken' = TRUE
           /\ runner' = IdleRunner
           /\ UNCHANGED <<mem, shown, reader, shutting, ran, lines>>
  <2>1. /\ s \in State /\ StateOK(s, ran) /\ ShownIn(shown, s) /\ Follows(mem, s)
        /\ ShownIn(shown, mem)
    BY BothCopies
  <2>2. Running BY <1>4 DEF Inv, JournalInv
  <2>3. ~Running' BY <1>4, IdleRunnerIs DEF Running
  <2>4. TypeOK' BY <1>2, <1>4, <2>1, IdleRunnerIs DEF Inv, TypeOK
  <2>5. JournalInv'
    <3>1. StateOK(mem, ran)' /\ StateOK(disk, ran)' /\ Follows(mem, disk)'
      BY <1>4, <2>1 DEF Inv, JournalInv
    <3>2. ShownIn(shown, disk)' /\ ShownIn(line, mem)' BY <1>4, <2>1
    <3> QED BY <1>4, <2>3, <3>1, <3>2 DEF JournalInv
  <2>6. ReaderInv' BY <1>4, <2>2, ReaderStays DEF Inv
  <2>7. RunnerInv' BY <2>3 DEF RunnerInv
  <2> QED BY <2>4, <2>5, <2>6, <2>7 DEF Inv
<1> QED BY <1>1, <1>3, <1>4

LEMMA FaultsKeep == ASSUME Inv, Faults PROVE Inv'
<1>1. CASE Crash BY <1>1, OnDiskIs, MishapLeaves, RestartKeeps DEF Crash
<1>2. CASE WriteFails BY <1>2, WriteFailsKeeps
<1>3. CASE ReaderThrows BY <1>3, RestartKeeps DEF ReaderThrows, Inv, TypeOK
<1>4. CASE InputEnds BY <1>4, RestartKeeps DEF InputEnds, Inv, TypeOK
<1> QED BY <1>1, <1>2, <1>3, <1>4 DEF Faults

LEMMA StutterKeeps == ASSUME Inv, UNCHANGED vars PROVE Inv'
BY DEF vars, journal, bounds, Inv, TypeOK, JournalInv, ReaderInv, RunnerInv, Running, My, Its,
       AgentFree, StartsRun

LEMMA NextKeeps == Inv /\ [Next]_vars => Inv'
<1> SUFFICES ASSUME Inv, [Next]_vars PROVE Inv' OBVIOUS
<1>1. CASE ReadLine BY <1>1, ReadLineKeeps
<1>2. CASE ReaderStep BY <1>2, ReaderStepKeeps
<1>3. CASE WriteDone BY <1>3, WriteDoneKeeps
<1>4. CASE RunnerStep \/ ToolAnswers BY <1>4, RunnerKeeps
<1>5. CASE Faults BY <1>5, FaultsKeep
<1>6. CASE UNCHANGED vars BY <1>6, StutterKeeps
<1> QED BY <1>1, <1>2, <1>3, <1>4, <1>5, <1>6 DEF Next

LEMMA Holds == Spec => []Inv
<1> QED BY Starts, NextKeeps, PTL DEF Spec

-----------------------------------------------------------------------------
(***************************************************************************)
(* The theorems.                                                           *)
(***************************************************************************)
\* Every variable of the worker stays in its type: the reader holds a line of
\* the supervisor, the runner a turn of the loop, worker.json a whole state.
THEOREM TypeCorrect == Spec => []TypeOK
<1>1. Inv => TypeOK BY DEF Inv
<1> QED BY <1>1, Holds, PTL

\* What stdout has shown is on disk: acknowledged commands, messages of the
\* conversation and outcomes survive a crash at any point, a write that failed
\* and a new process (the chain of mutate and emit).
THEOREM ShownStaysDurable == Spec => []ShownIsDurable
<1>1. Inv => ShownIsDurable
  BY DEF Inv, JournalInv, ShownIn, ShownIsDurable
<1> QED BY <1>1, Holds, PTL

\* An agent never has two unfinished runs, in memory or on disk, and
\* activeRunId names the one it has, whatever handleLine is sent.
THEOREM AtMostOneUnfinished == Spec => []OneUnfinishedRun
<1>1. Inv => OneUnfinishedRun
  <2> SUFFICES ASSUME Inv, NEW state \in {mem, disk}, NEW r \in Unfinished(state)
               PROVE  state.active = r
    BY DEF OneUnfinishedRun
  <2>1. StateOK(state, ran) BY DEF Inv, JournalInv
  <2> QED BY <2>1 DEF StateOK, Unfinished
<1> QED BY <1>1, Holds, PTL

\* A tool that counts is executed at most once in a turn of a run, however the
\* worker is stopped and restarted around record, and a result the checkpoint
\* calls completed is that of an execution or of a loss that was reported.
THEOREM ToolsExecuteOnce == Spec => []ToolsRunOnce
<1>1. Inv => ToolsRunOnce
  <2> SUFFICES ASSUME Inv PROVE ToolsRunOnce OBVIOUS
  <2>1. \A r \in Runs : ToolsAgree(disk.runs[r], ran[r])
    BY DEF Inv, JournalInv, StateOK, RunOK
  <2>2. \A r \in Runs, t \in Turns : ran[r][t] <= 1 BY <2>1 DEF ToolsAgree
  <2>3. ASSUME NEW r \in Runs, disk.runs[r].ckpt.completed,
               disk.runs[r].ckpt.response \in {"run_shell", "call_paid_service"}
        PROVE  LET t == disk.runs[r].ckpt.turn IN
               ran[r][t] = 1 \/ disk.runs[r].tools[t] = "lost"
    <3> DEFINE t == disk.runs[r].ckpt.turn
    <3>1. t \in 0..MaxTurns BY DEF Inv, TypeOK, State, Run, Ckpt
    <3>2. t # MaxTurns BY <2>1, <2>3 DEF ToolsAgree
    <3>3. t \in Turns BY <3>1, <3>2 DEF Turns
    <3> QED BY <2>1, <2>3, <3>3 DEF ToolsAgree, Counts
  <2> QED BY <2>2, <2>3 DEF ToolsRunOnce
<1> QED BY <1>1, Holds, PTL

\* A paused run can only go on with the operation it waits for: checkpoint and
\* tool record on disk lead the resumed loop to pendingOperationId.
THEOREM PausesLeadBack == Spec => []PauseLeadsBack
<1>1. Inv => PauseLeadsBack
  <2> SUFFICES ASSUME Inv, NEW r \in Runs, Waiting(disk.runs[r].outcome)
               PROVE  LET run == disk.runs[r] IN
                      /\ run.ckpt.saved /\ run.ckpt.turn = run.pending.turn
                      /\ ~run.ckpt.completed
                      /\ CASE run.pending.kind = "model" -> run.ckpt.response = "unasked"
                           [] run.pending.kind = "paid"  ->
                                /\ run.ckpt.response = "call_paid_service"
                                /\ run.tools[run.ckpt.turn] = "approval"
                           [] OTHER -> FALSE
    BY DEF PauseLeadsBack
  <2>1. LeadsTo(disk.runs[r], disk.runs[r].pending)
    BY DEF Inv, JournalInv, StateOK, RunOK
  <2> QED BY <2>1 DEF LeadsTo
<1> QED BY <1>1, Holds, PTL

\* The file is replaced by what memory holds or by nothing.
LEMMA DiskFollows == ASSUME Inv, [Next]_vars PROVE Follows(disk', disk)
<1>1. disk' \in {mem, disk}
  <2>1. CASE Crash \/ WriteFails BY <2>1, OnDiskIs DEF Crash, WriteFails, Restart
  <2>2. CASE ReaderThrows \/ InputEnds BY <2>2 DEF ReaderThrows, InputEnds, Restart
  <2>3. CASE WriteDone BY <2>3 DEF WriteDone
  <2>4. CASE UNCHANGED vars BY <2>4 DEF vars, journal
  <2>5. CASE ReadLine
    BY <2>5 DEF ReadLine, ReadShutdown, ReadCancel, ReadMessage, ReadDuplicate, ReadFinished,
       ReadRun, Handle, Read, journal
  <2>6. CASE ReaderStep
    BY <2>6 DEF ReaderStep, Drained, Record, Accept, Execute, Cancel, CancelFinish, ReaderReports,
       AcceptAgain, TellAgain, ReaderActs, Mutate, Emit, journal
  <2>7. CASE LoopStep
    BY <2>7 DEF LoopStep, Begin, Aborted, OutOfTurns, InjectBefore, InjectAfter, Inject, Deliver,
       Tell, Freeze, ModelAnswers, ModelPauses, ModelEnds, Replay, Save, Settle, Complete, Nudge,
       SaveCkpt, Mutate, Emit, Quietly, journal
  <2>8. CASE ToolStep \/ ToolAnswers
    BY <2>8 DEF ToolStep, ToolAnswers, ToolCompleted, ToolReplayed, ShellLost, PaidCallLost,
       ToolBegins, ToolExecutes, ToolDeadline, KeepApproval, KeepResult, ToolReturns, ToolPauses,
       ToolThrows, Keep, Mutate, Quietly, journal
  <2>9. CASE EndStep
    BY <2>9 DEF EndStep, Catch, KeepOperation, Finish, Report, Done, Mutate, Emit, Quietly, journal
  <2> QED BY <2>1, <2>2, <2>3, <2>4, <2>5, <2>6, <2>7, <2>8, <2>9 DEF Next, RunnerStep, Faults
<1> QED BY <1>1, FollowsItself DEF Inv, JournalInv

\* A run that has ended stays ended as it did, on disk, through repeated starts,
\* late resumes, cancels and crashes.
THEOREM EndedRunsStayEnded == Spec => EndedStaysEnded
<1>1. Inv /\ [Next]_vars =>
        [\A r \in Runs : Ends(disk.runs[r]) =>
           disk'.runs[r].outcome = disk.runs[r].outcome]_vars
  <2> SUFFICES ASSUME Inv, [Next]_vars, NEW r \in Runs, Ends(disk.runs[r])
               PROVE  disk'.runs[r].outcome = disk.runs[r].outcome
    OBVIOUS
  <2> QED BY DiskFollows DEF Follows
<1> QED BY <1>1, Holds, PTL DEF Spec, EndedStaysEnded
===============================================================================
