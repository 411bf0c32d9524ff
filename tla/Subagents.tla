------------------------------ MODULE Subagents ------------------------------
(***************************************************************************)
(* The fan-out of subagents of agent-runtime/src/index.ts.                 *)
(*                                                                         *)
(* A reply of the main model names tool calls.  Every spawn_subagent in it *)
(* is launched at once behind a limiter (createLimiter); the calls are     *)
(* then answered one by one, a spawn by awaiting its subagent.  A subagent *)
(* (runSubagentTask) works in turns of its own and saves them in a         *)
(* checkpoint under the identity of the call, so that a run that pauses -  *)
(* for an approval, a cancel, a crash - and is resumed goes on with it.    *)
(*                                                                         *)
(* Abstracted: a run has a query, so nothing is spawned in the background; *)
(* one tool for each turn of a subagent; the messages; what the main model *)
(* does between two fan-outs; the checkpoint of the main loop is written   *)
(* together with the step it records (Purchases models the gap).           *)
(***************************************************************************)
EXTENDS Naturals, Sequences, FiniteSets, SequencesExt, FiniteSetsExt

CONSTANTS
  Kids,        \* the spawn calls, by their identity
  MaxTurns,    \* bound: turns of the main loop that matter here
  Replies,     \* Replies[t]: what the main model may answer in turn t
  MaxParallel, \* subagent.maxParallel
  ChildTurns,  \* subagent.maxTurns
  MaxRuns,     \* bound: how often the query is run, resumes included
  MaxCrashes   \* bound: how often the process dies

Turns == 0..(MaxTurns - 1)
PaidService   == "call_paid_service"
Asks == Kids \cup {PaidService}
\* The subagents that a turn may spawn.
Named(t) == {k \in Kids : t \in Turns /\ \E reply \in Replies[t] : Contains(reply, k)}

\* The identity of a spawn is made of the run, the turn and the id of the call: no two
\* turns have one in common, and no reply has one twice.
ASSUME SubagentsAssumption ==
  /\ PaidService \notin Kids /\ IsFiniteSet(Kids)
  /\ MaxTurns \in Nat \ {0} /\ DOMAIN Replies = Turns
  /\ \A t \in Turns : \A r \in Replies[t] : r \in Seq(Asks) /\ IsInjective(r)
  /\ \A t, u \in Turns : t # u => Named(t) \cap Named(u) = {}
  /\ MaxParallel \in Nat \ {0} /\ ChildTurns \in Nat \ {0}
  /\ MaxRuns \in Nat \ {0} /\ MaxCrashes \in Nat

VARIABLES
  parent,    \* the main loop; its turn, reply and answered are its checkpoint
  run,       \* which run of the query this is
  aborted,   \* the runs whose signal is aborted
  limiter,   \* the limiter of each run
  child,     \* the subagents of each run
  saved,     \* the checkpoints of the subagents
  ran,       \* history: how often the tool of a subagent's turn was executed
  orphaned,  \* history: calls whose subagent was left running
  crashes    \* times the process has died

fanVars == <<parent, run, aborted, limiter, child, saved, ran, orphaned, crashes>>

Runs      == 1..MaxRuns
ToolTurns == 0..(ChildTurns - 1)
Results   == {"none", "completed", "stopped", "max_turns", "error", "thrown"}
ChildPCs  == {"new", "waiting", "load", "ask", "tool", "ran", "done"}
Child  == [pc : ChildPCs, turn : 0..ChildTurns, nudged : BOOLEAN, result : Results]
\* tool: the response of the turn, which names one, is saved, and so is its result.
Saved  == [turn : 0..ChildTurns, tool : {"none", "named", "completed"},
           nudged : BOOLEAN, result : Results]
ParentPCs == {"think", "launch", "calls", "joining", "paused", "done"}
Parent == [pc : ParentPCs, turn : 0..MaxTurns, reply : Seq(Asks),
           answered : [Asks -> Results]]

NewChild == [pc |-> "new", turn |-> 0, nudged |-> FALSE, result |-> "none"]
NoSave   == [turn |-> 0, tool |-> "none", nudged |-> FALSE, result |-> "none"]
Unanswered == [call \in Asks |-> "none"]

\* Where the spawns stand in a reply, and the ways to go through them in order: one.
Spawns(reply)  == {i \in DOMAIN reply : reply[i] # PaidService}
OneByOne(reply) == {at \in [1..Cardinality(Spawns(reply)) -> Spawns(reply)] :
                     \A m, n \in DOMAIN at : m < n => at[m] < at[n]}
Live(r, k)    == child[r][k].pc \notin {"new", "done"}
Running(r, k) == Live(r, k) /\ child[r][k].pc # "waiting"

FanInit ==
  /\ parent = [pc |-> "think", turn |-> 0, reply |-> <<>>, answered |-> Unanswered]
  /\ run = 1 /\ aborted = {} /\ crashes = 0
  /\ limiter = [r \in Runs |-> [active |-> 0, queue |-> <<>>]]
  /\ child = [r \in Runs |-> [k \in Kids |-> NewChild]]
  /\ saved = [k \in Kids |-> NoSave]
  /\ ran = [k \in Kids |-> [t \in ToolTurns |-> 0]]
  /\ orphaned = {}

-----------------------------------------------------------------------------
(***************************************************************************)
(* The subagent of call k in run r.                                        *)
(***************************************************************************)
It(r, k)        == child[r][k]
Become(r, k, new) == child' = [child EXCEPT ![r][k] = new]

\* The task returns or throws, and next lets the one that has waited longest go on: it
\* does so before anything is launched, which follows a file access or a model call.
SettleChild(r, k, result) ==
  LET queue == limiter[r].queue
      after == [child[r] EXCEPT ![k] = [NewChild EXCEPT !.pc = "done", !.result = result]]
  IN  IF queue = <<>>
        THEN /\ limiter' = [limiter EXCEPT ![r].active = @ - 1]
             /\ child' = [child EXCEPT ![r] = after]
        ELSE /\ limiter' = [limiter EXCEPT ![r].queue = Tail(@)]
             /\ child' = [child EXCEPT ![r] = [after EXCEPT ![Head(queue)].pc = "load"]]

SaveIt(k, it, tool, result) ==
  saved' = [saved EXCEPT ![k] = [turn |-> it.turn, tool |-> tool, nudged |-> it.nudged,
                                 result |-> result]]

\* The result is saved with the last thing the subagent does.
FinishChild(r, k, result) ==
  SaveIt(k, It(r, k), "none", result) /\ SettleChild(r, k, result)

NextChildTurn(it) == [it EXCEPT !.pc = "ask", !.turn = @ + 1]

\* A saved result is the answer at once; otherwise the subagent goes on where it
\* stood: a saved response is not asked for again, a completed tool is skipped.
LoadChild(r, k) ==
  LET from == saved[k]
      it   == [pc |-> "ask", turn |-> from.turn, nudged |-> from.nudged, result |-> "none"]
  IN  /\ It(r, k).pc = "load"
      /\ \/ from.result # "none" /\ SettleChild(r, k, from.result)
         \/ /\ from.result = "none"
            /\ Become(r, k, CASE from.tool = "named"     -> [it EXCEPT !.pc = "tool"]
                              [] from.tool = "completed" -> NextChildTurn(it)
                              [] from.tool = "none"      -> it)
            /\ UNCHANGED limiter
      /\ UNCHANGED <<saved, ran>>

\* One turn: a cancelled run is an error of the subagent, which saves no result, and so
\* is a failed model call; a payment above the limits is thrown to the main loop; an
\* exhausted budget stops the subagent.  A response is saved before it is acted on;
\* one that was cut at the output limit is continued once.
AskChild(r, k) ==
  LET it == It(r, k)
  IN  /\ it.pc = "ask"
      /\ \/ it.turn = ChildTurns /\ FinishChild(r, k, "max_turns")
         \/ /\ it.turn < ChildTurns /\ r \in aborted
            /\ SettleChild(r, k, "error") /\ UNCHANGED saved
         \/ /\ it.turn < ChildTurns /\ r \notin aborted
            /\ \/ \E result \in {"completed", "stopped"} : FinishChild(r, k, result)
               \/ /\ \E result \in {"thrown", "error"} : SettleChild(r, k, result)
                  /\ SaveIt(k, it, "none", "none")
               \/ /\ Become(r, k, [it EXCEPT !.pc = "tool"])
                  /\ SaveIt(k, it, "named", "none")
                  /\ UNCHANGED limiter
               \/ LET cut == [NextChildTurn(it) EXCEPT !.nudged = TRUE]
                  IN  /\ ~it.nudged
                      /\ Become(r, k, cut) /\ SaveIt(k, cut, "none", "none")
                      /\ UNCHANGED limiter
      /\ UNCHANGED ran

Execute(r, k) ==
  /\ It(r, k).pc = "tool"
  /\ ran' = [ran EXCEPT ![k][It(r, k).turn] = @ + 1]
  /\ Become(r, k, [It(r, k) EXCEPT !.pc = "ran"])
  /\ UNCHANGED <<limiter, saved>>

\* The tool is saved as completed; the same failure for the second time ends it.
ToolDone(r, k) ==
  LET it == It(r, k)
  IN  /\ it.pc = "ran"
      /\ \/ /\ Become(r, k, NextChildTurn(it))
            /\ SaveIt(k, it, "completed", "none")
            /\ UNCHANGED limiter
         \/ it.turn > 0 /\ FinishChild(r, k, "stopped")
      /\ UNCHANGED ran

ChildStep(r, k) ==
  /\ LoadChild(r, k) \/ AskChild(r, k) \/ Execute(r, k) \/ ToolDone(r, k)
  /\ UNCHANGED <<parent, run, aborted, orphaned, crashes>>

-----------------------------------------------------------------------------
(***************************************************************************)
(* The main loop.                                                          *)
(***************************************************************************)
StillRunning == {k \in Kids : \E r \in Runs : Live(r, k)}
Unsettled(reply) == {k \in Kids : Contains(reply, k) /\ Live(run, k)}
Pending == {i \in DOMAIN parent.reply : parent.answered[parent.reply[i]] = "none"}

\* The run ends with an error or a pause; what it had launched goes on.
Throw ==
  /\ parent' = [parent EXCEPT !.pc = "paused"]
  /\ orphaned' = orphaned \cup StillRunning

Think ==
  /\ parent.pc = "think"
  /\ \/ /\ run \notin aborted
        /\ \E reply \in Replies[parent.turn] :
             parent' = [parent EXCEPT !.pc = "launch", !.reply = reply, !.answered = Unanswered]
        /\ UNCHANGED orphaned
     \/ run \in aborted /\ Throw
  /\ UNCHANGED <<run, aborted, limiter, child, saved, ran, crashes>>

\* How many of n new tasks the limiter starts.
StartsAll(r, n) == n
Admits(r, n) ==
  LET free == IF limiter[r].active < MaxParallel THEN MaxParallel - limiter[r].active ELSE 0
  IN  IF free < n THEN free ELSE n

\* Every spawn of the reply enters the limiter, those with a result included.
Launch ==
  LET reply == parent.reply
      begin == Admits(run, Cardinality(Spawns(reply)))
  IN  /\ parent.pc = "launch"
      /\ parent' = [parent EXCEPT !.pc = "calls"]
      /\ \E at \in OneByOne(reply) :
           LET waits   == [n \in 1..(Len(at) - begin) |-> reply[at[begin + n]]]
               started == {reply[at[n]] : n \in 1..begin}
           IN  /\ limiter' = [limiter EXCEPT ![run] = [active |-> @.active + begin,
                                                      queue  |-> @.queue \o waits]]
               /\ child' = [child EXCEPT ![run] = [k \in Kids |->
                    IF ~Contains(reply, k) THEN @[k]
                    ELSE [NewChild EXCEPT !.pc = IF k \in started THEN "load" ELSE "waiting"]]]
      /\ UNCHANGED <<run, aborted, saved, ran, orphaned, crashes>>

\* The next call without a result: a cancelled run throws first.
AnswerCall ==
  /\ parent.pc = "calls" /\ Pending # {}
  /\ LET call == parent.reply[Min(Pending)]
         result == IF call = PaidService THEN "completed" ELSE child[run][call].result
     IN  \/ run \in aborted /\ Throw
         \/ /\ run \notin aborted
            /\ call # PaidService => child[run][call].pc = "done"
            /\ result # "thrown"
            /\ parent' = [parent EXCEPT !.answered[call] = result]
            /\ UNCHANGED orphaned
         \/ run \notin aborted /\ call = PaidService /\ Throw
         \/ /\ run \notin aborted /\ call # PaidService
            /\ child[run][call].pc = "done" /\ result = "thrown"
            /\ parent' = [parent EXCEPT !.pc = "joining"]
            /\ UNCHANGED orphaned
  /\ UNCHANGED <<run, aborted, limiter, child, saved, ran, crashes>>

\* Promise.allSettled: the rest of the fan-out ends before the run does.
JoinsNobody ==
  /\ parent.pc = "joining"
  /\ parent' = [parent EXCEPT !.pc = "paused"]
  /\ UNCHANGED <<run, aborted, limiter, child, saved, ran, orphaned, crashes>>
Joined ==
  /\ parent.pc = "joining" /\ Unsettled(parent.reply) = {}
  /\ parent' = [parent EXCEPT !.pc = "paused"]
  /\ UNCHANGED <<run, aborted, limiter, child, saved, ran, orphaned, crashes>>

NextMainTurn ==
  /\ parent.pc = "calls" /\ Pending = {}
  /\ parent' = [pc |-> IF parent.turn + 1 = MaxTurns THEN "done" ELSE "think",
                turn |-> parent.turn + 1, reply |-> <<>>, answered |-> Unanswered]
  /\ UNCHANGED <<run, aborted, limiter, child, saved, ran, orphaned, crashes>>

\* opencrowd resume: from the checkpoint, in this process or in a new one.
Resume ==
  /\ parent.pc = "paused" /\ run < MaxRuns
  /\ run' = run + 1
  /\ parent' = [parent EXCEPT !.pc = IF parent.reply = <<>> THEN "think" ELSE "launch"]
  /\ UNCHANGED <<aborted, limiter, child, saved, ran, orphaned, crashes>>

Cancel ==
  /\ parent.pc \in {"think", "launch", "calls", "joining"} /\ run \notin aborted
  /\ aborted' = aborted \cup {run}
  /\ UNCHANGED <<parent, run, limiter, child, saved, ran, orphaned, crashes>>

Crash ==
  /\ crashes < MaxCrashes /\ parent.pc # "done"
  /\ crashes' = crashes + 1
  /\ parent' = [parent EXCEPT !.pc = "paused"]
  /\ child' = [r \in Runs |-> [k \in Kids |-> NewChild]]
  /\ limiter' = [r \in Runs |-> [active |-> 0, queue |-> <<>>]]
  /\ UNCHANGED <<run, aborted, saved, ran, orphaned>>

ParentStep == Think \/ Launch \/ AnswerCall \/ Joined \/ NextMainTurn
FanNext == \/ ParentStep \/ Resume \/ Cancel \/ Crash
        \/ \E r \in Runs, k \in Kids : ChildStep(r, k)

-----------------------------------------------------------------------------
(***************************************************************************)
(* Properties.                                                             *)
(***************************************************************************)
FanTypeOK ==
  /\ parent \in Parent /\ run \in Runs /\ aborted \subseteq Runs
  /\ limiter \in [Runs -> [active : 0..Cardinality(Kids), queue : Seq(Kids)]]
  /\ child \in [Runs -> [Kids -> Child]]
  /\ saved \in [Kids -> Saved]
  /\ ran \in [Kids -> [ToolTurns -> 0..(MaxRuns * MaxRuns)]]
  /\ orphaned \subseteq Kids /\ crashes \in 0..MaxCrashes

\* docs/architecture.md:119-121: "query runs join each fan-out at its turn boundary so
\* approval/restart cannot orphan background work".
FanOutIsJoined == parent.pc \in {"think", "paused", "done"} => StillRunning = {}

\* A resumed run never has a second instance of a subagent beside the first, unless
\* the first was left behind.
OneInstance ==
  \A k \in Kids \ orphaned : Cardinality({r \in Runs : Live(r, k)}) <= 1

\* Pauses, cancels and resumes do not execute a subagent's tool again; a crash
\* between the tool and its checkpoint may, once for each crash.
ToolsRunOnce ==
  \A k \in Kids \ orphaned : \A t \in ToolTurns : ran[k][t] <= 1 + crashes

\* The limiter never lets more than MaxParallel subagents of a run work at once.
LimiterBound ==
  \A r \in Runs : Cardinality({k \in Kids : Running(r, k)}) <= MaxParallel
=============================================================================
