-------------------------------- MODULE Shell --------------------------------
(***************************************************************************)
(* A shell command (packages/core/src/shell.ts, tools.ts): a group of      *)
(* processes, three timers, the events of the child, and the one promise   *)
(* they race to settle.                                                    *)
(*                                                                         *)
(* The group is the shell and what it leaves in the background, which may  *)
(* hold the pipes or not.  A process may be deaf to SIGTERM; one that      *)
(* leaves the group is not looked at.  How long a timer takes is left out: *)
(* an armed timer goes off at some time.                                   *)
(***************************************************************************)
EXTENDS Naturals, FiniteSets

CONSTANTS
  MaxTimeout,   \* maxShellTimeoutMs
  Timeouts,     \* what the model asks for
  Chunks        \* bound: pieces of output

ASSUME ShellAssumption == MaxTimeout \in Nat \ {0} /\ Timeouts \subseteq Nat /\ Chunks \in Nat

VARIABLES
  cmd,      \* the call: where it is, its timeout, whether its run is cancelled
  group,    \* the living processes
  deaf,     \* those that ignore SIGTERM
  mute,     \* those that hold neither pipe
  timers,   \* those that are armed
  exited,   \* whether the exit event came, and the code it gave
  timedOut,
  result,   \* what the promise was settled with
  piped,    \* output written and read
  noted     \* the ledger entry of the command
shellVars == <<cmd, group, deaf, mute, timers, exited, timedOut, result, piped, noted>>

Processes == {"shell", "background"}
\* An exit code; Null for a process that a signal ended.
Null  == 98
NotYet == 99
Codes == {0, 1, Null}
NoResult == [by |-> "nothing", code |-> Null, timedOut |-> FALSE, read |-> 0]

ShellInit ==
  /\ cmd = [at |-> "new", timeout |-> 0, aborted |-> FALSE]
  /\ group = {} /\ deaf \in SUBSET Processes /\ mute \in {{}, {"background"}} /\ timers = {} /\ exited = NotYet
  /\ timedOut = FALSE /\ result = NoResult /\ piped = [wrote |-> 0, read |-> 0] /\ noted = FALSE

\* shellTimeoutMs: too short and too long are brought within bounds.
Clamped(t) == IF t > MaxTimeout THEN MaxTimeout ELSE IF t < 1 THEN 1 ELSE t
Is(p) == cmd.at = p
Settled == result # NoResult

\* settle: the timers are cleared, the group is told to go.
SettleCommand(by, code, left) ==
  /\ ~Settled /\ timers' = {}
  /\ result' = [by |-> by, code |-> code, timedOut |-> timedOut, read |-> piped.read]
  /\ group' = left \cap deaf /\ cmd' = [cmd EXCEPT !.at = "settled"]

-----------------------------------------------------------------------------
\* The shell is off, the call is cancelled, the timeout is not one, or the directory is
\* outside the workspace: the command does not run.
RefuseCommand ==
  /\ Is("new") /\ cmd' = [cmd EXCEPT !.at = "refused"]
  /\ UNCHANGED <<group, deaf, mute, timers, exited, timedOut, result, piped, noted>>
Spawn ==
  /\ Is("new") /\ ~cmd.aborted
  /\ \E t \in Timeouts :
       cmd' = [cmd EXCEPT !.at = "running", !.timeout = Clamped(t)]
  /\ group' \in {{"shell"}, Processes} /\ timers' = {"timeout"}
  /\ UNCHANGED <<deaf, mute, exited, timedOut, result, piped, noted>>
SpawnFails ==
  /\ Is("running") /\ exited = NotYet /\ piped.wrote = 0 /\ group = {"shell"}
  /\ SettleCommand("error", Null, {})
  /\ UNCHANGED <<deaf, mute, exited, timedOut, piped, noted>>

\* The command writes, ends; its output is read.
Write ==
  /\ group \ mute # {} /\ ~Settled /\ piped.wrote < Chunks /\ piped' = [piped EXCEPT !.wrote = @ + 1]
  /\ UNCHANGED <<cmd, group, deaf, mute, timers, exited, timedOut, result, noted>>
Data ==
  /\ ~Settled /\ piped.read < piped.wrote /\ piped' = [piped EXCEPT !.read = @ + 1]
  /\ UNCHANGED <<cmd, group, deaf, mute, timers, exited, timedOut, result, noted>>
ProcessEnds(p) ==
  /\ p \in group /\ group' = group \ {p}
  /\ UNCHANGED <<cmd, deaf, mute, timers, exited, timedOut, result, piped, noted>>

Exit ==
  /\ Is("running") /\ exited = NotYet /\ "shell" \notin group
  /\ exited' \in Codes    \* Null: a signal ended it, the timeout's or anybody's
  /\ timers' = timers \cup {"grace"}
  /\ UNCHANGED <<cmd, group, deaf, mute, timedOut, result, piped, noted>>
CloseEvent ==
  /\ Is("running") /\ exited # NotYet /\ group \subseteq mute /\ piped.read = piped.wrote
  /\ SettleCommand("close", exited, group)
  /\ UNCHANGED <<deaf, mute, exited, timedOut, piped, noted>>
Grace ==
  /\ "grace" \in timers /\ SettleCommand("grace", exited, group)
  /\ UNCHANGED <<deaf, mute, exited, timedOut, piped, noted>>

Times == timedOut' = TRUE /\ group' = group \cap deaf
TimesOutKindly ==
  /\ "timeout" \in timers /\ Times /\ timers' = timers \ {"timeout"}
  /\ UNCHANGED <<cmd, deaf, mute, exited, result, piped, noted>>
TimesOut ==
  /\ "timeout" \in timers /\ Times /\ timers' = (timers \ {"timeout"}) \cup {"kill"}
  /\ UNCHANGED <<cmd, deaf, mute, exited, result, piped, noted>>
Kill ==
  /\ "kill" \in timers
  /\ SettleCommand("kill", IF exited = NotYet THEN Null ELSE exited, {})
  /\ UNCHANGED <<deaf, mute, exited, timedOut, piped, noted>>

\* The run is cancelled: before the command, or while it runs.
Abort ==
  /\ ~cmd.aborted /\ cmd.at \in {"new", "running"}
  /\ IF Is("running")
       THEN /\ ~Settled /\ timers' = {} /\ group' = {}
            /\ result' = [by |-> "abort", code |-> Null, timedOut |-> FALSE, read |-> piped.read]
            /\ cmd' = [cmd EXCEPT !.at = "settled", !.aborted = TRUE]
       ELSE cmd' = [cmd EXCEPT !.aborted = TRUE] /\ UNCHANGED <<timers, group, result>>
  /\ UNCHANGED <<deaf, mute, exited, timedOut, piped, noted>>

\* The entry of the ledger, whatever the command came to; its write may fail.
Note ==
  /\ Is("settled") /\ cmd' = [cmd EXCEPT !.at = "done"] /\ noted' \in BOOLEAN
  /\ UNCHANGED <<group, deaf, mute, timers, exited, timedOut, result, piped>>

ShellNext ==
  \/ RefuseCommand \/ Spawn \/ SpawnFails \/ Write \/ Data \/ Exit \/ CloseEvent \/ Grace
  \/ TimesOut \/ Kill \/ Abort \/ Note
  \/ \E p \in Processes : ProcessEnds(p)

-----------------------------------------------------------------------------
\* Whatever the command does - never end, keep the pipes open in the background,
\* ignore signals - a timer is armed that settles the call, or leads to one that does.
NeverHangs == Is("running") => timers # {}

\* What outlives its call is deaf to SIGTERM, and then only where the call was settled
\* before SIGKILL: when the pipes closed, or 250 ms after the shell's own exit.
OnlyTheDeafStay ==
  cmd.at \in {"settled", "done"} => group \subseteq deaf /\ (group # {} => result.by \in {"grace", "close"})

=============================================================================
