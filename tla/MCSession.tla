------------------------------ MODULE MCSession ------------------------------
(***************************************************************************)
(* What is said and done in a session: machines that share nothing,        *)
(* checked in one run.  A chat that is compacted, its journal, an answer   *)
(* that arrives in pieces, a shell command, a fan-out of subagents; and    *)
(* the evolution of the knowledge they are given.  A behaviour is one of   *)
(* them; the others stay as they begin.                                    *)
(***************************************************************************)
EXTENDS Compaction, Journal, Stream, Shell, Evolve, Subagents

VARIABLE topic

\* A task fails, succeeds for nothing, succeeds for 60 cents.
Row(score, cost, error) == [score |-> score, cost |-> cost, error |-> error]
MCRows == {Row(0, 0, TRUE), Row(1, 0, FALSE), Row(1, 60, FALSE)}

\* A subagent while a paid call is made, or two and a paid call after them.
CONSTANTS k1, k2
MCReplies == 0 :> {<<PaidService, k1>>, <<k1, k2, PaidService>>}

-----------------------------------------------------------------------------
ChatAtRest   == /\ said = <<>> /\ chat = [held |-> {}, filed |-> {}] /\ pointer = NoReference
                /\ archives = {} /\ files = {} /\ turn = "none" /\ retry = 0
StreamAtRest == StreamInit /\ reply = [text |-> 0, calls |-> 0,
                  style |-> [names |-> "once", ids |-> "never", together |-> FALSE]]
ShellAtRest  == ShellInit /\ deaf = {} /\ mute = {}

Init ==
  /\ EvolveInit /\ JournalInit /\ FanInit
  /\ \/ topic \in {"journal", "evolve", "fan"} /\ ChatAtRest /\ StreamAtRest /\ ShellAtRest
     \/ topic = "chat" /\ ChatInit /\ StreamAtRest /\ ShellAtRest
     \/ topic = "stream" /\ StreamInit /\ ChatAtRest /\ ShellAtRest
     \/ topic = "shell" /\ ShellInit /\ ChatAtRest /\ StreamAtRest

OfChat    == topic = "chat" /\ ChatNext
             /\ UNCHANGED <<topic, journalVars, streamVars, shellVars, evolveVars, fanVars>>
OfJournal == topic = "journal" /\ JournalNext
             /\ UNCHANGED <<topic, chatVars, streamVars, shellVars, evolveVars, fanVars>>
OfStream  == topic = "stream" /\ StreamNext
             /\ UNCHANGED <<topic, chatVars, journalVars, shellVars, evolveVars, fanVars>>
OfShell   == topic = "shell" /\ ShellNext
             /\ UNCHANGED <<topic, chatVars, journalVars, streamVars, evolveVars, fanVars>>
OfEvolve  == topic = "evolve" /\ EvolveNext
             /\ UNCHANGED <<topic, chatVars, journalVars, streamVars, shellVars, fanVars>>
OfFan     == topic = "fan" /\ FanNext
             /\ UNCHANGED <<topic, chatVars, journalVars, streamVars, shellVars, evolveVars>>
Next == OfChat \/ OfJournal \/ OfStream \/ OfShell \/ OfEvolve \/ OfFan
Spec == Init /\ [][Next]_<<topic, chatVars, journalVars, streamVars, shellVars, evolveVars, fanVars>>
=============================================================================
