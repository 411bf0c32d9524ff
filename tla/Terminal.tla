------------------------------- MODULE Terminal -------------------------------
(***************************************************************************)
(* The interactive terminal (apps/cli/src/tui/app.tsx, registry.ts) and    *)
(* the queue of messages it keeps for a task under way (inbox.ts).         *)
(*                                                                         *)
(* Everything here happens in callbacks of one process: keys, rendering,   *)
(* the effects a rendering fires, and the promises of the task.  State     *)
(* kept in a React state is seen by the next rendering only; state kept in *)
(* a ref at once.  The difference is modelled for `busy', which follows    *)
(* the ref `running' one rendering later.  What a task does between two    *)
(* turns is cut down to what the terminal sees of it: it takes messages,   *)
(* asks the user, buys, and ends well or with an error.  What it does      *)
(* after the terminal is left is not looked at.                            *)
(***************************************************************************)
EXTENDS Naturals

CONSTANTS
  Messages,     \* what the user may queue while a task is under way
  Askers,       \* the loops of one task that may ask the user something
  MaxSessions   \* bound: sessions opened by /new, the first one included

ASSUME TerminalAssumption == MaxSessions \in Nat \ {0}

Sessions == 1..MaxSessions
Slots    == 1..2
Screens  == {"none", "wallet"} \cup Askers
ASSUME TerminalNames == Askers \cap {"none", "wallet"} = {}

VARIABLES
  session,    \* the session on the screen
  opening,    \* /new is creating the next one
  modal,      \* the one modal: the wallet, or what an asker wants to know
  saving,     \* the wallet's limits are being written
  asks,       \* the askers whose promise is not resolved
  wizard,     \* the funding panel
  running,    \* runningRef
  busy,       \* busy, as last rendered
  paused,     \* inboxPausedRef
  look,       \* whether the follow-up effect is reading the inbox
  task,       \* the runs started by this terminal
  unfinished, \* query-checkpoint.json of each session
  inbox,      \* inbox.json of each session
  pushing,    \* messages being written into it
  due,        \* whether a paid purchase of the session's query lacks its review
  forceQuit,  \* forceQuitRef
  checking,   \* sessions whose reviews a finalize is reading
  exiting,
  typed,      \* history: messages the user has queued
  got,        \* history: messages a task has taken
  told,       \* history: which missing review the user read of in this session
  unread      \* history: the purchases could not be read when the user left

vars == <<session, opening, modal, saving, asks, wizard, running, busy, paused, look,
          task, unfinished, inbox, pushing, due, forceQuit, checking, exiting,
          typed, got, told, unread>>
screen  == <<modal, saving, asks, wizard>>
runs    == <<running, paused, task, unfinished>>
mail    == <<inbox, pushing, typed, got>>
exits   == <<forceQuit, checking, exiting, unread>>
leaving == <<exits, told>>

\* Told of nothing, of the review that is due, of one that is not due any more, or
\* only of one that a session left by /new owes.
Tidings == {"nothing", "this", "earlier", "other"}

NoTask == [pc |-> "none", on |-> 1, prompt |-> FALSE]
Task   == [pc : {"none", "admit", "turn", "model"}, on : Sessions, prompt : BOOLEAN]

Init ==
  /\ session = 1 /\ opening = FALSE
  /\ modal = "none" /\ saving = FALSE /\ asks = {} /\ wizard = "unknown"
  /\ running = FALSE /\ busy = FALSE /\ paused = FALSE /\ look = FALSE
  /\ task = [t \in Slots |-> NoTask] /\ unfinished = [s \in Sessions |-> FALSE]
  /\ inbox = [s \in Sessions |-> {}] /\ pushing = {}
  /\ due = [s \in Sessions |-> FALSE]
  /\ forceQuit = FALSE /\ checking = {} /\ exiting = FALSE
  /\ typed = {} /\ got = {}
  /\ told = "nothing" /\ unread = FALSE

NoPanel == wizard \in {"none", "unknown"}
\* The line editor has the keys.
AtPrompt == ~exiting /\ modal = "none" /\ NoPanel

-----------------------------------------------------------------------------
(***************************************************************************)
(* The follow-up effect.  A rendering that changes what it depends on      *)
(* cancels the look under way, and begins another when nothing is in the   *)
(* way of a task.                                                          *)
(***************************************************************************)
Rerender == look' = (~busy' /\ wizard' \in {"none", "unknown"} /\ modal' = "none"
                       /\ ~exiting' /\ ~paused')

\* submitTask up to its first await.
Start(prompt) ==
  \E t \in Slots :
    /\ task[t].pc = "none" /\ \A u \in Slots : u < t => task[u].pc # "none"
    /\ task' = [task EXCEPT ![t] = [pc |-> "admit", on |-> session, prompt |-> prompt]]
    /\ running' = TRUE /\ paused' = FALSE
SubmitTask(prompt) == IF running THEN UNCHANGED <<task, running, paused>> ELSE Start(prompt)

Look ==
  /\ look /\ look' = FALSE
  /\ IF inbox[session] # {} /\ ~running THEN SubmitTask(FALSE)
                                        ELSE UNCHANGED <<task, running, paused>>
  /\ UNCHANGED <<session, opening, screen, busy, unfinished, mail, due, leaving>>

Render ==
  /\ ~exiting /\ busy # running /\ busy' = running
  /\ UNCHANGED <<session, opening, screen, runs, mail, due, leaving>>
  /\ Rerender

-----------------------------------------------------------------------------
(***************************************************************************)
(* Keys.                                                                   *)
(***************************************************************************)
\* Enter on a task.  Typed before `busy' is rendered it goes nowhere.
Submit ==
  /\ AtPrompt /\ ~busy
  /\ SubmitTask(TRUE)
  /\ UNCHANGED <<session, opening, screen, busy, look, unfinished, mail, due, leaving>>

\* Enter while a task is under way, a command as well: the line is queued.
Queue(m) ==
  /\ AtPrompt /\ busy /\ m \notin typed
  /\ typed' = typed \cup {m} /\ pushing' = pushing \cup {<<m, session>>}
  /\ UNCHANGED <<session, opening, screen, runs, busy, look, inbox, got, due, leaving>>

PushedUnseen(m, s) ==
  /\ ~exiting /\ <<m, s>> \in pushing /\ pushing' = pushing \ {<<m, s>>}
  /\ inbox' = [inbox EXCEPT ![s] = @ \cup {m}]
  /\ UNCHANGED <<session, opening, screen, runs, busy, look, typed, got, due, leaving>>
Pushed(m, s) ==
  /\ ~exiting /\ <<m, s>> \in pushing /\ pushing' = pushing \ {<<m, s>>}
  /\ inbox' = [inbox EXCEPT ![s] = @ \cup {m}]
  /\ UNCHANGED <<session, opening, screen, runs, busy, typed, got, due, leaving>>
  /\ Rerender                                  \* inboxRevision

\* /new: the next session is created, then shown.
New ==
  /\ AtPrompt /\ ~busy /\ ~opening /\ session + 1 \in Sessions /\ opening' = TRUE
  /\ UNCHANGED <<session, screen, runs, busy, look, mail, due, leaving>>
OpenedAsBefore ==
  /\ ~exiting /\ opening /\ opening' = FALSE /\ session' = session + 1
  /\ told' = "nothing" /\ UNCHANGED forceQuit
  /\ UNCHANGED <<screen, runs, busy, mail, due, checking, exiting, unread>>
  /\ Rerender
Opened ==
  /\ ~exiting /\ opening /\ opening' = FALSE /\ session' = session + 1
  /\ forceQuit' = FALSE /\ told' = "nothing"
  /\ UNCHANGED <<screen, runs, busy, mail, due, checking, exiting, unread>>
  /\ Rerender

\* finalize: once a missing review was told, the next time leaves it behind.
Finalize ==
  IF forceQuit THEN exiting' = TRUE /\ UNCHANGED checking
               ELSE checking' = checking \cup {session} /\ UNCHANGED exiting

Quit ==
  /\ AtPrompt /\ ~busy /\ Finalize
  /\ UNCHANGED <<session, opening, screen, runs, busy, mail, due, forceQuit, told, unread>>
  /\ look' = (look /\ ~exiting')

\* ctrl-c on an empty line, twice within the time ctrlCArmedRef stands.
CtrlC ==
  /\ ~exiting /\ Finalize
  /\ UNCHANGED <<session, opening, screen, runs, busy, mail, due, forceQuit, told, unread>>
  /\ look' = (look /\ ~exiting')

\* The check ends for the session it was begun in, whichever is on the screen by
\* then.  Purchases that cannot be read count as none that lack a review.
Checked(s) ==
  /\ ~exiting /\ s \in checking /\ checking' = checking \ {s}
  /\ \/ /\ due[s] /\ forceQuit' = TRUE
        /\ told' = IF s = session THEN "this" ELSE IF told = "nothing" THEN "other" ELSE told
        /\ UNCHANGED <<exiting, unread, look>>
     \/ /\ unread' = due[s] /\ exiting' = TRUE /\ look' = FALSE
        /\ UNCHANGED <<forceQuit, told>>
  /\ UNCHANGED <<session, opening, screen, runs, busy, mail, due>>

\* /wallet, its keys, and the end of the write behind Enter, which closes the modal.
Wallet ==
  /\ AtPrompt /\ ~busy /\ modal' = "wallet"
  /\ UNCHANGED <<session, opening, saving, asks, wizard, runs, busy, mail, due, leaving>>
  /\ Rerender
CloseWallet ==
  /\ ~exiting /\ modal = "wallet" /\ modal' = "none"
  /\ UNCHANGED <<session, opening, saving, asks, wizard, runs, busy, mail, due, leaving>>
  /\ Rerender
SaveLimits ==
  /\ ~exiting /\ modal = "wallet" /\ saving' = TRUE
  /\ UNCHANGED <<session, opening, modal, asks, wizard, runs, busy, look, mail, due, leaving>>
LimitsSaved ==
  /\ ~exiting /\ saving /\ saving' = FALSE /\ modal' \in {"none", modal}   \* modal: the write fails
  /\ UNCHANGED <<session, opening, asks, wizard, runs, busy, mail, due, leaving>>
  /\ Rerender

\* The funding panel comes up when the first balance is read, and only then.
Balance ==
  /\ ~exiting /\ wizard = "unknown" /\ wizard' \in {"none", "fund"}
  /\ UNCHANGED <<session, opening, modal, saving, asks, runs, busy, mail, due, leaving>>
  /\ Rerender
Funded ==      \* the wallet's poll, which no modal stops
  /\ ~exiting /\ wizard = "fund" /\ wizard' = "done"
  /\ UNCHANGED <<session, opening, modal, saving, asks, runs, busy, mail, due, leaving>>
  /\ Rerender
SkipPanel ==
  /\ ~exiting /\ modal = "none"
  /\ \/ wizard = "fund" /\ wizard' = "done"
     \/ wizard = "done" /\ wizard' = "none"
  /\ UNCHANGED <<session, opening, modal, saving, asks, runs, busy, mail, due, leaving>>
  /\ Rerender

-----------------------------------------------------------------------------
(***************************************************************************)
(* The task, as the terminal sees it.                                      *)
(***************************************************************************)
At(t, pc)  == ~exiting /\ task[t].pc = pc
On(t)      == task[t].on
Goto(t, pc) == task' = [task EXCEPT ![t].pc = pc]

\* The end of submitTask: in error it pauses the inbox.  A run awaits files and
\* answers, so the beginning of it is rendered before its end.
Ends(t, failed) ==
  /\ busy
  /\ task' = [task EXCEPT ![t] = NoTask]
  /\ running' = FALSE /\ paused' = (paused \/ failed)

\* The review is submitted, or a new query no longer looks for it.
NoLongerDue(s) ==
  /\ due' = [due EXCEPT ![s] = FALSE]
  /\ told' = IF s = session /\ told = "this" THEN "earlier" ELSE told

\* runtime.execute: a prompt is refused while the session's last query is
\* unfinished, anything else resumes it; otherwise a query begins.  (Nothing here
\* resumes one: the task that left it unfinished has paused the follow-ups.)
Declined(t) ==
  /\ At(t, "admit") /\ unfinished[On(t)] /\ task[t].prompt
  /\ Ends(t, TRUE)
  /\ UNCHANGED <<session, opening, screen, busy, look, unfinished, mail, due, leaving>>
Begins(t) ==
  /\ At(t, "admit") /\ ~(unfinished[On(t)] /\ task[t].prompt)
  /\ unfinished' = [unfinished EXCEPT ![On(t)] = TRUE]
  /\ Goto(t, IF unfinished[On(t)] THEN "model" ELSE "turn")
  /\ IF unfinished[On(t)] THEN UNCHANGED <<due, told>> ELSE NoLongerDue(On(t))
  /\ UNCHANGED <<session, opening, screen, running, paused, busy, look, mail, exits>>
Admit(t) == Declined(t) \/ Begins(t)

\* injectMessages at the beginning of a turn.
Turn(t) ==
  /\ At(t, "turn") /\ Goto(t, "model")
  /\ got' = got \cup inbox[On(t)] /\ inbox' = [inbox EXCEPT ![On(t)] = {}]
  /\ UNCHANGED <<session, opening, screen, running, paused, unfinished, busy, look,
                 pushing, typed, due, leaving>>

NextTurn(t) ==
  /\ At(t, "model") /\ asks = {} /\ Goto(t, "turn")
  /\ UNCHANGED <<session, opening, screen, running, paused, unfinished, busy, look,
                 mail, due, leaving>>

Finish(t) ==
  /\ At(t, "model") /\ asks = {} /\ Ends(t, FALSE)
  /\ unfinished' = [unfinished EXCEPT ![On(t)] = FALSE]
  /\ UNCHANGED <<session, opening, screen, busy, look, mail, due, leaving>>

\* An error of one loop ends the task, whatever the other ones wait for.
Fail(t) ==
  /\ ~exiting /\ task[t].pc # "none" /\ Ends(t, TRUE)
  /\ UNCHANGED <<session, opening, screen, busy, look, unfinished, mail, due, leaving>>

\* spendingHandler and approvalHandler: the one modal shows the newest question.
AskUser(t, a) ==
  /\ At(t, "model") /\ a \notin asks
  /\ asks' = asks \cup {a} /\ modal' = a
  /\ UNCHANGED <<session, opening, saving, wizard, runs, busy, mail, due, leaving>>
  /\ Rerender

\* A purchase and its review, between which the user may leave.
Buy(t) ==
  /\ At(t, "model") /\ asks = {}
  /\ due' = [due EXCEPT ![On(t)] = TRUE]
  /\ UNCHANGED <<session, opening, screen, runs, busy, look, mail, leaving>>
Review(t) ==
  /\ At(t, "model") /\ due[On(t)] /\ NoLongerDue(On(t))
  /\ UNCHANGED <<session, opening, screen, runs, busy, look, mail, exits>>

\* A key on the question shown.  Yes, or a no the task can live with, sends the
\* asker on; declined spending stops the query of a task that is still there.
Answer(a) ==
  /\ ~exiting /\ modal = a /\ modal' = "none" /\ asks' = asks \ {a}
  /\ \/ UNCHANGED runs
     \/ \E t \in Slots :
          /\ At(t, "model") /\ Ends(t, FALSE)
          /\ unfinished' = [unfinished EXCEPT ![On(t)] = FALSE]
  /\ UNCHANGED <<session, opening, saving, wizard, busy, mail, due, leaving>>
  /\ Rerender

-----------------------------------------------------------------------------
Key  == \/ Submit \/ New \/ Quit \/ CtrlC \/ Wallet \/ CloseWallet \/ SaveLimits \/ SkipPanel
        \/ \E m \in Messages : Queue(m)
        \/ \E a \in Askers : Answer(a)
Run(t) == \/ Admit(t) \/ Turn(t) \/ NextTurn(t) \/ Finish(t) \/ Fail(t) \/ Buy(t) \/ Review(t)
          \/ \E a \in Askers : AskUser(t, a)
Next == \/ Key \/ \E t \in Slots : Run(t)
        \/ Look \/ Render \/ Opened \/ LimitsSaved \/ Balance \/ Funded
        \/ \E m \in Messages, s \in Sessions : Pushed(m, s)
        \/ \E s \in Sessions : Checked(s)

\* Promises settle, effects run; a model call ends in an answer or a timeout, and a
\* task takes a limited number of turns (maxTurns).  Reading the inbox, which a change
\* of the screen cancels, is not cancelled for ever: it is quicker than a hand.
Settles ==
  /\ SF_vars(Look) /\ WF_vars(Render)
  /\ \A m \in Messages : WF_vars(\E s \in Sessions : Pushed(m, s))
  /\ WF_vars(\E t \in Slots : Admit(t) \/ Turn(t))
  /\ SF_vars(\E t \in Slots : Finish(t) \/ Fail(t))
\* The user does not leave a question, or a panel, unanswered for ever.
Answers == /\ \A a \in Askers : WF_vars(Answer(a))
           /\ WF_vars(CloseWallet) /\ WF_vars(SkipPanel)
Spec == Init /\ [][Next]_vars /\ Settles /\ Answers
\* The user also goes on giving tasks.
PatientSpec == Spec /\ SF_vars(Submit)

-----------------------------------------------------------------------------
\* The types, and that a question on the screen is one that waits for its answer.
TypeOK ==
  /\ session \in Sessions /\ modal \in Screens /\ asks \subseteq Askers
  /\ wizard \in {"unknown", "none", "fund", "done"}
  /\ {opening, saving, running, busy, paused, look, forceQuit, exiting, unread}
       \subseteq BOOLEAN
  /\ told \in Tidings
  /\ task \in [Slots -> Task] /\ unfinished \in [Sessions -> BOOLEAN]
  /\ inbox \in [Sessions -> SUBSET Messages] /\ pushing \subseteq Messages \X Sessions
  /\ due \in [Sessions -> BOOLEAN] /\ checking \subseteq Sessions
  /\ typed \subseteq Messages /\ got \subseteq typed
  /\ modal \in Askers => modal \in asks

\* Whatever starts a task, the user's Enter or the follow-up effect, before or
\* after `busy' is rendered: two runs never work on the files of one terminal
\* (runningRef in submitTask).
OneRun ==
  /\ \A t, u \in Slots : task[t].pc # "none" /\ task[u].pc # "none" => t = u
  /\ running = (\E t \in Slots : task[t].pc # "none")

\* A question whose modal was overwritten.  Its promise is never resolved.
Lost == \E a \in asks : a # modal
Queued(m) == m \in inbox[session]

\* A message typed while a task was under way is taken by it or by a follow-up,
\* however its write, the end of the task and the rendering fall, unless the user
\* leaves the session, the task fails, or a question was overwritten (the
\* follow-up effect and inboxRevision, app.tsx).
QueuedIsTaken ==
  \A m \in Messages : Queued(m) ~> (~Queued(m) \/ exiting \/ paused \/ Lost)

Leaves == exiting' /\ ~exiting

\* The terminal does not exit over a review that the session on the screen owes
\* without the user having been told, while that session was on the screen, of a
\* review: this one or, forceQuitRef standing, an earlier one.  Left out by name:
\* purchases that could not be read (app.tsx:210), and a check begun in an earlier
\* session that ends after /new opened this one, which exits at once or tells of
\* the review of the other ("other").  A warning given before /new lets nobody
\* out (finalize, app.tsx:206-226, 370).
ChecksAnother == \E s \in checking : s \notin checking' /\ s # session
QuitSaysSo ==
  [][Leaves /\ due[session] => told # "nothing" \/ ChecksAnother \/ unread']_vars

\* What the note of finalize says (app.tsx:212-215): /quit "again" leaves the
\* review it speaks of.  A review told of earlier, one of another session and
\* purchases that cannot be read let the user out over one nobody spoke of.
QuitTellsOfThisReview ==
  [][Leaves /\ due[session] => told = "this"]_vars

\* What the comment of app.tsx says of a queued message: it starts a follow-up
\* automatically.  Told of a user who answers every question and goes on giving
\* tasks, in a terminal that shows one question at a time.
FollowUpStarts == \A m \in Messages : Queued(m) ~> (~Queued(m) \/ exiting)
=============================================================================
