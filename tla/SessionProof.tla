------------------------------ MODULE SessionProof ------------------------------
(***************************************************************************)
(* What is said and done in a session, for any number of commands,         *)
(* queries, stops, generations and services: a shell command always has a  *)
(* timer that settles it, and leaves behind only what is deaf to SIGTERM;  *)
(* a score is that of the tree it is kept with; a request to the model is  *)
(* whole, the journal can be read and the receipts in it stay listed; and  *)
(* a list of services that is not complete says so.                        *)
(***************************************************************************)
EXTENDS Shell, Evolve, Journal, Discovery, FiniteSetTheorems, SequenceTheorems, NaturalsInduction,
        TLAPS

-----------------------------------------------------------------------------
(***************************************************************************)
(* A shell command: the call always has a timer that settles it.           *)
(***************************************************************************)
ShellSpec == ShellInit /\ [][ShellNext]_shellVars

Ats == {"new", "refused", "running", "settled", "done"}
ShellInv ==
  /\ cmd \in [at : Ats, timeout : Nat, aborted : BOOLEAN]
  /\ timers \subseteq {"timeout", "kill", "grace"}
  /\ NeverHangs

LEMMA ClampedIsNatural ==
  ASSUME NEW t \in Timeouts
  PROVE  Clamped(t) \in Nat
BY ShellAssumption DEF Clamped

\* A step that settles the call.
LEMMA SettlesKeeps ==
  ASSUME ShellInv, NEW by, NEW code, NEW left, SettleCommand(by, code, left)
  PROVE  ShellInv'
<1>1. cmd'.at = "settled" /\ cmd' \in [at : Ats, timeout : Nat, aborted : BOOLEAN]
  BY DEF ShellInv, SettleCommand, Ats
<1>2. timers' = {} BY DEF SettleCommand
<1> QED BY <1>1, <1>2 DEF ShellInv, NeverHangs, Is

\* A step that leaves the call where it is, with a timer that is armed.
LEMMA StaysKeeps ==
  ASSUME ShellInv, UNCHANGED cmd, timers' \subseteq {"timeout", "kill", "grace"},
         timers' = timers \/ timers' # {}
  PROVE  ShellInv'
BY DEF ShellInv, NeverHangs, Is

LEMMA SpawnKeeps ==
  ASSUME ShellInv, Spawn
  PROVE  ShellInv'
<1>1. PICK t \in Timeouts : cmd' = [cmd EXCEPT !.at = "running", !.timeout = Clamped(t)]
  BY DEF Spawn
<1>2. Clamped(t) \in Nat BY ClampedIsNatural
<1>3. "running" \in Ats BY DEF Ats
<1>4. cmd' \in [at : Ats, timeout : Nat, aborted : BOOLEAN] BY <1>1, <1>2, <1>3 DEF ShellInv
<1>5. timers' = {"timeout"} BY DEF Spawn
<1> QED BY <1>4, <1>5 DEF ShellInv, NeverHangs

LEMMA AbortKeeps ==
  ASSUME ShellInv, Abort
  PROVE  ShellInv'
<1>1. CASE Is("running")
  <2>1. timers' = {} /\ cmd' = [cmd EXCEPT !.at = "settled", !.aborted = TRUE] BY <1>1 DEF Abort
  <2>2. cmd'.at = "settled" /\ cmd' \in [at : Ats, timeout : Nat, aborted : BOOLEAN]
    BY <2>1 DEF ShellInv, Ats
  <2> QED BY <2>1, <2>2 DEF ShellInv, NeverHangs, Is
<1>2. CASE ~Is("running")
  <2>1. UNCHANGED timers /\ cmd' = [cmd EXCEPT !.aborted = TRUE] BY <1>2 DEF Abort
  <2>2. cmd'.at = cmd.at /\ cmd' \in [at : Ats, timeout : Nat, aborted : BOOLEAN]
    BY <2>1 DEF ShellInv
  <2> QED BY <1>2, <2>1, <2>2 DEF ShellInv, NeverHangs, Is
<1> QED BY <1>1, <1>2

\* A command that is refused, or noted when it is over, does not run.
LEMMA OverKeeps ==
  ASSUME ShellInv, RefuseCommand \/ Note
  PROVE  ShellInv'
<1>1. PICK at \in {"refused", "done"} : cmd' = [cmd EXCEPT !.at = at]
  BY DEF RefuseCommand, Note
<1>2. cmd'.at # "running" /\ cmd' \in [at : Ats, timeout : Nat, aborted : BOOLEAN]
  BY <1>1 DEF ShellInv, Ats
<1>3. UNCHANGED timers BY DEF RefuseCommand, Note
<1> QED BY <1>2, <1>3 DEF ShellInv, NeverHangs, Is

LEMMA ShellStarts == ShellInit => ShellInv
BY DEF ShellInit, ShellInv, Ats, NeverHangs, Is

LEMMA ShellKeeps == ShellInv /\ [ShellNext]_shellVars => ShellInv'
<1> SUFFICES ASSUME ShellInv, [ShellNext]_shellVars PROVE ShellInv' OBVIOUS
<1>1. CASE SpawnFails \/ CloseEvent \/ Grace \/ Kill
  BY <1>1, SettlesKeeps DEF SpawnFails, CloseEvent, Grace, Kill
<1>2. CASE Write \/ Data \/ \E p \in Processes : ProcessEnds(p)
  <2>1. UNCHANGED <<cmd, timers>> BY <1>2 DEF Write, Data, ProcessEnds
  <2> QED BY <2>1, StaysKeeps DEF ShellInv
<1>3. CASE Exit
  <2>1. UNCHANGED cmd /\ timers' = timers \cup {"grace"} BY <1>3 DEF Exit
  <2> QED BY <2>1, StaysKeeps DEF ShellInv
<1>4. CASE TimesOut
  <2>1. UNCHANGED cmd /\ timers' = (timers \ {"timeout"}) \cup {"kill"} BY <1>4 DEF TimesOut
  <2> QED BY <2>1, StaysKeeps DEF ShellInv
<1>5. CASE UNCHANGED shellVars BY <1>5, StaysKeeps DEF shellVars, ShellInv
<1> QED BY <1>1, <1>2, <1>3, <1>4, <1>5, SpawnKeeps, AbortKeeps, OverKeeps DEF ShellNext

\* A command that runs has a timer that settles its call or leads to one that does
\* (packages/core/src/shell.ts).
THEOREM CommandsNeverHang == ShellSpec => []NeverHangs
<1>1. ShellInv => NeverHangs BY DEF ShellInv
<1> QED BY <1>1, ShellStarts, ShellKeeps, PTL DEF ShellSpec

\* No timer is armed of a call that is settled, so nobody is killed after it was said how
\* the command ended, and nobody joins those that were left.
DeafInv == (~Is("running") => timers = {}) /\ (Is("new") => group = {}) /\ OnlyTheDeafStay

LEMMA SettlesLeaves ==
  ASSUME ShellInv, NEW by, NEW code, NEW left, SettleCommand(by, code, left), UNCHANGED deaf,
         left = {} \/ by \in {"grace", "close"}
  PROVE  DeafInv'
<1>1. cmd'.at = "settled" /\ timers' = {} /\ group' = left \cap deaf
  BY DEF ShellInv, SettleCommand
<1>2. result'.by = by BY DEF SettleCommand
<1> QED BY <1>1, <1>2 DEF DeafInv, OnlyTheDeafStay, Is

LEMMA AbortLeaves ==
  ASSUME ShellInv, DeafInv, Abort
  PROVE  DeafInv'
<1>1. CASE Is("running")
  <2>1. timers' = {} /\ group' = {} /\ cmd'.at = "settled" BY <1>1 DEF Abort, ShellInv
  <2> QED BY <2>1 DEF DeafInv, OnlyTheDeafStay, Is
<1>2. CASE ~Is("running")
  <2>1. cmd'.at = cmd.at /\ UNCHANGED <<timers, group, deaf, result>>
    BY <1>2 DEF Abort, ShellInv
  <2> QED BY <2>1 DEF DeafInv, OnlyTheDeafStay, Is
<1> QED BY <1>1, <1>2

\* A step before the call is settled, or one by which a process ends.
LEMMA GoesLeaves ==
  ASSUME DeafInv, UNCHANGED <<cmd, deaf, result>>, group' \subseteq group,
         timers' = timers \/ Is("running")
  PROVE  DeafInv'
BY DEF DeafInv, OnlyTheDeafStay, Is

LEMMA ShellLeaves == ShellInv /\ DeafInv /\ [ShellNext]_shellVars => DeafInv'
<1> SUFFICES ASSUME ShellInv, DeafInv, [ShellNext]_shellVars PROVE DeafInv' OBVIOUS
<1>1. CASE RefuseCommand \/ Spawn
  <2>1. Is("new") /\ cmd'.at \in {"refused", "running"} /\ (RefuseCommand => UNCHANGED timers)
        /\ (Spawn => cmd'.at = "running")
    BY <1>1 DEF RefuseCommand, Spawn, ShellInv, Is
  <2> QED BY <1>1, <2>1 DEF DeafInv, OnlyTheDeafStay, Is
<1>2. CASE SpawnFails BY <1>2, SettlesLeaves DEF SpawnFails
<1>3. CASE CloseEvent BY <1>3, SettlesLeaves DEF CloseEvent
<1>4. CASE Grace BY <1>4, SettlesLeaves DEF Grace
<1>5. CASE Kill
  <2>1. PICK code : SettleCommand("kill", code, {}) BY <1>5 DEF Kill
  <2> QED BY <1>5, <2>1, SettlesLeaves DEF Kill
<1>6. CASE Abort BY <1>6, AbortLeaves
<1>7. CASE Note
  <2>1. Is("settled") /\ cmd'.at = "done" BY <1>7 DEF Note, ShellInv
  <2> QED BY <1>7, <2>1 DEF Note, DeafInv, OnlyTheDeafStay, Is
<1>8. CASE Write \/ Data \/ UNCHANGED shellVars
  BY <1>8, GoesLeaves DEF Write, Data, shellVars
<1>9. CASE Exit BY <1>9, GoesLeaves DEF Exit
<1>10. CASE TimesOut
  <2>1. Is("running") BY <1>10 DEF TimesOut, DeafInv
  <2> QED BY <1>10, <2>1, GoesLeaves DEF TimesOut, Times
<1>11. ASSUME NEW p \in Processes, ProcessEnds(p) PROVE DeafInv'
  BY <1>11, GoesLeaves DEF ProcessEnds
<1> QED BY <1>1, <1>2, <1>3, <1>4, <1>5, <1>6, <1>7, <1>8, <1>9, <1>10, <1>11 DEF ShellNext

\* shell.ts, of every command, every timing of its end, its pipes and its cancellation:
\* what it leaves behind ignores SIGTERM, and it leaves something only where its pipes
\* closed or its shell ended by itself; a command that is killed or cancelled leaves nothing.
THEOREM CommandsLeaveOnlyTheDeaf == ShellSpec => []OnlyTheDeafStay
<1>1. DeafInv => OnlyTheDeafStay BY DEF DeafInv
<1>2. ShellInit => ShellInv /\ DeafInv
  BY ShellStarts DEF ShellInit, DeafInv, OnlyTheDeafStay, Is
<1>3. ShellInv /\ DeafInv /\ [ShellNext]_shellVars => ShellInv' /\ DeafInv'
  BY ShellKeeps, ShellLeaves
<1> QED BY <1>1, <1>2, <1>3, PTL DEF ShellSpec

-----------------------------------------------------------------------------
(***************************************************************************)
(* The evolution of knowledge trees.  The trees that the evolution at hand *)
(* has pushed so far stand before the slot it is at: what it writes next   *)
(* goes over none of them.                                                 *)
(***************************************************************************)
EvolveSpec == EvolveInit /\ [][EvolveNext]_evolveVars

Metrics == {NoScore} \cup {MetricsOfRows(rows) : rows \in Suite}
Entries == [id : Slots \cup {Baseline}, dir : BOOLEAN, metrics : Metrics, of : SUBSET Nat, run : Nat]
Before(a, b) == (a[1] < b[1]) \/ (a[1] = b[1] /\ a[2] < b[2])
AtIt  == {"saveEntry", "evaluate", "saveScore"}    \* the candidate of the slot is pushed
Early == {"baseline", "saveBaseline", "count"}     \* none is pushed yet
Late  == {"best", "saveLast", "done"}
EvolveTyped ==
  /\ archive \in Seq(Entries) /\ disk \in Seq(Entries)
  /\ dirs \in [Slots -> SUBSET Nat]
  /\ slot \in Slots /\ proposals \in Nat /\ restarts \in Nat
  /\ stage \in {"propose"} \cup AtIt \cup Early \cup Late

\* An entry of this evolution that has a tree.
Held(i) == archive[i].run = restarts /\ archive[i].dir
IsInPlace(i) ==
  /\ archive[i].id \in Slots
  /\ stage \notin Early
  /\ stage = "propose" => Before(archive[i].id, slot)
  /\ stage \in AtIt => Before(archive[i].id, slot) \/ i = Len(archive)
EvolveInv ==
  /\ EvolveTyped
  /\ \A i \in 1..Len(archive) : archive[i].run <= restarts /\ (Held(i) => IsInPlace(i))
  /\ \A i \in 1..Len(disk) : disk[i].run <= restarts
  /\ stage \in AtIt => /\ Len(archive) > 0 /\ archive[Len(archive)].id = slot
                       /\ archive[Len(archive)].run = restarts
  /\ stage = "evaluate" => archive[Len(archive)].dir
  /\ ScoreIsOfItsTree

LEMMA SlotsHaveNumbers ==
  ASSUME NEW s \in Slots
  PROVE  s[1] \in Nat /\ s[2] \in Nat /\ s = <<s[1], s[2]>> /\ s[1] <= Generations /\ s[2] < PerGeneration
BY EvolveAssumption DEF Slots

\* What stands before a slot, and the slot itself, stand before the next one.
LEMMA SlotsGoOn ==
  ASSUME NEW a \in Slots, slot \in Slots, Before(a, slot) \/ a = slot
  PROVE  Before(a, NextSlot)
<1>1. a[1] \in Nat /\ a[2] \in Nat /\ slot[1] \in Nat /\ slot[2] \in Nat /\ a[2] < PerGeneration
  BY SlotsHaveNumbers
<1>2. CASE slot[2] + 1 < PerGeneration
  <2>1. NextSlot = <<slot[1], slot[2] + 1>> BY <1>2 DEF NextSlot
  <2>2. NextSlot[1] = slot[1] /\ NextSlot[2] = slot[2] + 1 BY <2>1
  <2> QED BY <1>1, <2>2 DEF Before
<1>3. CASE ~(slot[2] + 1 < PerGeneration)
  <2>1. NextSlot[1] = slot[1] + 1 BY <1>3 DEF NextSlot
  <2> QED BY <1>1, <2>1 DEF Before
<1> QED BY <1>2, <1>3

LEMMA NextIsASlot ==
  ASSUME slot \in Slots, ~(NextSlot[1] > Generations)
  PROVE  NextSlot \in Slots
<1>1. slot[1] \in Nat /\ slot[2] \in Nat /\ slot[1] <= Generations BY SlotsHaveNumbers
<1>2. CASE slot[2] + 1 < PerGeneration BY <1>1, <1>2, EvolveAssumption DEF NextSlot, Slots
<1>3. CASE ~(slot[2] + 1 < PerGeneration)
  <2>1. NextSlot = <<slot[1] + 1, 0>> BY <1>3 DEF NextSlot
  <2>2. slot[1] + 1 <= Generations BY <1>1, <2>1, EvolveAssumption
  <2> QED BY <1>1, <2>1, <2>2, EvolveAssumption DEF Slots
<1> QED BY <1>2, <1>3

LEMMA EvolveStarts == EvolveInit => EvolveInv
<1> SUFFICES ASSUME EvolveInit PROVE EvolveInv OBVIOUS
<1>1. <<0, 0>> \in Slots BY EvolveAssumption DEF Slots
<1>2. EvolveTyped BY <1>1 DEF EvolveInit, EvolveTyped, Early
<1>3. Len(archive) = 0 /\ Len(disk) = 0 /\ stage = "baseline" BY DEF EvolveInit
<1>4. ScoreIsOfItsTree BY <1>3 DEF ScoreIsOfItsTree, Scored
<1> QED BY <1>2, <1>3, <1>4 DEF EvolveInv, AtIt

\* A step that pushes nothing, and goes on from a slot to a later one if it goes on.
LEMMA MoveOnKeeps ==
  ASSUME EvolveInv, EvolveTyped', UNCHANGED <<archive, dirs, restarts>>, disk' \in {disk, archive},
         stage' \in AtIt => stage \in AtIt /\ slot' = slot,
         stage' = "evaluate" => archive[Len(archive)].dir,
         stage' \in Early => stage \in Early,
         stage' = "propose" => \/ stage \in Early
                               \/ /\ stage \in AtIt
                                  /\ \A a \in Slots : (Before(a, slot) \/ a = slot) => Before(a, slot')
  PROVE  EvolveInv'
<1>1. ASSUME NEW i \in 1..Len(archive), Held(i) PROVE IsInPlace(i)'
  <2>1. IsInPlace(i) BY <1>1 DEF EvolveInv
  <2>2. CASE stage' \in AtIt BY <2>1, <2>2 DEF IsInPlace, AtIt, Early
  <2>3. CASE stage' = "propose"
    <3>1. stage \in AtIt /\ \A a \in Slots : (Before(a, slot) \/ a = slot) => Before(a, slot')
      BY <2>1, <2>3 DEF IsInPlace
    <3>2. Before(archive[i].id, slot) \/ archive[i].id = slot BY <2>1, <3>1 DEF IsInPlace, EvolveInv
    <3> QED BY <2>1, <2>3, <3>1, <3>2 DEF IsInPlace, AtIt, Early
  <2>4. CASE stage' \in Late BY <2>1, <2>4 DEF IsInPlace, Late, AtIt, Early
  <2> QED BY <2>1, <2>2, <2>3, <2>4 DEF EvolveTyped, IsInPlace
<1>2. ScoreIsOfItsTree' BY DEF EvolveInv, ScoreIsOfItsTree, Scored
<1>3. \A i \in 1..Len(disk') : disk'[i].run <= restarts' BY DEF EvolveInv
<1>4. stage' \in AtIt => /\ Len(archive) > 0 /\ archive[Len(archive)].id = slot'
                         /\ archive[Len(archive)].run = restarts
  BY DEF EvolveInv
<1> QED BY <1>1, <1>2, <1>3, <1>4 DEF EvolveInv, Held

TreesStand == \A a \in Slots : (stage = "baseline" \/ a # slot) => dirs'[a] = dirs[a]

\* A step that pushes one entry that has no score, and changes no tree of this evolution.
LEMMA PushKeeps ==
  ASSUME EvolveInv, EvolveTyped', NEW new \in Entries, archive' = Append(archive, new),
         new.run = restarts, new.dir => new.metrics = NoScore /\ stage' = "saveEntry" /\ new.id \in Slots,
         UNCHANGED <<disk, restarts>>,
         \/ stage = "propose" /\ stage' = "saveEntry" /\ slot' = slot /\ new.id = slot
         \/ stage = "baseline" /\ stage' = "saveBaseline",
         TreesStand
  PROVE  EvolveInv'
<1>1. archive \in Seq(Entries) /\ restarts \in Nat BY DEF EvolveInv, EvolveTyped
<1>2. Len(archive') = Len(archive) + 1 /\ Len(archive) \in Nat /\ archive'[Len(archive')] = new
  BY <1>1
<1>3. ASSUME NEW i \in 1..Len(archive'), i # Len(archive') PROVE i \in 1..Len(archive) /\ archive'[i] = archive[i]
  BY <1>1, <1>2, <1>3
<1>4. ASSUME NEW i \in 1..Len(archive), Held(i)
      PROVE  stage = "propose" /\ archive[i].id \in Slots /\ Before(archive[i].id, slot)
  <2>1. IsInPlace(i) BY <1>4 DEF EvolveInv
  <2> QED BY <2>1 DEF IsInPlace, Early
<1>5. ASSUME NEW i \in 1..Len(archive'), Held(i)' PROVE IsInPlace(i)'
  <2>1. CASE i = Len(archive') BY <1>2, <1>5, <2>1 DEF IsInPlace, Held, AtIt, Early
  <2>2. CASE i # Len(archive')
    <3>1. archive'[i] = archive[i] /\ Held(i) /\ i \in 1..Len(archive)
      BY <1>3, <1>5, <2>2 DEF Held
    <3>2. stage = "propose" /\ archive[i].id \in Slots /\ Before(archive[i].id, slot) BY <1>4, <3>1
    <3> QED BY <3>1, <3>2 DEF IsInPlace, AtIt, Early
  <2> QED BY <2>1, <2>2
<1>6. ASSUME NEW i \in 1..Len(archive'), archive'[i].metrics # NoScore, Held(i)'
      PROVE  archive'[i].of = dirs'[archive'[i].id]
  <2>1. i # Len(archive') BY <1>2, <1>6 DEF Held
  <2>2. archive'[i] = archive[i] /\ Held(i) /\ i \in 1..Len(archive)
    BY <1>3, <1>6, <2>1 DEF Held
  <2>3. stage = "propose" /\ archive[i].id \in Slots /\ Before(archive[i].id, slot) BY <1>4, <2>2
  <2>4. archive[i].id # slot
    <3>1. slot \in Slots BY DEF EvolveInv, EvolveTyped
    <3> QED BY <2>3, <3>1, SlotsHaveNumbers DEF Before
  <2>5. archive[i].of = dirs[archive[i].id]
    BY <1>6, <2>2 DEF EvolveInv, ScoreIsOfItsTree, Scored, Held
  <2> QED BY <2>2, <2>3, <2>4, <2>5 DEF TreesStand
<1>7. ScoreIsOfItsTree' BY <1>6 DEF ScoreIsOfItsTree, Scored, Held
<1>8. ASSUME NEW i \in 1..Len(archive') PROVE archive'[i].run <= restarts
  BY <1>1, <1>2, <1>3 DEF EvolveInv
<1>9. stage' \in AtIt => new.id = slot' BY DEF AtIt
<1>10. stage' # "evaluate" OBVIOUS
<1> QED BY <1>2, <1>5, <1>7, <1>8, <1>9, <1>10 DEF EvolveInv

LEMMA EntryIsTyped ==
  ASSUME NEW id \in Slots \cup {Baseline}, NEW hasDir \in BOOLEAN, restarts \in Nat
  PROVE  /\ Entry(id, hasDir) \in Entries
         /\ Entry(id, hasDir).id = id /\ Entry(id, hasDir).dir = hasDir
         /\ Entry(id, hasDir).run = restarts /\ Entry(id, hasDir).metrics = NoScore
BY DEF Entry, Entries, Metrics

LEMMA ScoreBaselineKeeps == ASSUME EvolveInv, ScoreBaseline PROVE EvolveInv'
<1>1. EvolveTyped /\ stage = "baseline" BY DEF EvolveInv, ScoreBaseline
<1>2. UNCHANGED <<disk, dirs, slot, proposals, restarts>> BY DEF ScoreBaseline
<1>3. CASE UNCHANGED archive /\ stage' = "count"
  <2>1. EvolveTyped' BY <1>1, <1>2, <1>3 DEF EvolveTyped, Early
  <2> QED BY <1>1, <1>2, <1>3, <2>1, MoveOnKeeps DEF Early, AtIt
<1>4. ASSUME NEW rows \in Suite, stage' = "saveBaseline",
             archive' = Append(archive, [Entry(Baseline, FALSE) EXCEPT !.metrics = MetricsOfRows(rows)])
      PROVE  EvolveInv'
  <2>1. PICK new : new = [Entry(Baseline, FALSE) EXCEPT !.metrics = MetricsOfRows(rows)] OBVIOUS
  <2>2. Entry(Baseline, FALSE) \in Entries /\ Entry(Baseline, FALSE).dir = FALSE
        /\ Entry(Baseline, FALSE).run = restarts
    BY <1>1, EntryIsTyped DEF EvolveTyped
  <2>3. MetricsOfRows(rows) \in Metrics BY DEF Metrics
  <2>4. new \in Entries /\ new.dir = FALSE /\ new.run = restarts BY <2>1, <2>2, <2>3 DEF Entries
  <2>5. archive' = Append(archive, new) BY <1>4, <2>1
  <2>6. EvolveTyped' BY <1>1, <1>2, <1>4, <2>4, <2>5 DEF EvolveTyped, Early
  <2>7. TreesStand BY <1>2 DEF TreesStand
  <2> QED BY <1>1, <1>2, <1>4, <2>4, <2>5, <2>6, <2>7, PushKeeps
<1> QED BY <1>1, <1>3, <1>4 DEF ScoreBaseline

LEMMA SaveArchiveKeeps == ASSUME EvolveInv, SaveArchive PROVE EvolveInv'
<1>1. EvolveTyped /\ stage \in Saving BY DEF EvolveInv, SaveArchive
<1>2. UNCHANGED <<archive, dirs, proposals, restarts>> /\ disk' = archive BY DEF SaveArchive
<1>3. CASE stage = "saveBaseline" /\ stage' = "count" /\ UNCHANGED slot
  <2>1. EvolveTyped' BY <1>1, <1>2, <1>3 DEF EvolveTyped, Early
  <2> QED BY <1>2, <1>3, <2>1, MoveOnKeeps DEF Early, AtIt
<1>4. CASE stage = "saveEntry" /\ archive[Len(archive)].dir /\ stage' = "evaluate" /\ UNCHANGED slot
  <2>1. EvolveTyped' BY <1>1, <1>2, <1>4 DEF EvolveTyped, AtIt
  <2> QED BY <1>2, <1>4, <2>1, MoveOnKeeps DEF Early, AtIt
<1>5. CASE stage = "saveLast" /\ stage' = "done" /\ UNCHANGED slot
  <2>1. EvolveTyped' BY <1>1, <1>2, <1>5 DEF EvolveTyped, Late
  <2> QED BY <1>2, <1>5, <2>1, MoveOnKeeps DEF Early, AtIt
<1>6. CASE stage \in {"saveEntry", "saveScore"} /\ Advance
  <2>1. CASE stage' = "best" /\ UNCHANGED slot
    <3>1. EvolveTyped' BY <1>1, <1>2, <2>1 DEF EvolveTyped, Late
    <3> QED BY <1>2, <2>1, <3>1, MoveOnKeeps DEF Early, AtIt
  <2>2. CASE ~(NextSlot[1] > Generations) /\ stage' = "propose" /\ slot' = NextSlot
    <3>1. slot \in Slots /\ NextSlot \in Slots BY <1>1, <2>2, NextIsASlot DEF EvolveTyped
    <3>2. EvolveTyped' BY <1>1, <1>2, <2>2, <3>1 DEF EvolveTyped
    <3>3. \A a \in Slots : (Before(a, slot) \/ a = slot) => Before(a, slot')
      BY <2>2, <3>1, SlotsGoOn
    <3> QED BY <1>2, <1>6, <2>2, <3>2, <3>3, MoveOnKeeps DEF Early, AtIt
  <2> QED BY <1>6, <2>1, <2>2 DEF Advance
<1> QED BY <1>1, <1>3, <1>4, <1>5, <1>6 DEF SaveArchive, Saving

LEMMA CountInitialKeeps == ASSUME EvolveInv, CountInitial PROVE EvolveInv'
<1>1. EvolveTyped /\ stage = "count" BY DEF EvolveInv, CountInitial
<1>2. UNCHANGED <<archive, disk, dirs, proposals, restarts>> BY DEF CountInitial
<1>3. PICK n : n = Cardinality({i \in 1..Len(archive) : archive[i].id[1] = 0 /\ archive[i].dir})
  OBVIOUS
<1>4. n \in Nat
  <2>1. Len(archive) \in Nat BY <1>1 DEF EvolveTyped
  <2>2. IsFiniteSet(1..Len(archive)) BY <2>1, FS_Interval
  <2>3. IsFiniteSet({i \in 1..Len(archive) : archive[i].id[1] = 0 /\ archive[i].dir})
    BY <2>2, FS_Subset
  <2> QED BY <1>3, <2>3, FS_CardinalityType
<1>5. slot' \in Slots /\ stage' \in {"propose", "best"}
  <2>1. CASE n < PerGeneration /\ stage' = "propose" /\ slot' = <<0, n>>
    BY <1>4, <2>1, EvolveAssumption DEF Slots
  <2>2. CASE Generations = 0 /\ stage' = "best" /\ UNCHANGED slot BY <1>1, <2>2 DEF EvolveTyped
  <2>3. CASE Generations # 0 /\ stage' = "propose" /\ slot' = <<1, 0>>
    BY <2>3, EvolveAssumption DEF Slots
  <2> QED BY <1>3, <2>1, <2>2, <2>3 DEF CountInitial
<1>6. EvolveTyped' BY <1>1, <1>2, <1>5 DEF EvolveTyped, Late
<1> QED BY <1>1, <1>2, <1>5, <1>6, MoveOnKeeps DEF Early, AtIt

LEMMA ProposeKeeps == ASSUME EvolveInv, Propose PROVE EvolveInv'
<1>1. EvolveTyped /\ stage = "propose" /\ UNCHANGED <<disk, slot, restarts>> BY DEF EvolveInv, Propose
<1>2. CASE stage' = "best" /\ UNCHANGED <<archive, dirs, proposals>>
  <2>1. EvolveTyped' BY <1>1, <1>2 DEF EvolveTyped, Late
  <2> QED BY <1>1, <1>2, <2>1, MoveOnKeeps DEF Early, AtIt
<1>3. ASSUME NEW valid \in BOOLEAN, NEW left \in {{}, dirs[EntryId(slot)]}, NEW written \in BOOLEAN,
             proposals' = proposals + 1, stage' = "saveEntry",
             archive' = Append(archive, Entry(EntryId(slot), valid)),
             WritesTree(EntryId(slot), left, IF written THEN {proposals + 1} ELSE {})
      PROVE  EvolveInv'
  <2>1. slot \in Slots /\ dirs \in [Slots -> SUBSET Nat] /\ proposals \in Nat /\ restarts \in Nat
    BY <1>1 DEF EvolveTyped
  <2>2. PICK new : new = Entry(slot, valid) OBVIOUS
  <2>3. new \in Entries /\ new.id = slot /\ new.dir = valid /\ new.run = restarts /\ new.metrics = NoScore
    BY <2>1, <2>2, EntryIsTyped
  <2>4. archive' = Append(archive, new) BY <1>3, <2>2 DEF EntryId
  <2>5. PICK files : files = left \cup IF written THEN {proposals + 1} ELSE {} OBVIOUS
  <2>6. files \subseteq Nat BY <2>1, <2>5 DEF EntryId
  <2>7. dirs' = [dirs EXCEPT ![slot] = files] BY <1>3, <2>5 DEF WritesTree, EntryId
  <2>8. dirs' \in [Slots -> SUBSET Nat] /\ \A a \in Slots : a # slot => dirs'[a] = dirs[a]
    BY <2>1, <2>6, <2>7
  <2>9. archive' \in Seq(Entries) BY <1>1, <2>3, <2>4 DEF EvolveTyped
  <2>10. EvolveTyped' BY <1>1, <1>3, <2>1, <2>8, <2>9 DEF EvolveTyped, AtIt
  <2>11. TreesStand BY <1>1, <2>8 DEF TreesStand
  <2>12. stage = "propose" /\ stage' = "saveEntry" /\ slot' = slot /\ new.id = slot /\ new.id \in Slots
    BY <1>1, <1>3, <2>1, <2>3
  <2> QED BY <1>1, <2>3, <2>4, <2>10, <2>11, <2>12, PushKeeps
<1> QED BY <1>2, <1>3 DEF Propose

LEMMA EvaluateKeeps == ASSUME EvolveInv, Evaluate PROVE EvolveInv'
<1>1. EvolveTyped /\ stage = "evaluate" /\ stage' = "saveScore" BY DEF EvolveInv, Evaluate
<1>2. UNCHANGED <<disk, dirs, slot, proposals, restarts>> BY DEF Evaluate
<1>3. PICK last : last = Len(archive) OBVIOUS
<1>4. last \in 1..Len(archive) /\ archive[last].id = slot /\ slot \in Slots /\ archive[last] \in Entries
  BY <1>1, <1>3 DEF EvolveInv, EvolveTyped, AtIt
<1>5. PICK rows \in Suite :
        archive' = [archive EXCEPT ![last].metrics = MetricsOfRows(rows),
                                   ![last].of = dirs[archive[last].id]]
  BY <1>3 DEF Evaluate
<1>6. PICK new : new = [archive[last] EXCEPT !.metrics = MetricsOfRows(rows), !.of = dirs[slot]] OBVIOUS
<1>7. MetricsOfRows(rows) \in Metrics /\ dirs[slot] \in SUBSET Nat
  BY <1>1, <1>4 DEF Metrics, EvolveTyped
<1>8. /\ new \in Entries /\ new.id = slot /\ new.of = dirs[slot]
      /\ new.dir = archive[last].dir /\ new.run = archive[last].run
  BY <1>4, <1>6, <1>7 DEF Entries
<1>9. archive' = [archive EXCEPT ![last] = new]
  BY <1>1, <1>4, <1>5, <1>6 DEF EvolveTyped
<1>10. archive' \in Seq(Entries) /\ Len(archive') = Len(archive) /\ archive'[last] = new
       /\ \A i \in 1..Len(archive) : i # last => archive'[i] = archive[i]
  BY <1>1, <1>4, <1>8, <1>9 DEF EvolveTyped
<1>11. EvolveTyped' BY <1>1, <1>2, <1>10 DEF EvolveTyped, AtIt
<1>12. ASSUME NEW i \in 1..Len(archive) PROVE archive'[i].run = archive[i].run /\ archive'[i].id = archive[i].id
                                              /\ archive'[i].dir = archive[i].dir
  BY <1>4, <1>8, <1>10
<1>13. ASSUME NEW i \in 1..Len(archive), Held(i)' PROVE IsInPlace(i)'
  <2>1. IsInPlace(i) BY <1>2, <1>12, <1>13 DEF EvolveInv, Held
  <2> QED BY <1>1, <1>2, <1>10, <1>12, <2>1 DEF IsInPlace, AtIt, Early
<1>14. ASSUME NEW i \in 1..Len(archive), Held(i)', archive'[i].metrics # NoScore
       PROVE  archive'[i].of = dirs'[archive'[i].id]
  <2>1. CASE i = last BY <1>2, <1>8, <1>10, <2>1
  <2>2. CASE i # last BY <1>2, <1>10, <1>14, <2>2 DEF EvolveInv, ScoreIsOfItsTree, Scored, Held
  <2> QED BY <2>1, <2>2
<1>15. ScoreIsOfItsTree' BY <1>10, <1>14 DEF ScoreIsOfItsTree, Scored, Held
<1>16. stage' \in AtIt => /\ Len(archive') > 0 /\ archive'[Len(archive')].id = slot'
                          /\ archive'[Len(archive')].run = restarts'
  BY <1>1, <1>2, <1>3, <1>10, <1>12, <1>4 DEF EvolveInv, AtIt
<1> QED BY <1>1, <1>2, <1>10, <1>11, <1>12, <1>13, <1>15, <1>16 DEF EvolveInv

LEMMA WriteBestKeeps == ASSUME EvolveInv, WriteBest PROVE EvolveInv'
<1>1. EvolveTyped' BY DEF WriteBest, EvolveInv, EvolveTyped, Late
<1> QED BY <1>1, MoveOnKeeps DEF WriteBest, Early, AtIt

LEMMA EvolveAgainKeeps == ASSUME EvolveInv, EvolveAgain PROVE EvolveInv'
<1>1. EvolveTyped /\ restarts \in Nat /\ restarts' = restarts + 1 /\ stage' = "baseline"
  BY DEF EvolveInv, EvolveTyped, EvolveAgain
<1>2. <<0, 0>> \in Slots BY EvolveAssumption DEF Slots
<1>3. archive' \in Seq(Entries) /\ disk' \in Seq(Entries)
  <2>1. CASE archive' = disk /\ UNCHANGED disk BY <1>1, <2>1 DEF EvolveTyped
  <2>2. CASE archive' = <<>> /\ disk' = <<>> BY <2>2
  <2> QED BY <2>1, <2>2 DEF EvolveAgain
<1>4. EvolveTyped' BY <1>1, <1>2, <1>3 DEF EvolveAgain, EvolveTyped, Early
<1>5. /\ \A i \in 1..Len(archive') : archive'[i].run <= restarts
      /\ \A i \in 1..Len(disk') : disk'[i].run <= restarts
  <2>1. CASE archive' = disk /\ UNCHANGED disk BY <2>1 DEF EvolveInv
  <2>2. CASE archive' = <<>> /\ disk' = <<>> BY <2>2
  <2> QED BY <2>1, <2>2 DEF EvolveAgain
<1>6. ASSUME NEW i \in 1..Len(archive') PROVE archive'[i].run \in Nat /\ archive'[i].run < restarts'
  <2>1. archive'[i] \in Entries BY <1>3
  <2> QED BY <1>1, <1>5, <2>1 DEF Entries
<1>7. ASSUME NEW i \in 1..Len(disk') PROVE disk'[i].run <= restarts'
  <2>1. disk'[i] \in Entries BY <1>3
  <2> QED BY <1>1, <1>5, <2>1 DEF Entries
<1>8. \A i \in 1..Len(archive') : ~Held(i)' /\ archive'[i].run <= restarts'
  BY <1>1, <1>6 DEF Held
<1>9. ScoreIsOfItsTree' BY <1>8 DEF ScoreIsOfItsTree, Scored, Held
<1> QED BY <1>1, <1>4, <1>7, <1>8, <1>9 DEF EvolveInv, AtIt

LEMMA EvolveKeeps == EvolveInv /\ [EvolveNext]_evolveVars => EvolveInv'
<1>1. ASSUME EvolveInv, UNCHANGED evolveVars PROVE EvolveInv'
  BY <1>1 DEF evolveVars, EvolveInv, EvolveTyped, Held, IsInPlace, ScoreIsOfItsTree, Scored
<1> QED BY <1>1, ScoreBaselineKeeps, SaveArchiveKeeps, CountInitialKeeps, ProposeKeeps, EvaluateKeeps,
           WriteBestKeeps, EvolveAgainKeeps DEF EvolveNext

\* A score stands for the files of the tree it is under, while the evolution that took it
\* runs: no later candidate of that evolution writes over them (packages/evals/src/evolve.ts).
THEOREM ScoresAreOfTheirTrees == EvolveSpec => []ScoreIsOfItsTree
<1>1. EvolveInv => ScoreIsOfItsTree BY DEF EvolveInv
<1> QED BY <1>1, EvolveStarts, EvolveKeeps, PTL DEF EvolveSpec

-----------------------------------------------------------------------------
(***************************************************************************)
(* The journal.  As long as no record lost its line end alone, only the    *)
(* last record of the journal can be cut, and while a query runs none is.  *)
(* What a query adds to the request is whole up to the answer whose calls  *)
(* are under way; the results behind that answer are of the calls done.    *)
(***************************************************************************)
JournalSpec == JournalInit /\ [][JournalNext]_journalVars

CallSets    == {c \in SUBSET Nat : IsFiniteSet(c) /\ 0 \notin c}
Messages == [by : {"user", "assistant", "tool"}, calls : CallSets, of : Nat]
Ends     == {"line", "open", "cut"}
Records  == [said : Messages, end : Ends]
Receipts == [said : Nat, end : Ends]
Closed   == {"task", "turn", "ask", "nudged", "remarked"}    \* no batch is under way
InBatch  == {"answered", "journaled", "tools", "result"}
Kept     == [begun : BOOLEAN, saved : BOOLEAN, words : Seq(Messages), base : Nat,
             reply : SUBSET Nat, done : SUBSET Nat]
Queries  == [at : {"idle", "load"} \cup Closed \cup InBatch, base : Nat,
             reply : SUBSET Nat, done : SUBSET Nat]
JournalTyped ==
  /\ log \in Seq(Records) /\ receipts \in Seq(Receipts) /\ words \in Seq(Messages)
  /\ kept \in Kept /\ query \in Queries
  /\ paid \in SUBSET Nat /\ lost \in BOOLEAN
  /\ used \in [queries : Nat, replies : Nat, remarks : Nat, stops : Nat]

\* Whole, of the messages after the first a and up to b.
WholeTo(w, a, b) ==
  \A i \in (a + 1)..b :
    /\ w[i].by = "assistant" =>
         /\ i + Cardinality(w[i].calls) <= b
         /\ w[i].calls = {w[i + k].of : k \in 1..Cardinality(w[i].calls)} \ {0}
    /\ w[i].by = "tool" => \E j \in (a + 1)..(i - 1) : w[i].of \in w[j].calls
BatchAt(w, p, calls, done) ==
  /\ w[p] = AnswerWith(calls) /\ calls \in CallSets /\ done \subseteq calls
  /\ Len(w) = p + Cardinality(done)
  /\ \A k \in 1..Cardinality(done) : w[p + k].by = "tool"
  /\ done = {w[p + k].of : k \in 1..Cardinality(done)}
UnderWay(w, base, calls, done) ==
  /\ base <= Len(w)
  /\ calls = NoReply => WholeTo(w, base, Len(w))
  /\ calls # NoReply => \E p \in (base + 1)..Len(w) : WholeTo(w, base, p - 1) /\ BatchAt(w, p, calls, done)

QueryInv ==
  /\ query.at \in Closed \cup InBatch => UnderWay(words, query.base, query.reply, query.done)
  /\ kept.saved => UnderWay(kept.words, kept.base, kept.reply, kept.done)
  /\ query.at \in Closed => query.reply = NoReply
  /\ query.at \in InBatch => query.reply # NoReply

AllEnd(f)           == \A i \in 1..Len(f) : f[i].end = "line"
OnlyTheLastIsCut(f) == \A i \in 1..Len(f) : f[i].end = "line" \/ (i = Len(f) /\ f[i].end = "cut")
LogInv ==
  ~lost => OnlyTheLastIsCut(log) /\ (query.at \in Closed \cup InBatch => AllEnd(log))
ReceiptsInv == \A c \in paid : \E i \in 1..Len(receipts) : receipts[i].said = c /\ receipts[i].end = "line"
JournalInv == JournalTyped /\ QueryInv /\ LogInv /\ ReceiptsInv

LEMMA LeastOf ==
  ASSUME NEW T \in SUBSET Nat, T # {}
  PROVE  \E x \in T : \A y \in T : x <= y
<1>1. PICK R : R = OpToRel(<, Nat) OBVIOUS
<1>2. IsWellFoundedOn(R, Nat) BY <1>1, NatLessThanWellFounded
<1>3. PICK x \in T : \A y \in T : ~(<<y, x>> \in R) BY <1>2, WFMin
<1>4. ASSUME NEW y \in T PROVE x <= y
  <2>1. <<y, x>> \notin R BY <1>3
  <2>2. y < x => <<y, x>> \in R BY <1>1 DEF OpToRel
  <2> QED BY <2>1, <2>2
<1> QED BY <1>3, <1>4

LEMMA NextCallIsOpen ==
  ASSUME JournalTyped, Open # {}
  PROVE  NextCall \in Open /\ NextCall \in Nat
<1>1. Open \in SUBSET Nat BY DEF JournalTyped, Queries, Open
<1>2. \E c \in Open : \A d \in Open : c <= d BY <1>1, LeastOf
<1>3. NextCall \in Open BY <1>2 DEF NextCall
<1> QED BY <1>1, <1>3

\* There is a last line, and it is a line.
LEMMA LastLineIs ==
  ASSUME NEW f \in Seq(Records), Len(f) # 0
  PROVE  /\ LastLine(f) \in 1..Len(f) /\ StartsLine(f, LastLine(f))
         /\ \A j \in (LastLine(f) + 1)..Len(f) : ~StartsLine(f, j)
<1>1. Len(f) \in Nat \ {0} OBVIOUS
<1>2. PICK T : T = {n \in 0..Len(f) : n < Len(f) /\ StartsLine(f, Len(f) - n)} OBVIOUS
<1>3. StartsLine(f, 1) BY DEF StartsLine
<1>4. Len(f) - 1 \in T BY <1>1, <1>2, <1>3
<1>5. T \in SUBSET Nat BY <1>1, <1>2
<1>6. PICK n \in T : \A m \in T : n <= m BY <1>4, <1>5, LeastOf
<1>7. PICK i : i = Len(f) - n OBVIOUS
<1>8. i \in 1..Len(f) /\ StartsLine(f, i) /\ n \in 0..Len(f) BY <1>1, <1>2, <1>6, <1>7
<1>9. ASSUME NEW j \in (i + 1)..Len(f), StartsLine(f, j) PROVE FALSE
  <2>1. PICK m : m = Len(f) - j OBVIOUS
  <2>2. m \in 0..Len(f) /\ m < n /\ j = Len(f) - m BY <1>1, <1>7, <1>8, <1>9, <2>1
  <2>3. m \in T BY <1>1, <1>2, <1>8, <1>9, <2>2
  <2> QED BY <1>5, <1>6, <2>2, <2>3
<1>10. \E k \in 1..Len(f) : StartsLine(f, k) /\ \A j \in (k + 1)..Len(f) : ~StartsLine(f, j)
  BY <1>8, <1>9
<1> QED BY <1>10 DEF LastLine

LEMMA RepairedIs ==
  ASSUME NEW f \in Seq(Records)
  PROVE  Repaired(f) \in Seq(Records)
<1>1. CASE Bad(f) = {} BY <1>1 DEF Repaired
<1>2. CASE Bad(f) # {}
  <2>1. Len(f) # 0 BY <1>2 DEF Bad
  <2>2. LastLine(f) \in 1..Len(f) BY <2>1, LastLineIs
  <2>3. Repaired(f) = SubSeq(f, 1, LastLine(f) - 1) BY <1>2 DEF Repaired
  <2> QED BY <2>2, <2>3
<1> QED BY <1>1, <1>2

\* A journal of which only the last record is cut can be read, and loses that record.
LEMMA CutEndsAreRepaired ==
  ASSUME NEW f \in Seq(Records), OnlyTheLastIsCut(f)
  PROVE  ~Unreadable(f) /\ AllEnd(Repaired(f))
<1>1. ASSUME NEW i \in 1..Len(f) PROVE StartsLine(f, i) /\ EndsLine(f, i)
  BY DEF OnlyTheLastIsCut, StartsLine, EndsLine
<1>2. ASSUME NEW i \in Bad(f) PROVE i = Len(f) /\ f[i].end = "cut" /\ Len(f) # 0
  BY <1>1 DEF Bad, Parses, OnlyTheLastIsCut
<1>3. CASE Bad(f) = {}
  <2>1. ASSUME NEW i \in 1..Len(f) PROVE f[i].end = "line"
    BY <1>3, <1>1 DEF Bad, Parses, OnlyTheLastIsCut
  <2> QED BY <1>3, <2>1 DEF Unreadable, Repaired, AllEnd
<1>4. CASE Bad(f) # {}
  <2>1. Len(f) # 0 /\ f[Len(f)].end = "cut" BY <1>2, <1>4
  <2>2. LastLine(f) = Len(f)
    <3>1. /\ LastLine(f) \in 1..Len(f)
          /\ \A j \in (LastLine(f) + 1)..Len(f) : ~StartsLine(f, j)
      BY <2>1, LastLineIs
    <3>2. StartsLine(f, Len(f)) BY <1>1, <2>1
    <3> QED BY <3>1, <3>2
  <2>3. Repaired(f) = SubSeq(f, 1, Len(f) - 1) BY <1>4, <2>2 DEF Repaired
  <2>4. AllEnd(Repaired(f)) BY <2>1, <2>3 DEF AllEnd, OnlyTheLastIsCut
  <2>5. Last(f).end # "line" BY <2>1 DEF Last
  <2> QED BY <1>2, <2>1, <2>2, <2>4, <2>5 DEF Unreadable
<1> QED BY <1>3, <1>4

-----------------------------------------------------------------------------
(***************************************************************************)
(* What is whole, and stays so.                                            *)
(***************************************************************************)
LEMMA CallsAreFew ==
  ASSUME NEW w \in Seq(Messages), NEW i \in 1..Len(w)
  PROVE  Cardinality(w[i].calls) \in Nat /\ w[i].calls \in CallSets /\ 0 \notin w[i].calls
<1>1. w[i] \in Messages OBVIOUS
<1>2. w[i].calls \in CallSets BY <1>1 DEF Messages
<1> QED BY <1>2, FS_CardinalityType DEF CallSets

\* Another sequence that agrees as far as that, and a bound that is no less.
LEMMA WholeAgrees ==
  ASSUME NEW w \in Seq(Messages), NEW v \in Seq(Messages), NEW a \in Nat, NEW b \in Nat, NEW c \in Nat,
         WholeTo(w, a, b), b <= Len(w), b <= c, c <= Len(v), \A i \in 1..b : v[i] = w[i],
         \A i \in (b + 1)..c : v[i].by = "user"
  PROVE  WholeTo(v, a, c)
<1> SUFFICES ASSUME NEW i \in (a + 1)..c
             PROVE  /\ v[i].by = "assistant" =>
                         /\ i + Cardinality(v[i].calls) <= c
                         /\ v[i].calls = {v[i + k].of : k \in 1..Cardinality(v[i].calls)} \ {0}
                    /\ v[i].by = "tool" => \E j \in (a + 1)..(i - 1) : v[i].of \in v[j].calls
  BY DEF WholeTo
<1>1. CASE i > b BY <1>1
<1>2. CASE i <= b
  <2>1. v[i] = w[i] /\ i \in 1..Len(w) /\ i \in (a + 1)..b BY <1>2
  <2>2. Cardinality(w[i].calls) \in Nat BY <2>1, CallsAreFew
  <2>3. PICK n \in Nat : n = Cardinality(w[i].calls) BY <2>2
  <2>4. ASSUME v[i].by = "assistant" PROVE i + n <= c /\ v[i].calls = {v[i + k].of : k \in 1..n} \ {0}
    <3>1. i + n <= b /\ w[i].calls = {w[i + k].of : k \in 1..n} \ {0} BY <2>1, <2>3, <2>4 DEF WholeTo
    <3>2. \A k \in 1..n : v[i + k] = w[i + k] BY <2>1, <3>1
    <3>3. {v[i + k].of : k \in 1..n} = {w[i + k].of : k \in 1..n} BY <3>2, Zenon
    <3>4. i + n <= c BY <3>1
    <3> QED BY <2>1, <3>1, <3>3, <3>4
  <2>5. ASSUME v[i].by = "tool" PROVE \E j \in (a + 1)..(i - 1) : v[i].of \in v[j].calls
    <3>1. PICK j \in (a + 1)..(i - 1) : w[i].of \in w[j].calls BY <2>1, <2>5 DEF WholeTo
    <3>2. j \in 1..b BY <2>1, <3>1
    <3>3. v[j] = w[j] BY <3>2
    <3>4. v[i].of \in v[j].calls BY <2>1, <3>1, <3>3
    <3> QED BY <3>1, <3>4, Zenon
  <2> QED BY <2>1, <2>3, <2>4, <2>5
<1> QED BY <1>1, <1>2

\* A batch whose calls all have their results.
LEMMA BatchIsOver ==
  ASSUME NEW w \in Seq(Messages), NEW a \in Nat, NEW p \in (a + 1)..Len(w), NEW calls,
         WholeTo(w, a, p - 1), BatchAt(w, p, calls, calls)
  PROVE  WholeTo(w, a, Len(w))
<1>1. calls \in CallSets /\ Cardinality(calls) \in Nat /\ 0 \notin calls
  BY FS_CardinalityType DEF BatchAt, CallSets
<1>2. PICK n \in Nat : n = Cardinality(calls) BY <1>1
<1>3. /\ w[p] = AnswerWith(calls) /\ Len(w) = p + n /\ \A k \in 1..n : w[p + k].by = "tool"
      /\ calls = {w[p + k].of : k \in 1..n}
  BY <1>2 DEF BatchAt
<1> SUFFICES ASSUME NEW i \in (a + 1)..Len(w)
             PROVE  /\ w[i].by = "assistant" =>
                         /\ i + Cardinality(w[i].calls) <= Len(w)
                         /\ w[i].calls = {w[i + k].of : k \in 1..Cardinality(w[i].calls)} \ {0}
                    /\ w[i].by = "tool" => \E j \in (a + 1)..(i - 1) : w[i].of \in w[j].calls
  BY DEF WholeTo
<1>4. CASE i < p
  <2>1. i \in (a + 1)..(p - 1) /\ Cardinality(w[i].calls) \in Nat BY <1>4, CallsAreFew
  <2>2. /\ w[i].by = "assistant" =>
             /\ i + Cardinality(w[i].calls) <= p - 1
             /\ w[i].calls = {w[i + k].of : k \in 1..Cardinality(w[i].calls)} \ {0}
        /\ w[i].by = "tool" => \E j \in (a + 1)..(i - 1) : w[i].of \in w[j].calls
    BY <2>1, Zenon DEF WholeTo
  <2>3. PICK m \in Nat : m = Cardinality(w[i].calls) BY <2>1
  <2>4. p \in Nat /\ i \in Nat /\ Len(w) \in Nat /\ p <= Len(w) OBVIOUS
  <2>5. i + m <= p - 1 => i + m <= Len(w) BY <2>4
  <2> QED BY <2>2, <2>3, <2>5, Zenon
<1>5. CASE i = p
  <2>1. w[p].by = "assistant" /\ w[p].calls = calls BY <1>3 DEF AnswerWith
  <2>2. Cardinality(w[p].calls) = n BY <1>2, <2>1
  <2>4. p + n <= Len(w) BY <1>3
  <2>3. w[p].calls = {w[p + k].of : k \in 1..n} \ {0} BY <1>1, <1>3, <2>1
  <2> QED BY <1>5, <2>1, <2>2, <2>3, <2>4
<1>6. CASE i > p
  <2>1. PICK k \in 1..n : i = p + k
    <3>1. i - p \in 1..n /\ i = p + (i - p) BY <1>3, <1>6
    <3> QED BY <3>1
  <2>2. w[i].by = "tool" /\ w[i].of \in calls BY <1>3, <2>1
  <2>3. w[p].calls = calls BY <1>3 DEF AnswerWith
  <2>4. p \in (a + 1)..(i - 1) BY <1>6
  <2>5. w[i].by # "assistant" BY <2>2
  <2> QED BY <2>2, <2>3, <2>4, <2>5
<1>7. i < p \/ i = p \/ i > p OBVIOUS
<1> QED BY <1>4, <1>5, <1>6, <1>7, Zenon

\* One more call of the batch has its result.
LEMMA BatchGrows ==
  ASSUME NEW w \in Seq(Messages), NEW p \in 1..Len(w), NEW calls, NEW done, NEW c \in calls \ done,
         BatchAt(w, p, calls, done)
  PROVE  BatchAt(Append(w, Result(c)), p, calls, done \cup {c})
<1>1. calls \in CallSets /\ done \subseteq calls /\ c \in Nat BY DEF BatchAt, CallSets
<1>2. IsFiniteSet(done) BY <1>1, FS_Subset DEF CallSets
<1>3. Cardinality(done) \in Nat /\ Cardinality(done \cup {c}) = Cardinality(done) + 1
  BY <1>2, FS_CardinalityType, FS_AddElement
<1>4. PICK n \in Nat : n = Cardinality(done) BY <1>3
<1>5. /\ w[p] = AnswerWith(calls) /\ Len(w) = p + n /\ \A k \in 1..n : w[p + k].by = "tool"
      /\ done = {w[p + k].of : k \in 1..n}
  BY <1>4 DEF BatchAt
<1>6. Result(c) \in Messages
  <2>1. {} \in CallSets BY FS_EmptySet DEF CallSets
  <2> QED BY <1>1, <2>1 DEF Result, Messages
<1>7. PICK v : v = Append(w, Result(c)) OBVIOUS
<1>8. /\ v \in Seq(Messages) /\ Len(v) = p + n + 1 /\ v[p + n + 1] = Result(c)
      /\ \A i \in 1..Len(w) : v[i] = w[i]
  BY <1>5, <1>6, <1>7
<1>9. \A k \in 1..n : v[p + k] = w[p + k] BY <1>5, <1>8
<1>10. ASSUME NEW k \in 1..(n + 1) PROVE v[p + k].by = "tool" /\ (k = n + 1 => v[p + k] = Result(c))
  <2>1. CASE k \in 1..n
    <3>1. v[p + k] = w[p + k] BY <1>9, <2>1, Zenon
    <3>2. w[p + k].by = "tool" BY <1>5, <2>1, Zenon
    <3>3. k # n + 1 BY <2>1
    <3> QED BY <3>1, <3>2, <3>3
  <2>2. CASE k = n + 1
    <3>1. p + k = p + n + 1 BY <2>2
    <3> QED BY <1>8, <3>1 DEF Result
  <2> QED BY <2>1, <2>2
<1>11. done \cup {c} = {v[p + k].of : k \in 1..(n + 1)}
  <2>1. ASSUME NEW k \in 1..(n + 1) PROVE v[p + k].of \in done \cup {c}
    <3>1. CASE k \in 1..n
      <4>1. v[p + k] = w[p + k] /\ w[p + k].of \in done BY <1>5, <1>9, <3>1
      <4> QED BY <4>1
    <3>2. CASE k = n + 1 BY <1>10, <3>2 DEF Result
    <3> QED BY <3>1, <3>2
  <2>2. ASSUME NEW d \in done PROVE \E k \in 1..(n + 1) : d = v[p + k].of
    <3>1. PICK k \in 1..n : d = w[p + k].of BY <1>5
    <3>2. v[p + k] = w[p + k] BY <1>9, Zenon
    <3>3. k \in 1..(n + 1) OBVIOUS
    <3> QED BY <3>1, <3>2, <3>3
  <2>3. c = v[p + (n + 1)].of BY <1>10 DEF Result
  <2>4. n + 1 \in 1..(n + 1) OBVIOUS
  <2>5. PICK K : K = 1..(n + 1) OBVIOUS
  <2>6. \A k \in K : v[p + k].of \in done \cup {c} BY <2>1, <2>5
  <2>7. \A d \in done \cup {c} : \E k \in K : d = v[p + k].of BY <2>2, <2>3, <2>4, <2>5
  <2>8. done \cup {c} = {v[p + k].of : k \in K} BY <2>6, <2>7
  <2> QED BY <2>5, <2>8
<1>12. v[p] = AnswerWith(calls) BY <1>5, <1>8
<1>13. PICK m \in Nat : m = n + 1 /\ m = Cardinality(done \cup {c}) BY <1>3, <1>4
<1>14. Len(v) = p + m BY <1>8, <1>13
<1>15. \A k \in 1..m : v[p + k].by = "tool" BY <1>10, <1>13, Zenon
<1>16. done \cup {c} = {v[p + k].of : k \in 1..m} BY <1>11, <1>13
<1>17. done \cup {c} \subseteq calls BY <1>1
<1>18. BatchAt(v, p, calls, done \cup {c}) BY <1>1, <1>12, <1>13, <1>14, <1>16, <1>17, <1>15 DEF BatchAt
<1> QED BY <1>7, <1>18

LEMMA SubSeqIsWhole ==
  ASSUME NEW w \in Seq(Messages), NEW a \in Nat, a <= Len(w), WholeTo(w, a, Len(w))
  PROVE  Whole(SubSeq(w, a + 1, Len(w)))
<1>1. PICK s : s = SubSeq(w, a + 1, Len(w)) OBVIOUS
<1>2. Len(s) = Len(w) - a /\ \A i \in 1..Len(s) : s[i] = w[a + i] BY <1>1
<1> SUFFICES Whole(s) BY <1>1
<1> SUFFICES ASSUME NEW i \in 1..Len(s)
             PROVE  /\ s[i].by = "assistant" =>
                         /\ i + Cardinality(s[i].calls) <= Len(s)
                         /\ s[i].calls = {s[i + k].of : k \in 1..Cardinality(s[i].calls)} \ {0}
                    /\ s[i].by = "tool" => \E j \in 1..(i - 1) : s[i].of \in s[j].calls
  BY DEF Whole
<1>3. s[i] = w[a + i] /\ a + i \in (a + 1)..Len(w) /\ a + i \in 1..Len(w) BY <1>2
<1>4. PICK n \in Nat : n = Cardinality(w[a + i].calls) BY <1>3, CallsAreFew
<1>5. ASSUME s[i].by = "assistant" PROVE i + n <= Len(s) /\ s[i].calls = {s[i + k].of : k \in 1..n} \ {0}
  <2>1. (a + i) + n <= Len(w) /\ w[a + i].calls = {w[(a + i) + k].of : k \in 1..n} \ {0}
    BY <1>3, <1>4, <1>5 DEF WholeTo
  <2>2. i + n <= Len(s) BY <1>2, <2>1
  <2>3. \A k \in 1..n : s[i + k] = w[(a + i) + k]
    <3>1. \A k \in 1..n : i + k \in 1..Len(s) /\ a + (i + k) = (a + i) + k BY <2>2
    <3> QED BY <1>2, <3>1
  <2> QED BY <1>3, <2>1, <2>2, <2>3
<1>6. ASSUME s[i].by = "tool" PROVE \E j \in 1..(i - 1) : s[i].of \in s[j].calls
  <2>1. PICK j \in (a + 1)..(a + i - 1) : w[a + i].of \in w[j].calls BY <1>3, <1>6 DEF WholeTo
  <2>2. j - a \in 1..(i - 1) /\ j - a \in 1..Len(s) /\ a + (j - a) = j BY <2>1, <1>2
  <2>3. s[j - a] = w[j] BY <1>2, <2>2
  <2> QED BY <1>3, <2>1, <2>2, <2>3
<1> QED BY <1>3, <1>4, <1>5, <1>6

LEMMA MessagesAre ==
  /\ Task \in Messages
  /\ \A calls \in CallSets : AnswerWith(calls) \in Messages
  /\ \A c \in Nat : Result(c) \in Messages
<1>1. {} \in CallSets BY FS_EmptySet DEF CallSets
<1> QED BY <1>1 DEF Task, AnswerWith, Result, Messages

LEMMA NothingIsUnderWay ==
  ASSUME NEW w, NEW base, NEW done
  PROVE  UnderWay(w, base, NoReply, done) <=> base <= Len(w) /\ WholeTo(w, base, Len(w))
BY DEF UnderWay

LEMMA UserGoesOn ==
  ASSUME NEW w \in Seq(Messages), NEW base \in Nat, base <= Len(w), WholeTo(w, base, Len(w)), NEW done
  PROVE  UnderWay(Append(w, Task), base, NoReply, done)
<1>1. PICK v : v = Append(w, Task) OBVIOUS
<1>2. /\ v \in Seq(Messages) /\ Len(v) = Len(w) + 1 /\ v[Len(w) + 1] = Task
      /\ \A i \in 1..Len(w) : v[i] = w[i]
  BY <1>1, MessagesAre
<1>3. \A i \in (Len(w) + 1)..Len(v) : v[i].by = "user" BY <1>2 DEF Task
<1>4. PICK b \in Nat, c \in Nat : b = Len(w) /\ c = Len(v) BY <1>2
<1>5. WholeTo(w, base, b) /\ b <= Len(w) /\ b <= c /\ c <= Len(v) BY <1>2, <1>4
<1>6. (\A i \in 1..b : v[i] = w[i]) /\ \A i \in (b + 1)..c : v[i].by = "user" BY <1>2, <1>3, <1>4
<1>7. WholeTo(v, base, c) BY <1>2, <1>5, <1>6, WholeAgrees
<1>8. WholeTo(v, base, Len(v)) BY <1>4, <1>7
<1>9. base <= Len(v) BY <1>2
<1> QED BY <1>1, <1>8, <1>9, NothingIsUnderWay

LEMMA AnswerGoesOn ==
  ASSUME NEW w \in Seq(Messages), NEW base \in Nat, base <= Len(w), WholeTo(w, base, Len(w)),
         NEW calls \in CallSets
  PROVE  UnderWay(Append(w, AnswerWith(calls)), base, calls, {}) /\ calls # NoReply
<1>1. PICK v : v = Append(w, AnswerWith(calls)) OBVIOUS
<1>2. PICK p \in Nat : p = Len(w) + 1 OBVIOUS
<1>3. /\ v \in Seq(Messages) /\ Len(v) = p /\ v[p] = AnswerWith(calls)
      /\ \A i \in 1..Len(w) : v[i] = w[i]
  BY <1>1, <1>2, MessagesAre
<1>4. WholeTo(v, base, p - 1)
  <2>1. Len(w) \in Nat /\ p - 1 = Len(w) /\ Len(w) <= Len(v) BY <1>2, <1>3
  <2>2. \A i \in (Len(w) + 1)..Len(w) : v[i].by = "user" OBVIOUS
  <2>3. WholeTo(v, base, Len(w)) BY <1>3, <2>1, <2>2, WholeAgrees
  <2> QED BY <2>1, <2>3
<1>5. BatchAt(v, p, calls, {})
  <2>1. Cardinality({}) = 0 BY FS_EmptySet
  <2> QED BY <1>2, <1>3, <2>1 DEF BatchAt
<1>6. p \in (base + 1)..Len(v) /\ base <= Len(v) BY <1>2, <1>3
<1>7. calls # NoReply BY DEF CallSets, NoReply
<1>8. UnderWay(v, base, calls, {}) BY <1>4, <1>5, <1>6, <1>7 DEF UnderWay
<1> QED BY <1>1, <1>7, <1>8

LEMMA ResultGoesOn ==
  ASSUME NEW w \in Seq(Messages), NEW base \in Nat, NEW calls, NEW done, NEW c \in calls \ done,
         UnderWay(w, base, calls, done), calls # NoReply
  PROVE  UnderWay(Append(w, Result(c)), base, calls, done \cup {c}) /\ c \in Nat
<1>1. PICK p \in (base + 1)..Len(w) : WholeTo(w, base, p - 1) /\ BatchAt(w, p, calls, done)
  BY DEF UnderWay
<1>2. c \in Nat BY <1>1 DEF BatchAt, CallSets
<1>3. PICK v : v = Append(w, Result(c)) OBVIOUS
<1>4. /\ v \in Seq(Messages) /\ Len(v) = Len(w) + 1 /\ \A i \in 1..Len(w) : v[i] = w[i]
  BY <1>2, <1>3, MessagesAre
<1>5. BatchAt(v, p, calls, done \cup {c}) BY <1>1, <1>3, BatchGrows
<1>6. WholeTo(v, base, p - 1)
  <2>1. PICK b \in Nat : b = p - 1 OBVIOUS
  <2>2. WholeTo(w, base, b) /\ b <= Len(w) /\ b <= b /\ b <= Len(v) BY <1>1, <1>4, <2>1
  <2>3. (\A i \in 1..b : v[i] = w[i]) /\ \A i \in (b + 1)..b : v[i].by = "user"
    BY <1>1, <1>4, <2>1
  <2>4. WholeTo(v, base, b) BY <1>4, <2>2, <2>3, WholeAgrees
  <2> QED BY <2>1, <2>4
<1>7. p \in (base + 1)..Len(v) /\ base <= Len(v) BY <1>1, <1>4
<1>8. UnderWay(v, base, calls, done \cup {c}) BY <1>5, <1>6, <1>7 DEF UnderWay
<1> QED BY <1>2, <1>3, <1>8

LEMMA BatchCloses ==
  ASSUME NEW w \in Seq(Messages), NEW base \in Nat, NEW calls, NEW done, calls \ done = {},
         UnderWay(w, base, calls, done), calls # NoReply
  PROVE  base <= Len(w) /\ WholeTo(w, base, Len(w))
<1>1. PICK p \in (base + 1)..Len(w) : WholeTo(w, base, p - 1) /\ BatchAt(w, p, calls, done)
  BY DEF UnderWay
<1>2. done = calls BY <1>1 DEF BatchAt
<1> QED BY <1>1, <1>2, BatchIsOver DEF UnderWay

LEMMA LastIsAMessage ==
  ASSUME JournalTyped, QueryInv, query.at \in InBatch
  PROVE  Last(words) \in Messages
<1>1. UnderWay(words, query.base, query.reply, query.done) /\ query.reply # NoReply BY DEF QueryInv
<1>2. Len(words) > 0
  <2>1. \E p \in (query.base + 1)..Len(words) : TRUE BY <1>1 DEF UnderWay
  <2>2. query.base \in Nat BY DEF JournalTyped, Queries
  <2> QED BY <2>1, <2>2 DEF JournalTyped, Queries
<1> QED BY <1>2 DEF Last, JournalTyped, Queries

LEMMA BatchesAreBatches == ASSUME JournalTyped, NEW calls \in Batches PROVE calls \in CallSets
<1>1. used.replies \in Nat BY DEF JournalTyped, Queries
<1>2. PICK r \in Nat : r = 10 * used.replies BY <1>1
<1>3. PICK n \in Nat : calls = {r + i : i \in 1..n}
  <2>1. PICK n \in {0, MaxBatch} : calls = {10 * used.replies + i : i \in 1..n} BY DEF Batches
  <2>2. n \in Nat BY JournalAssumption
  <2> QED BY <1>2, <2>1, <2>2
<1>4. IsFiniteSet(0..(r + n)) BY FS_Interval
<1>5. ASSUME NEW c \in calls PROVE c \in 0..(r + n) BY <1>3
<1>6. calls \subseteq 0..(r + n) /\ IsFiniteSet(0..(r + n)) BY <1>4, <1>5
<1>7. IsFiniteSet(calls) BY <1>6, FS_Subset
<1>8. 0 \notin calls /\ calls \in SUBSET Nat BY <1>2, <1>3
<1> QED BY <1>7, <1>8 DEF CallSets

-----------------------------------------------------------------------------
(***************************************************************************)
(* The types.                                                              *)
(***************************************************************************)
LEMMA SaysIs ==
  ASSUME NEW f \in Seq(Records), NEW m \in Messages, NEW end \in Ends
  PROVE  /\ Append(f, Rec(m, end)) \in Seq(Records) /\ Rec(m, "line") \in Records
         /\ Append(f, Rec(m, "line")) \in Seq(Records)
BY DEF Rec, Records, Ends

LEMMA HeardIs ==
  ASSUME NEW f \in Seq(Records)
  PROVE  Heard(f) \in Seq(Messages) /\ Len(Heard(f)) = Len(f)
<1>1. \A i \in 1..Len(f) : f[i] \in Records OBVIOUS
<1>2. \A i \in 1..Len(f) : f[i].said \in Messages BY <1>1 DEF Records
<1> QED BY <1>2, IsASeq DEF Heard

LEMMA AnewIs ==
  ASSUME NEW w \in Seq(Messages)
  PROVE  [i \in 1..Len(w) |-> Rec(w[i], "line")] \in Seq(Records)
<1>1. \A i \in 1..Len(w) : Rec(w[i], "line") \in Records BY DEF Rec, Records, Ends
<1> QED BY <1>1, IsASeq
LEMMA SaveIs ==
  ASSUME NEW w \in Seq(Messages), NEW q \in Queries, Save(w, q)
  PROVE  kept' \in Kept
BY DEF Save, Kept, Queries

LEMMA StopIs ==
  ASSUME Stop
  PROVE  words' \in Seq(Messages) /\ query' \in Queries /\ query'.at = "idle"
BY DEF Stop, NoQueryRuns, NoReply, Queries

LEMMA GotoIs ==
  ASSUME query \in Queries, NEW p \in {"idle", "load"} \cup Closed \cup InBatch, Goto(p)
  PROVE  /\ query' \in Queries /\ query'.at = p
         /\ UNCHANGED <<query.base, query.reply, query.done>>
BY DEF Goto, Queries

\* The words and the journal after the step of a tool call and a batch.
LEMMA KeepResultIs ==
  ASSUME JournalTyped, NEW c \in Nat, KeepResult(c)
  PROVE  /\ query' \in Queries /\ query'.at = "result" /\ query'.done = query.done \cup {c}
         /\ UNCHANGED <<query.base, query.reply>>
         /\ words' = Append(words, Result(c)) /\ words' \in Seq(Messages)
         /\ kept' \in Kept /\ Save(words', query')
<1>1. query \in Queries /\ words \in Seq(Messages) BY DEF JournalTyped
<1>2. query' = [query EXCEPT !.done = @ \cup {c}, !.at = "result"] BY DEF KeepResult
<1>3. /\ query' \in Queries /\ query'.at = "result" /\ query'.done = query.done \cup {c}
      /\ UNCHANGED <<query.base, query.reply>>
  BY <1>1, <1>2 DEF Queries, InBatch
<1>4. words' = Append(words, Result(c)) /\ words' \in Seq(Messages)
  BY <1>1, MessagesAre DEF KeepResult
<1>5. Save(words', query') BY <1>2 DEF KeepResult
<1>6. kept' \in Kept BY <1>3, <1>4, <1>5 DEF Save, Kept, Queries
<1> QED BY <1>3, <1>4, <1>5, <1>6

LEMMA JournalTypes ==
  ASSUME JournalTyped, QueryInv, [JournalNext]_journalVars
  PROVE  JournalTyped'
<1> USE DEF Closed, InBatch
<1>1. /\ log \in Seq(Records) /\ receipts \in Seq(Receipts) /\ words \in Seq(Messages)
      /\ kept \in Kept /\ query \in Queries /\ paid \in SUBSET Nat /\ lost \in BOOLEAN
      /\ used \in [queries : Nat, replies : Nat, remarks : Nat, stops : Nat]
  BY DEF JournalTyped
<1>2. \A m \in Messages : Append(log, Rec(m, "line")) \in Seq(Records) BY <1>1, SaysIs DEF Ends
<1>3. NoReply \in SUBSET Nat /\ <<>> \in Seq(Messages) BY DEF NoReply
<1>4. CASE Submit
  <2>4. NoQuery \in Kept BY <1>3 DEF NoQuery, Kept
  <2>1. kept' \in Kept BY <1>4, <2>4 DEF Submit, Begun, Kept
  <2>2. query' \in Queries BY <1>1, <1>4, GotoIs DEF Submit
  <2>3. used' \in [queries : Nat, replies : Nat, remarks : Nat, stops : Nat] BY <1>1, <1>4 DEF Submit
  <2> QED BY <1>1, <1>4, <2>1, <2>2, <2>3 DEF Submit, JournalTyped, journals, histories
<1>5. CASE ResumeQuery
  <2>1. query' \in Queries BY <1>1, <1>5, GotoIs DEF ResumeQuery
  <2> QED BY <1>1, <1>5, <2>1 DEF ResumeQuery, JournalTyped, journals, histories
<1>6. CASE LoadChat
  <2>1. CASE Stop /\ UNCHANGED log
    BY <1>1, <1>6, <2>1, StopIs DEF LoadChat, JournalTyped, histories
  <2>2. CASE /\ log' = Repaired(log) /\ kept.saved /\ words' = kept.words
             /\ query' = [at |-> IF kept.reply = NoReply THEN "turn" ELSE "tools",
                          base |-> kept.base, reply |-> kept.reply, done |-> kept.done]
    <3>1. log' \in Seq(Records) BY <1>1, <2>2, RepairedIs
    <3>2. words' \in Seq(Messages) /\ query' \in Queries BY <1>1, <2>2 DEF Kept, Queries
    <3> QED BY <1>1, <1>6, <3>1, <3>2 DEF LoadChat, JournalTyped, histories
  <2>3. CASE /\ log' = Repaired(log) /\ words' = Append(Heard(Repaired(log)), Task)
             /\ query' = [NoQueryRuns EXCEPT !.at = "task", !.base = Len(Repaired(log))]
    <3>1. log' \in Seq(Records) BY <1>1, <2>3, RepairedIs
    <3>2. words' \in Seq(Messages) BY <2>3, <3>1, HeardIs, MessagesAre
    <3>3. Len(Repaired(log)) \in Nat BY <2>3, <3>1
    <3>5. NoQueryRuns \in Queries BY <1>3 DEF NoQueryRuns, Queries
    <3>4. query' \in Queries BY <2>3, <3>3, <3>5 DEF Queries
    <3> QED BY <1>1, <1>6, <3>1, <3>2, <3>4 DEF LoadChat, JournalTyped, histories
  <2> QED BY <1>6, <2>1, <2>2, <2>3 DEF LoadChat
<1>7. CASE JournalTask
  <2>1. query' \in Queries BY <1>1, <1>7, GotoIs DEF JournalTask
  <2>2. log' \in Seq(Records) BY <1>2, <1>7, MessagesAre DEF JournalTask, Says
  <2> QED BY <1>1, <1>7, <2>1, <2>2 DEF JournalTask, JournalTyped, histories
<1>8. CASE Freeze
  <2>1. query' \in Queries BY <1>1, <1>8, GotoIs DEF Freeze
  <2>2. log' \in Seq(Records) BY <1>1, <1>8, AnewIs DEF Freeze
  <2>3. kept' \in Kept BY <1>1, <1>8, SaveIs DEF Freeze
  <2> QED BY <1>1, <1>8, <2>1, <2>2, <2>3 DEF Freeze, JournalTyped, histories
<1>9. CASE ModelAnswers
  <2>1. PICK calls \in Batches :
          /\ words' = Append(words, AnswerWith(calls))
          /\ query' = [query EXCEPT !.at = "answered", !.reply = calls, !.done = {}]
    BY <1>9 DEF ModelAnswers
  <2>2. calls \in CallSets BY BatchesAreBatches
  <2>3. words' \in Seq(Messages) BY <1>1, <2>1, <2>2, MessagesAre
  <2>4. query' \in Queries BY <1>1, <2>1, <2>2 DEF Queries, CallSets
  <2>5. used' \in [queries : Nat, replies : Nat, remarks : Nat, stops : Nat]
    <3>1. used' = [used EXCEPT !.replies = @ + 1] BY <1>9 DEF ModelAnswers
    <3>2. used.replies + 1 \in Nat BY <1>1
    <3> QED BY <1>1, <3>1, <3>2
  <2> QED BY <1>1, <1>9, <2>3, <2>4, <2>5 DEF ModelAnswers, JournalTyped, journals, histories
<1>10. CASE JournalAnswer
  <2>1. query' \in Queries BY <1>1, <1>10, GotoIs DEF JournalAnswer
  <2>2. log' \in Seq(Records) BY <1>2, <1>10, LastIsAMessage DEF JournalAnswer, Says, InQuery
  <2> QED BY <1>1, <1>10, <2>1, <2>2 DEF JournalAnswer, JournalTyped, histories
<1>11. CASE SaveAnswer
  <2>1. query' \in Queries BY <1>1, <1>11, GotoIs DEF SaveAnswer
  <2>2. kept' \in Kept BY <1>1, <1>11, SaveIs DEF SaveAnswer
  <2> QED BY <1>1, <1>11, <2>1, <2>2 DEF SaveAnswer, JournalTyped, journals, histories
<1>12. CASE BuyOne
  <2>1. NextCall \in Nat BY <1>12, NextCallIsOpen DEF BuyOne
  <2>2. receipts' \in Seq(Receipts) /\ paid' \in SUBSET Nat
    BY <1>1, <1>12, <2>1 DEF BuyOne, Says, Rec, Receipts, Ends
  <2> QED BY <1>1, <1>12, <2>2 DEF BuyOne, JournalTyped
<1>13. CASE Run
  <2>1. NextCall \in Nat /\ KeepResult(NextCall) BY <1>13, NextCallIsOpen DEF Run
  <2>2. query' \in Queries /\ words' \in Seq(Messages) /\ kept' \in Kept BY <2>1, KeepResultIs
  <2> QED BY <1>1, <1>13, <2>2 DEF Run, JournalTyped, journals, histories
<1>14. CASE JournalResult
  <2>1. query' \in Queries BY <1>1, <1>14, GotoIs DEF JournalResult
  <2>2. log' \in Seq(Records) BY <1>2, <1>14, LastIsAMessage DEF JournalResult, Says, InQuery
  <2> QED BY <1>1, <1>14, <2>1, <2>2 DEF JournalResult, JournalTyped, histories
<1>15. CASE TurnOver
  <2>2. query' = [query EXCEPT !.at = "turn", !.reply = NoReply, !.done = {}] BY <1>15 DEF TurnOver
  <2>1. query' \in Queries BY <1>1, <1>3, <2>2 DEF Queries
  <2> QED BY <1>1, <1>15, <2>1 DEF TurnOver, JournalTyped, journals, histories
<1>16. CASE Nudge
  <2>4. query' = [query EXCEPT !.at = "nudged", !.reply = NoReply, !.done = {}] BY <1>16 DEF Nudge
  <2>1. query' \in Queries BY <1>1, <1>3, <2>4 DEF Queries
  <2>2. words' \in Seq(Messages) BY <1>1, <1>16, MessagesAre DEF Nudge
  <2>3. used' \in [queries : Nat, replies : Nat, remarks : Nat, stops : Nat] BY <1>1, <1>16 DEF Nudge
  <2> QED BY <1>1, <1>16, <2>1, <2>2, <2>3 DEF Nudge, JournalTyped, journals, histories
<1>17. CASE JournalNudge
  <2>1. query' \in Queries BY <1>1, <1>17, GotoIs DEF JournalNudge
  <2>2. log' \in Seq(Records) BY <1>2, <1>17, MessagesAre DEF JournalNudge, Says
  <2> QED BY <1>1, <1>17, <2>1, <2>2 DEF JournalNudge, JournalTyped, histories
<1>18. CASE SaveNudge
  <2>1. query' \in Queries BY <1>1, <1>18, GotoIs DEF SaveNudge
  <2>2. kept' \in Kept BY <1>1, <1>18, SaveIs DEF SaveNudge
  <2> QED BY <1>1, <1>18, <2>1, <2>2 DEF SaveNudge, JournalTyped, journals, histories
<1>19. CASE End
  <2>1. kept' \in Kept BY <1>19 DEF End, NoQuery, NoReply, Kept
  <2> QED BY <1>1, <1>19, <2>1, StopIs DEF End, JournalTyped, journals, histories
<1>20. CASE Leave
  <2>1. used' \in [queries : Nat, replies : Nat, remarks : Nat, stops : Nat] BY <1>1, <1>20 DEF Leave
  <2> QED BY <1>1, <1>20, <2>1, StopIs DEF Leave, JournalTyped, journals, histories
<1>21. CASE Interrupt
  <2>1. used' \in [queries : Nat, replies : Nat, remarks : Nat, stops : Nat] BY <1>1, <1>21 DEF Interrupt
  <2>2. words' \in Seq(Messages) /\ query' \in Queries /\ UNCHANGED <<kept, paid>>
    BY <1>21, StopIs DEF Interrupt
  <2>3. CASE UNCHANGED <<journals, lost>> BY <1>1, <2>1, <2>2, <2>3 DEF JournalTyped, journals
  <2>4. ASSUME NEW end \in {"cut", "open"}, query.at \in {"task", "nudged", "answered", "result"},
               UNCHANGED receipts, log' = Append(log, Rec(Writing, end)), lost' = (lost \/ end = "open")
        PROVE  JournalTyped'
    <3>1. Writing \in Messages BY <2>4, MessagesAre, LastIsAMessage DEF Writing, InQuery
    <3>2. log' \in Seq(Records) BY <1>1, <2>4, <3>1, SaysIs DEF Ends
    <3>3. lost' \in BOOLEAN BY <2>4
    <3> QED BY <1>1, <2>1, <2>2, <2>4, <3>2, <3>3 DEF JournalTyped
  <2>5. ASSUME NEW end \in {"cut", "open"}, Open # {}, receipts' = Append(receipts, Rec(NextCall, end)),
               UNCHANGED <<log, lost>>
        PROVE  JournalTyped'
    <3>1. NextCall \in Nat BY <2>5, NextCallIsOpen
    <3>2. receipts' \in Seq(Receipts) BY <1>1, <2>5, <3>1 DEF Rec, Receipts, Ends
    <3> QED BY <1>1, <2>1, <2>2, <2>5, <3>2 DEF JournalTyped
  <2> QED BY <1>21, <2>3, <2>4, <2>5 DEF Interrupt
<1>22. CASE Clear BY <1>1, <1>22 DEF Clear, JournalTyped
<1>23. CASE UNCHANGED journalVars BY <1>1, <1>23 DEF journalVars, JournalTyped
<1> QED BY <1>4, <1>5, <1>6, <1>7, <1>8, <1>9, <1>10, <1>11, <1>12, <1>13, <1>14, <1>15, <1>16, <1>17,
           <1>18, <1>19, <1>20, <1>21, <1>22, <1>23 DEF JournalNext

-----------------------------------------------------------------------------
(***************************************************************************)
(* The query and its checkpoint.                                           *)
(***************************************************************************)
\* No query is under way after the step, and the checkpoint is as it was or of no loop.
LEMMA OutsideKeeps ==
  ASSUME QueryInv, query'.at \in {"idle", "load"}, kept' = kept \/ ~kept'.saved
  PROVE  QueryInv'
BY DEF QueryInv, Closed, InBatch

\* The query goes on with the same words, and keeps them or not.
LEMMA SameWordsKeep ==
  ASSUME QueryInv, UNCHANGED words, UNCHANGED <<query.base, query.reply, query.done>>,
         \/ query.at \in Closed /\ query'.at \in Closed
         \/ query.at \in InBatch /\ query'.at \in InBatch,
         kept' = kept \/ Save(words, query)
  PROVE  QueryInv'
<1>1. UnderWay(words, query.base, query.reply, query.done) BY DEF QueryInv
<1>2. CASE kept' = kept BY <1>1, <1>2 DEF QueryInv, Closed, InBatch
<1>3. CASE Save(words, query)
  <2>1. /\ kept'.words = words /\ kept'.base = query.base
        /\ kept'.reply = query.reply /\ kept'.done = query.done
    BY <1>3 DEF Save
  <2> QED BY <1>1, <2>1 DEF QueryInv, Closed, InBatch
<1> QED BY <1>2, <1>3

LEMMA LoadChatKeepsQuery == ASSUME JournalTyped, QueryInv, LoadChat PROVE QueryInv'
<1>1. log \in Seq(Records) /\ kept' = kept /\ kept \in Kept BY DEF JournalTyped, LoadChat
<1>2. CASE Stop BY <1>1, <1>2, StopIs, OutsideKeeps
<1>3. CASE /\ kept.saved /\ words' = kept.words
           /\ query' = [at |-> IF kept.reply = NoReply THEN "turn" ELSE "tools",
                        base |-> kept.base, reply |-> kept.reply, done |-> kept.done]
  BY <1>1, <1>3 DEF QueryInv, Closed, InBatch
<1>4. CASE /\ words' = Append(Heard(Repaired(log)), Task)
           /\ query' = [NoQueryRuns EXCEPT !.at = "task", !.base = Len(Repaired(log))]
  <2>1. PICK w \in Seq(Messages), n \in Nat : w = Heard(Repaired(log)) /\ n = Len(Repaired(log)) /\ n = Len(w)
    <3>1. Repaired(log) \in Seq(Records) BY <1>1, RepairedIs
    <3>2. Heard(Repaired(log)) \in Seq(Messages) /\ Len(Repaired(log)) \in Nat
          /\ Len(Heard(Repaired(log))) = Len(Repaired(log))
      BY <3>1, HeardIs
    <3> QED BY <3>2
  <2>2. WholeTo(w, n, Len(w)) BY <2>1 DEF WholeTo
  <2>3. UnderWay(Append(w, Task), n, NoReply, {}) BY <2>1, <2>2, UserGoesOn
  <2>4. query'.at = "task" /\ query'.base = n /\ query'.reply = NoReply /\ query'.done = {}
    BY <1>4, <2>1 DEF NoQueryRuns
  <2>5. words' = Append(w, Task) BY <1>4, <2>1
  <2>6. query'.at \in Closed /\ query'.at \notin InBatch BY <2>4 DEF Closed, InBatch
  <2> QED BY <1>1, <2>3, <2>4, <2>5, <2>6 DEF QueryInv
<1> QED BY <1>2, <1>3, <1>4 DEF LoadChat

LEMMA ModelAnswersKeepsQuery == ASSUME JournalTyped, QueryInv, ModelAnswers PROVE QueryInv'
<1>1. PICK calls \in Batches :
        /\ words' = Append(words, AnswerWith(calls))
        /\ query' = [query EXCEPT !.at = "answered", !.reply = calls, !.done = {}]
  BY DEF ModelAnswers
<1>2. calls \in CallSets BY BatchesAreBatches
<1>3. words \in Seq(Messages) /\ query \in Queries /\ query.base \in Nat BY DEF JournalTyped, Queries
<1>4. query.base <= Len(words) /\ WholeTo(words, query.base, Len(words))
  <2>1. query.at \in Closed BY DEF ModelAnswers, InQuery, Closed
  <2> QED BY <2>1, NothingIsUnderWay DEF QueryInv
<1>5. UnderWay(Append(words, AnswerWith(calls)), query.base, calls, {}) /\ calls # NoReply
  BY <1>2, <1>3, <1>4, AnswerGoesOn
<1>6. query'.at = "answered" /\ query'.base = query.base /\ query'.reply = calls /\ query'.done = {}
  BY <1>1, <1>3 DEF Queries
<1>7. query'.at \in InBatch /\ query'.at \notin Closed BY <1>6 DEF InBatch, Closed
<1>8. kept' = kept BY DEF ModelAnswers
<1> QED BY <1>1, <1>5, <1>6, <1>7, <1>8 DEF QueryInv

LEMMA RunKeepsQuery == ASSUME JournalTyped, QueryInv, Run PROVE QueryInv'
<1>1. PICK c \in Open : c = NextCall /\ c \in Nat BY NextCallIsOpen DEF Run
<1>2. /\ query' \in Queries /\ query'.at = "result" /\ query'.done = query.done \cup {c}
      /\ UNCHANGED <<query.base, query.reply>>
      /\ words' = Append(words, Result(c)) /\ Save(words', query')
  <2>1. KeepResult(NextCall) /\ NextCall \in Nat BY <1>1 DEF Run
  <2> QED BY <1>1, <2>1, KeepResultIs
<1>3. words \in Seq(Messages) /\ query.base \in Nat BY DEF JournalTyped, Queries
<1>4. query.at \in InBatch BY DEF Run, InQuery, InBatch
<1>5. UnderWay(words, query.base, query.reply, query.done) /\ query.reply # NoReply
  BY <1>4 DEF QueryInv
<1>6. UnderWay(Append(words, Result(c)), query.base, query.reply, query.done \cup {c})
  BY <1>1, <1>3, <1>5, ResultGoesOn DEF Open
<1>7. query'.at \in InBatch /\ query'.at \notin Closed BY <1>2 DEF InBatch, Closed
<1>8. UnderWay(words', query'.base, query'.reply, query'.done) BY <1>2, <1>6
<1>9. /\ kept'.words = words' /\ kept'.base = query'.base
      /\ kept'.reply = query'.reply /\ kept'.done = query'.done
  BY <1>2 DEF Save
<1> QED BY <1>2, <1>5, <1>7, <1>8, <1>9 DEF QueryInv

LEMMA BatchEndsKeepsQuery == ASSUME JournalTyped, QueryInv, TurnOver \/ Nudge PROVE QueryInv'
<1>1. query.at \in InBatch /\ Open = {} /\ kept' = kept BY DEF TurnOver, Nudge, InQuery, InBatch
<1>2. UnderWay(words, query.base, query.reply, query.done) /\ query.reply # NoReply
  BY <1>1 DEF QueryInv
<1>3. query.base <= Len(words) /\ WholeTo(words, query.base, Len(words))
  <2>1. words \in Seq(Messages) /\ query.base \in Nat BY DEF JournalTyped, Queries
  <2> QED BY <1>1, <1>2, <2>1, BatchCloses DEF Open
<1>4. query \in Queries /\ query.base \in Nat /\ words \in Seq(Messages) BY DEF JournalTyped, Queries
<1>5. CASE TurnOver
  <2>1. query'.at = "turn" /\ query'.base = query.base /\ query'.reply = NoReply /\ words' = words
    BY <1>4, <1>5 DEF TurnOver, Queries
  <2>2. UnderWay(words', query'.base, query'.reply, query'.done) BY <1>3, <2>1, NothingIsUnderWay
  <2>3. query'.at \in Closed /\ query'.at \notin InBatch BY <2>1 DEF Closed, InBatch
  <2> QED BY <1>1, <2>1, <2>2, <2>3 DEF QueryInv
<1>6. CASE Nudge
  <2>1. /\ query'.at = "nudged" /\ query'.base = query.base /\ query'.reply = NoReply
        /\ query'.done = {} /\ words' = Append(words, Task)
    BY <1>4, <1>6 DEF Nudge, Queries
  <2>2. UnderWay(Append(words, Task), query.base, NoReply, {}) BY <1>3, <1>4, UserGoesOn
  <2>3. query'.at \in Closed /\ query'.at \notin InBatch BY <2>1 DEF Closed, InBatch
  <2> QED BY <1>1, <2>1, <2>2, <2>3 DEF QueryInv
<1> QED BY <1>5, <1>6

LEMMA QueryKeeps ==
  ASSUME JournalTyped, QueryInv, [JournalNext]_journalVars
  PROVE  QueryInv'
<1>1. query \in Queries BY DEF JournalTyped
<1>2. CASE Submit
  <2>1. query'.at = "load" BY <1>1, <1>2, GotoIs DEF Submit
  <2>2. ~kept'.saved BY <1>2 DEF Submit, Begun, NoQuery
  <2> QED BY <2>1, <2>2, OutsideKeeps
<1>3. CASE ResumeQuery BY <1>1, <1>3, GotoIs, OutsideKeeps DEF ResumeQuery
<1>4. CASE Leave \/ Interrupt BY <1>4, StopIs, OutsideKeeps DEF Leave, Interrupt
<1>5. CASE End
  <2>1. ~kept'.saved BY <1>5 DEF End, NoQuery
  <2> QED BY <1>5, <2>1, StopIs, OutsideKeeps DEF End
<1>6. CASE Clear BY <1>6, OutsideKeeps DEF Clear, InQuery
<1>7. CASE JournalTask \/ JournalNudge
  <2>1. UNCHANGED <<query.base, query.reply, query.done>> /\ query'.at \in Closed /\ query.at \in Closed
    BY <1>1, <1>7, GotoIs DEF JournalTask, JournalNudge, InQuery, Closed
  <2> QED BY <1>7, <2>1, SameWordsKeep DEF JournalTask, JournalNudge
<1>8. CASE JournalAnswer \/ JournalResult
  <2>1. UNCHANGED <<query.base, query.reply, query.done>> /\ query'.at \in InBatch /\ query.at \in InBatch
    BY <1>1, <1>8, GotoIs DEF JournalAnswer, JournalResult, InQuery, InBatch
  <2> QED BY <1>8, <2>1, SameWordsKeep DEF JournalAnswer, JournalResult
<1>9. CASE Freeze \/ SaveNudge
  <2>1. UNCHANGED <<query.base, query.reply, query.done>> /\ query'.at \in Closed /\ query.at \in Closed
    BY <1>1, <1>9, GotoIs DEF Freeze, SaveNudge, InQuery, Closed
  <2> QED BY <1>9, <2>1, SameWordsKeep DEF Freeze, SaveNudge
<1>10. CASE SaveAnswer
  <2>1. UNCHANGED <<query.base, query.reply, query.done>> /\ query'.at \in InBatch /\ query.at \in InBatch
    BY <1>1, <1>10, GotoIs DEF SaveAnswer, InQuery, InBatch
  <2> QED BY <1>10, <2>1, SameWordsKeep DEF SaveAnswer
<1>11. CASE BuyOne \/ UNCHANGED journalVars BY <1>11 DEF BuyOne, journalVars, QueryInv
<1> QED BY <1>2, <1>3, <1>4, <1>5, <1>6, <1>7, <1>8, <1>9, <1>10, <1>11, LoadChatKeepsQuery,
           ModelAnswersKeepsQuery, RunKeepsQuery, BatchEndsKeepsQuery DEF JournalNext

-----------------------------------------------------------------------------
(***************************************************************************)
(* The journal and the receipts.                                           *)
(***************************************************************************)
LEMMA LineEnds ==
  ASSUME NEW f \in Seq(Records), NEW m \in Messages, NEW end \in Ends, AllEnd(f)
  PROVE  /\ AllEnd(Append(f, Rec(m, "line")))
         /\ end # "open" => OnlyTheLastIsCut(Append(f, Rec(m, end)))
<1>1. \A e \in Ends : Rec(m, e) \in Records /\ Rec(m, e).end = e BY DEF Rec, Records
<1>2. ASSUME NEW e \in Ends
      PROVE  /\ Len(Append(f, Rec(m, e))) = Len(f) + 1 /\ Append(f, Rec(m, e))[Len(f) + 1].end = e
             /\ \A i \in 1..Len(f) : Append(f, Rec(m, e))[i].end = "line"
  BY <1>1 DEF AllEnd
<1>3. AllEnd(Append(f, Rec(m, "line"))) BY <1>2 DEF AllEnd, Ends
<1>4. end # "open" => OnlyTheLastIsCut(Append(f, Rec(m, end))) BY <1>2 DEF OnlyTheLastIsCut, Ends
<1> QED BY <1>3, <1>4

LEMMA AllEndIsMore == ASSUME NEW f, AllEnd(f) PROVE OnlyTheLastIsCut(f)
BY DEF AllEnd, OnlyTheLastIsCut

LEMMA LogKeeps ==
  ASSUME JournalTyped, QueryInv, LogInv, [JournalNext]_journalVars
  PROVE  LogInv'
<1> USE DEF Closed, InBatch
<1>1. log \in Seq(Records) /\ words \in Seq(Messages) /\ query \in Queries /\ lost \in BOOLEAN
  BY DEF JournalTyped
<1>2. ASSUME AllEnd(log'), UNCHANGED lost PROVE LogInv' BY <1>2, AllEndIsMore DEF LogInv
<1>3. ASSUME UNCHANGED <<log, lost>>, query'.at \in {"idle", "load"} \/ query.at \in Closed \cup InBatch
      PROVE  LogInv'
  BY <1>3 DEF LogInv
<1>4. ASSUME NEW m \in Messages, log' = Says(log, m), query.at \in Closed \cup InBatch, UNCHANGED lost
      PROVE  LogInv'
  <2>1. ~lost => AllEnd(log') BY <1>1, <1>4, LineEnds DEF LogInv, Says, Ends
  <2> QED BY <1>4, <2>1, AllEndIsMore DEF LogInv
<1>5. CASE Submit \/ ResumeQuery BY <1>1, <1>3, <1>5, GotoIs DEF Submit, ResumeQuery, journals, histories
<1>6. CASE LoadChat
  <2>1. UNCHANGED lost BY <1>6 DEF LoadChat, histories
  <2>2. CASE Stop /\ UNCHANGED log BY <1>3, <2>1, <2>2, StopIs
  <2>3. CASE log' = Repaired(log)
    <3>1. ~lost => AllEnd(log') BY <1>1, <2>3, CutEndsAreRepaired DEF LogInv
    <3> QED BY <2>1, <3>1, AllEndIsMore DEF LogInv
  <2> QED BY <1>6, <2>2, <2>3 DEF LoadChat
<1>7. CASE JournalTask \/ JournalNudge
  BY <1>4, <1>7, MessagesAre DEF JournalTask, JournalNudge, histories, InQuery
<1>8. CASE JournalAnswer \/ JournalResult
  BY <1>4, <1>8, LastIsAMessage DEF JournalAnswer, JournalResult, histories, InQuery
<1>9. CASE Freeze
  <2>1. UNCHANGED lost /\ query.at = "turn" BY <1>9 DEF Freeze, histories, InQuery
  <2>2. CASE log' = log BY <1>3, <2>1, <2>2
  <2>3. CASE log' = [i \in 1..Len(words) |-> Rec(words[i], "line")]
    <3>1. AllEnd(log') BY <1>1, <2>3 DEF AllEnd, Rec
    <3> QED BY <1>2, <2>1, <3>1
  <2> QED BY <1>9, <2>2, <2>3 DEF Freeze
<1>10. CASE ModelAnswers \/ SaveAnswer \/ Run \/ TurnOver \/ Nudge \/ SaveNudge
  <2>1. UNCHANGED <<log, lost>> /\ query.at \in Closed \cup InBatch
    BY <1>10 DEF ModelAnswers, SaveAnswer, Run, TurnOver, Nudge, SaveNudge, journals, histories, InQuery
  <2> QED BY <1>3, <2>1
<1>11. CASE End \/ Leave BY <1>3, <1>11, StopIs DEF End, Leave, journals, histories
<1>12. CASE Interrupt
  <2>1. query'.at = "idle" BY <1>12, StopIs DEF Interrupt
  <2>2. CASE UNCHANGED <<log, lost>> BY <1>3, <2>1, <2>2
  <2>3. ASSUME NEW end \in {"cut", "open"}, query.at \in {"task", "nudged", "answered", "result"},
               log' = Append(log, Rec(Writing, end)), lost' = (lost \/ end = "open")
        PROVE  LogInv'
    <3>1. Writing \in Messages BY <2>3, MessagesAre, LastIsAMessage DEF Writing, InQuery
    <3>2. ~lost' => AllEnd(log) /\ end = "cut" BY <2>3 DEF LogInv
    <3>3. ~lost' => OnlyTheLastIsCut(log') BY <1>1, <2>3, <3>1, <3>2, LineEnds DEF Ends
    <3> QED BY <2>1, <3>3 DEF LogInv
  <2> QED BY <1>12, <2>2, <2>3 DEF Interrupt, journals
<1>13. CASE Clear
  <2>1. AllEnd(log') BY <1>13 DEF Clear, AllEnd
  <2> QED BY <1>2, <1>13, <2>1 DEF Clear
<1>14. CASE BuyOne \/ UNCHANGED journalVars BY <1>14 DEF BuyOne, journalVars, LogInv
<1> QED BY <1>5, <1>6, <1>7, <1>8, <1>9, <1>10, <1>11, <1>12, <1>13, <1>14 DEF JournalNext

LEMMA ReceiptsKeep ==
  ASSUME JournalTyped, ReceiptsInv, [JournalNext]_journalVars
  PROVE  ReceiptsInv'
<1>1. receipts \in Seq(Receipts) BY DEF JournalTyped
<1>2. CASE UNCHANGED <<receipts, paid>> BY <1>2 DEF ReceiptsInv
<1>3. ASSUME NEW r, r \in Receipts, receipts' = Append(receipts, r),
             \A c \in paid' : c \in paid \/ (r.said = c /\ r.end = "line")
      PROVE  ReceiptsInv'
  <2>1. /\ Len(receipts') = Len(receipts) + 1 /\ receipts'[Len(receipts')] = r
        /\ \A i \in 1..Len(receipts) : receipts'[i] = receipts[i]
    BY <1>1, <1>3
  <2>2. ASSUME NEW c \in paid'
        PROVE  \E i \in 1..Len(receipts') : receipts'[i].said = c /\ receipts'[i].end = "line"
    <3>1. CASE c \in paid
      <4>1. PICK i \in 1..Len(receipts) : receipts[i].said = c /\ receipts[i].end = "line"
        BY <3>1 DEF ReceiptsInv
      <4> QED BY <1>1, <2>1, <4>1
    <3>2. CASE r.said = c /\ r.end = "line" BY <1>1, <2>1, <3>2
    <3> QED BY <1>3, <3>1, <3>2
  <2> QED BY <2>2 DEF ReceiptsInv
<1>4. CASE BuyOne
  <2>1. NextCall \in Nat BY <1>4, NextCallIsOpen DEF BuyOne
  <2>2. PICK r : r = Rec(NextCall, "line") OBVIOUS
  <2>3. r \in Receipts /\ r.said = NextCall /\ r.end = "line" BY <2>1, <2>2 DEF Rec, Receipts, Ends
  <2> QED BY <1>3, <1>4, <2>2, <2>3 DEF BuyOne, Says
<1>5. CASE Interrupt
  <2>1. UNCHANGED paid BY <1>5 DEF Interrupt
  <2>2. ASSUME NEW end \in {"cut", "open"}, Open # {}, receipts' = Append(receipts, Rec(NextCall, end))
        PROVE  ReceiptsInv'
    <3>1. NextCall \in Nat BY <2>2, NextCallIsOpen
    <3>2. Rec(NextCall, end) \in Receipts BY <3>1 DEF Rec, Receipts, Ends
    <3> QED BY <1>3, <2>1, <2>2, <3>2
  <2> QED BY <1>2, <1>5, <2>1, <2>2 DEF Interrupt, journals
<1>6. CASE Submit \/ ResumeQuery \/ LoadChat \/ JournalTask \/ Freeze \/ ModelAnswers \/ JournalAnswer
  BY <1>2, <1>6 DEF Submit, ResumeQuery, LoadChat, JournalTask, Freeze, ModelAnswers, JournalAnswer,
                    journals, histories
<1>7. CASE SaveAnswer \/ Run \/ JournalResult \/ TurnOver \/ Nudge \/ JournalNudge \/ SaveNudge
  BY <1>2, <1>7 DEF SaveAnswer, Run, JournalResult, TurnOver, Nudge, JournalNudge, SaveNudge,
                    journals, histories
<1>8. CASE End \/ Leave \/ Clear \/ UNCHANGED journalVars
  BY <1>2, <1>8 DEF End, Leave, Clear, journalVars, journals, histories
<1> QED BY <1>4, <1>5, <1>6, <1>7, <1>8 DEF JournalNext

LEMMA JournalStarts == JournalInit => JournalInv
<1> SUFFICES ASSUME JournalInit PROVE JournalInv OBVIOUS
<1>1. <<>> \in Seq(Messages) /\ <<>> \in Seq(Records) /\ <<>> \in Seq(Receipts) /\ NoReply \in SUBSET Nat
  BY DEF NoReply
<1>2. kept \in Kept /\ query \in Queries /\ query.at = "idle" /\ ~kept.saved
  BY <1>1 DEF JournalInit, NoQuery, NoQueryRuns, Kept, Queries
<1>3. used \in [queries : Nat, replies : Nat, remarks : Nat, stops : Nat] BY DEF JournalInit
<1>4. JournalTyped BY <1>1, <1>2, <1>3 DEF JournalInit, JournalTyped
<1>5. OnlyTheLastIsCut(log) /\ Len(log) = 0 BY DEF JournalInit, OnlyTheLastIsCut
<1> QED BY <1>2, <1>4, <1>5 DEF JournalInit, JournalInv, QueryInv, LogInv, ReceiptsInv, Closed, InBatch

LEMMA JournalKeeps == JournalInv /\ [JournalNext]_journalVars => JournalInv'
BY JournalTypes, QueryKeeps, LogKeeps, ReceiptsKeep DEF JournalInv

\* What a query adds to the request is whole whenever the model is asked: each answer's calls
\* have their results right behind it, however often the query died and was resumed
\* (agent-runtime/src/index.ts:1022).
THEOREM RequestsAreWhole == JournalSpec => []RunIsWhole
<1>1. JournalInv => RunIsWhole
  <2> SUFFICES ASSUME JournalInv, InQuery("ask") PROVE Whole(SubSeq(words, query.base + 1, Len(words)))
    BY DEF RunIsWhole
  <2>1. query.at \in Closed BY DEF InQuery, Closed
  <2>2. query.base <= Len(words) /\ WholeTo(words, query.base, Len(words))
    BY <2>1, NothingIsUnderWay DEF JournalInv, QueryInv
  <2>3. words \in Seq(Messages) /\ query.base \in Nat BY DEF JournalInv, JournalTyped, Queries
  <2> QED BY <2>2, <2>3, SubSeqIsWhole
<1> QED BY <1>1, JournalStarts, JournalKeeps, PTL DEF JournalSpec

\* A journal whose appends were cut off, any number of times, can be read, unless one was cut
\* exactly before its line end (core/src/conversation.ts).
THEOREM JournalsAreReadable == JournalSpec => []ReadableUnlessEndLost
<1>1. JournalInv => ReadableUnlessEndLost
  BY CutEndsAreRepaired DEF JournalInv, JournalTyped, LogInv, ReadableUnlessEndLost
<1> QED BY <1>1, JournalStarts, JournalKeeps, PTL DEF JournalSpec

\* A receipt that was written is listed, or stands right behind one that was cut off
\* (economy/src/purchases.ts).
THEOREM ReceiptsStayListed == JournalSpec => []ReceiptsAreListed
<1>1. JournalInv => ReceiptsAreListed
  <2> SUFFICES ASSUME JournalInv, NEW c \in paid \ Listed(receipts)
               PROVE  \E i \in 2..Len(receipts) : receipts[i].said = c /\ receipts[i - 1].end # "line"
    BY DEF ReceiptsAreListed
  <2>1. PICK i \in 1..Len(receipts) : receipts[i].said = c /\ receipts[i].end = "line"
    BY DEF JournalInv, ReceiptsInv
  <2>2. ~Parses(receipts, i) BY <2>1 DEF Listed
  <2>3. i # 1 /\ receipts[i - 1].end # "line" BY <2>1, <2>2 DEF Parses, StartsLine, EndsLine
  <2>4. i \in 2..Len(receipts) BY <2>1, <2>3
  <2> QED BY <2>1, <2>3, <2>4
<1> QED BY <1>1, JournalStarts, JournalKeeps, PTL DEF JournalSpec

-----------------------------------------------------------------------------
(***************************************************************************)
(* The search.  While the sweep's budget is not spent, every candidate it  *)
(* has passed that would have answered in time is found: a probe that got  *)
(* less than its time ends where the budget ends.                          *)
(***************************************************************************)
SearchSpec == SearchInit /\ [][SearchNext]_searchVars

SearchTyped ==
  /\ listed \in Seq(Listings)
  /\ elapsed \in Nat /\ expires \in Nat /\ next \in Nat \ {0}
  /\ found \subseteq 1..Len(listed)
SweepIsNew   == searching \in {"catalog", "rank", "origin"} => next = 1 /\ found = {}
PassedAreFound ==
  searching \in Sweeping /\ elapsed < expires =>
    \A i \in 1..Len(listed) : i < next /\ WouldAnswer(listed[i]) => i \in found
SearchInv == SearchTyped /\ SweepIsNew /\ PassedAreFound /\ NoSilentGap

LEMMA InspectTakes ==
  ASSUME NEW c \in Listings, expires \in Nat, NEW at \in Nat, NEW method
  PROVE  /\ Inspects(c, method, at).takes \in 0..ProbeWait
         /\ Inspects(c, method, at).ok \in BOOLEAN
         /\ at < expires /\ c.time < Patience(c) /\ c.knows = method =>
              \/ Inspects(c, method, at).ok
              \/ at + Inspects(c, method, at).takes >= expires
         /\ at < expires /\ c.time < Patience(c) /\ Inspects(c, method, at).thrown =>
              at + Inspects(c, method, at).takes >= expires
<1>1. c.time \in Nat /\ ProbeWait \in Nat \ {0} /\ AbortWait \in Nat \ {0} BY DiscoveryAssumption
<1>2. PICK wait : wait = Least(Patience(c), Left(at)) OBVIOUS
<1>10. Patience(c) \in 1..ProbeWait BY <1>1 DEF Patience, Least
<1>3. /\ wait \in 0..ProbeWait /\ (at < expires => wait > 0)
      /\ at < expires => wait = Patience(c) \/ at + wait = expires
  BY <1>1, <1>2, <1>10 DEF Least, Left
<1>4. PICK takes : takes = Least(c.time, wait) OBVIOUS
<1>5. takes \in 0..ProbeWait /\ takes <= wait /\ (c.time < wait => takes = c.time)
      /\ (~(c.time < wait) => takes = wait)
  BY <1>1, <1>3, <1>4 DEF Least
<1>6. Inspects(c, method, at).takes = takes BY <1>2, <1>4 DEF Inspects
<1>7. Inspects(c, method, at).ok <=> wait > 0 /\ c.time < wait /\ c.knows = method
  BY <1>2 DEF Inspects
<1>8. Inspects(c, method, at).ok \in BOOLEAN BY DEF Inspects
<1>9. at < expires /\ c.time < Patience(c) /\ ~(c.time < wait) => at + takes >= expires
  BY <1>1, <1>3, <1>5, <1>10
<1>11. Inspects(c, method, at).thrown => c.time >= wait BY <1>2 DEF Inspects
<1>12. Inspects(c, method, at).thrown => ~(c.time < wait) BY <1>1, <1>3, <1>11
<1> QED BY <1>3, <1>5, <1>6, <1>7, <1>8, <1>9, <1>12

\* A probe takes at most two waits, and one that the budget does not cut short finds
\* the service that would answer.
LEMMA ProbeReaches ==
  ASSUME NEW c \in Listings, elapsed \in Nat, expires \in Nat
  PROVE  /\ ProbeOf(c).takes \in 0..(ProbeWait + ProbeWait)
         /\ elapsed < expires /\ WouldAnswer(c) =>
              ProbeOf(c).ok \/ elapsed + ProbeOf(c).takes >= expires
<1>1. ProbeWait \in Nat \ {0} /\ c.time \in Nat
      /\ c.method \in {"POST", "GET", "unsaid"} /\ c.knows \in {"POST", "GET"}
  BY DiscoveryAssumption
<1>2. PICK m : m = IF c.method = "unsaid" THEN "POST" ELSE c.method OBVIOUS
<1>3. PICK first : first = Inspects(c, m, elapsed) OBVIOUS
<1>4. PICK later : later = elapsed + first.takes OBVIOUS
<1>5. PICK second : second = Inspects(c, "GET", later) OBVIOUS
<1>13. PICK inTime \in BOOLEAN : inTime <=> c.time < Patience(c) OBVIOUS
<1>6. /\ first.takes \in 0..ProbeWait
      /\ elapsed < expires /\ inTime /\ c.knows = m => first.ok \/ later >= expires
      /\ elapsed < expires /\ inTime /\ first.thrown => later >= expires
  BY <1>3, <1>4, <1>13, InspectTakes
<1>7. later \in Nat BY <1>1, <1>4, <1>6
<1>8. /\ second.takes \in 0..ProbeWait
      /\ later < expires /\ inTime /\ c.knows = "GET" =>
           second.ok \/ later + second.takes >= expires
  BY <1>5, <1>7, <1>13, InspectTakes
<1>9. ProbeOf(c) = IF first.ok \/ first.thrown \/ c.method # "unsaid"
                   THEN [takes |-> first.takes, ok |-> first.ok]
                   ELSE [takes |-> first.takes + second.takes, ok |-> second.ok]
  BY <1>2, <1>3, <1>4, <1>5 DEF ProbeOf
<1>10. WouldAnswer(c) => inTime /\ (c.knows = m \/ (c.method = "unsaid" /\ c.knows = "GET"))
  BY <1>1, <1>2, <1>13 DEF WouldAnswer
<1>11. CASE first.ok \/ first.thrown \/ c.method # "unsaid"
  <2>1. ProbeOf(c).takes = first.takes /\ ProbeOf(c).ok = first.ok BY <1>9, <1>11
  <2>2. ProbeOf(c).takes \in 0..(ProbeWait + ProbeWait) BY <1>1, <1>6, <2>1
  <2>3. elapsed + ProbeOf(c).takes = later BY <1>4, <2>1
  <2>4. ASSUME elapsed < expires, WouldAnswer(c) PROVE first.ok \/ later >= expires
    BY <1>2, <1>6, <1>10, <1>11, <2>4
  <2> QED BY <2>1, <2>2, <2>3, <2>4
<1>12. CASE ~(first.ok \/ first.thrown \/ c.method # "unsaid")
  <2>1. ProbeOf(c).takes = first.takes + second.takes /\ ProbeOf(c).ok = second.ok
    BY <1>9, <1>12
  <2>2. ProbeOf(c).takes \in 0..(ProbeWait + ProbeWait)
    BY <1>1, <1>6, <1>8, <2>1
  <2>3. later + second.takes = elapsed + ProbeOf(c).takes BY <1>4, <1>6, <1>8, <2>1
  <2>4. ASSUME elapsed < expires, WouldAnswer(c)
        PROVE  ProbeOf(c).ok \/ elapsed + ProbeOf(c).takes >= expires
    <3>1. CASE later >= expires BY <1>6, <1>7, <1>8, <2>3, <3>1
    <3>2. CASE later < expires
      <4>1. c.knows # m BY <1>6, <1>7, <1>10, <1>12, <2>4, <3>2
      <4> QED BY <1>8, <1>10, <2>1, <2>3, <2>4, <3>2, <4>1
    <3> QED BY <1>7, <3>1, <3>2
  <2> QED BY <2>2, <2>4
<1> QED BY <1>11, <1>12

\* The greatest of a nonempty set of numbers that are bounded.
LEMMA MaxIs ==
  ASSUME NEW n \in Nat, NEW S \in SUBSET (0..n), S # {}
  PROVE  Max(S) \in S /\ \A y \in S : Max(S) >= y
<1>1. PICK T : T = {m \in Nat : \A y \in S : y <= m} OBVIOUS
<1>2. n \in T BY <1>1
<1>3. T \in SUBSET Nat BY <1>1
<1>4. PICK m \in T : \A k \in T : m <= k BY <1>2, <1>3, LeastOf
<1>5. m \in Nat /\ \A y \in S : y <= m BY <1>1, <1>4
<1>6. m \in S
  <2> SUFFICES ASSUME m \notin S PROVE FALSE OBVIOUS
  <2>1. \A y \in S : y \in Nat /\ y < m BY <1>5
  <2>2. PICK any \in S : TRUE OBVIOUS
  <2>5. m > 0 BY <1>5, <2>1, <2>2
  <2>3. m - 1 \in Nat /\ \A y \in S : y <= m - 1 BY <1>5, <2>1, <2>5
  <2>4. m - 1 \in T BY <1>1, <2>3
  <2> QED BY <1>4, <1>5, <2>4
<1>7. \E x \in S : \A y \in S : x >= y BY <1>5, <1>6
<1> QED BY <1>7 DEF Max

LEMMA SearchStarts == SearchInit => SearchInv
<1> SUFFICES ASSUME SearchInit PROVE SearchInv OBVIOUS
<1>1. listed \in Seq(Listings) BY DiscoveryAssumption DEF SearchInit, SeqOf
<1> QED BY <1>1 DEF SearchInit, SearchInv, SearchTyped, SweepIsNew, PassedAreFound, Sweeping, NoSilentGap

\* The sweep goes on: what it finds answers, and what it passes without a budget that
\* ended is what could not answer.
LEMMA SweepKeeps == ASSUME SearchInv, Sweep PROVE SearchInv'
<1> USE DEF SearchInv, SearchTyped
<1>1. /\ listed' = listed /\ purse' = purse /\ expires' = expires /\ searching' = searching
      /\ next' = next + BatchSize /\ searching \in {"sweep", "probing"} /\ elapsed < expires
      /\ found' = found \cup {i \in Batch : ProbeOf(listed[i]).ok /\ Payable(listed[i])}
      /\ next <= Len(listed)
  BY DEF Sweep, Sweeping, MoreWanted, Expired
<1>2. BatchSize \in Nat \ {0} /\ ProbeWait \in Nat \ {0} BY DiscoveryAssumption
<1>3. PICK last : last = Least(next + BatchSize - 1, Len(listed)) OBVIOUS
<1>4. /\ last \in next..Len(listed)
      /\ \A i \in 1..Len(listed) : i < next + BatchSize => i <= last
  BY <1>1, <1>2, <1>3 DEF Least
<1>5. Batch = next..last BY <1>3 DEF Batch
<1>6. \A i \in 1..Len(listed) : listed[i] \in Listings OBVIOUS
<1>7. PICK spent : spent = {ProbeOf(listed[i]).takes : i \in Batch} OBVIOUS
<1>8. \A i \in Batch : i \in 1..Len(listed) /\ listed[i] \in Listings BY <1>1, <1>4, <1>5, <1>6
<1>9. spent \in SUBSET (0..(ProbeWait + ProbeWait)) BY <1>7, <1>8, ProbeReaches
<1>10. next \in Batch BY <1>4, <1>5
<1>11. spent # {} BY <1>7, <1>10
<1>12. ProbeWait + ProbeWait \in Nat BY <1>2
<1>13. Max(spent) \in spent /\ \A y \in spent : Max(spent) >= y BY <1>9, <1>11, <1>12, MaxIs
<1>14. PICK most : most = Max(spent) OBVIOUS
<1>15. most \in Nat /\ \A i \in Batch : ProbeOf(listed[i]).takes \in Nat /\ most >= ProbeOf(listed[i]).takes
  BY <1>7, <1>9, <1>12, <1>13, <1>14
<1>16. elapsed' = elapsed + most BY <1>7, <1>14 DEF Sweep
<1>17. SearchTyped'
  <2>1. found' \subseteq 1..Len(listed) BY <1>1, <1>8
  <2>2. elapsed' \in Nat /\ next' \in Nat \ {0} BY <1>1, <1>2, <1>15, <1>16
  <2> QED BY <1>1, <2>1, <2>2
<1>18. ASSUME elapsed' < expires', NEW i \in 1..Len(listed), i < next', WouldAnswer(listed[i])
       PROVE  i \in found'
  <2>1. CASE i < next
    <3>1. i \in found BY <1>1, <1>18, <2>1 DEF PassedAreFound, Sweeping
    <3> QED BY <1>1, <3>1
  <2>2. CASE ~(i < next)
    <3>1. i \in Batch BY <1>1, <1>4, <1>5, <1>18, <2>2
    <3>2. ProbeOf(listed[i]).takes \in Nat /\ elapsed + ProbeOf(listed[i]).takes < expires
      BY <1>1, <1>15, <1>16, <1>18, <3>1
    <3>3. ProbeOf(listed[i]).ok \/ elapsed + ProbeOf(listed[i]).takes >= expires
      BY <1>1, <1>6, <1>18, ProbeReaches
    <3>4. ProbeOf(listed[i]).ok BY <3>2, <3>3
    <3>5. Payable(listed[i]) BY <1>18 DEF WouldAnswer
    <3> QED BY <1>1, <3>1, <3>4, <3>5
  <2> QED BY <2>1, <2>2
<1>19. \A c : WouldAnswer(c)' <=> WouldAnswer(c)
  BY <1>1 DEF WouldAnswer, Payable, SelectOffer, Covered
<1>20. PassedAreFound' BY <1>1, <1>18, <1>19 DEF PassedAreFound, Sweeping
<1> QED BY <1>1, <1>17, <1>20 DEF SweepIsNew, NoSilentGap

\* The first of what was found, as many as were wanted: all of it, or as many.
LEMMA FirstOnes ==
  ASSUME NEW F \in SUBSET Nat, IsFiniteSet(F), NEW n \in Nat,
         Cardinality({i \in F : Cardinality({j \in F : j <= i}) <= n}) < n
  PROVE  {i \in F : Cardinality({j \in F : j <= i}) <= n} = F
<1>1. PICK T : T = {i \in F : Cardinality({j \in F : j <= i}) <= n} OBVIOUS
<1>2. T \subseteq F /\ Cardinality(T) < n BY <1>1
<1>3. IsFiniteSet(T) BY <1>2, FS_Subset
<1>4. ASSUME F \ T # {} PROVE FALSE
  <2>1. PICK G \in SUBSET Nat : G = F \ T OBVIOUS
  <2>2. PICK m \in G : \A k \in G : m <= k BY <1>4, <2>1, LeastOf
  <2>3. m \in F /\ m \notin T BY <2>1, <2>2
  <2>4. \A j \in F : j <= m => j \in T \cup {m} BY <2>1, <2>2
  <2>5. {j \in F : j <= m} \subseteq T \cup {m} BY <2>4
  <2>6. IsFiniteSet(T \cup {m}) /\ Cardinality(T \cup {m}) = Cardinality(T) + 1
    BY <1>3, <2>3, FS_AddElement
  <2>7. Cardinality({j \in F : j <= m}) <= Cardinality(T) + 1 BY <2>5, <2>6, FS_Subset
  <2>8. Cardinality(T) \in Nat BY <1>3, FS_CardinalityType
  <2>9. IsFiniteSet({j \in F : j <= m}) BY <2>5, <2>6, FS_Subset
  <2>10. Cardinality({j \in F : j <= m}) \in Nat BY <2>9, FS_CardinalityType
  <2>11. Cardinality({j \in F : j <= m}) <= n BY <1>2, <2>7, <2>8, <2>10
  <2> QED BY <1>1, <2>3, <2>11
<1> QED BY <1>1, <1>2, <1>4

LEMMA EndSweepKeeps == ASSUME SearchInv, EndSweep PROVE SearchInv'
<1> USE DEF SearchInv, SearchTyped
<1>1. /\ UNCHANGED <<listed, purse, elapsed, expires, next>> /\ searching \in Sweeping
      /\ (~MoreWanted \/ Expired) /\ searching' \in {"done", "listed"}
      /\ found' = {i \in found : Cardinality({j \in found : j <= i}) <= Limit}
  BY DEF EndSweep
<1>2. Wanted \in Nat \ {0} BY DiscoveryAssumption
<1>3. found' \subseteq 1..Len(listed) BY <1>1
<1>4. ASSUME searching' = "done", ~incomplete', Cardinality(found') < Wanted,
             NEW i \in 1..Len(listed), WouldAnswer(listed[i])
      PROVE  i \in found'
  <2>13. searching = "sweep" /\ incomplete' = CutShort /\ Limit = Wanted
    BY <1>4 DEF EndSweep, Limit
  <2>1. IsFiniteSet(1..Len(listed)) BY FS_Interval
  <2>10. found \subseteq 1..Len(listed) OBVIOUS
  <2>11. IsFiniteSet(found) BY <2>1, <2>10, FS_Subset
  <2>12. 1..Len(listed) \subseteq Nat OBVIOUS
  <2>2. IsFiniteSet(found) /\ found \in SUBSET Nat BY <2>10, <2>11, <2>12
  <2>3. Cardinality({k \in found : Cardinality({j \in found : j <= k}) <= Wanted}) < Wanted
    BY <1>1, <1>4, <2>13
  <2>4. found' = found BY <1>1, <1>2, <2>2, <2>3, <2>13, FirstOnes
  <2>5. Cardinality(found) < Wanted BY <1>4, <2>4
  <2>6. ~Expired BY <1>4, <2>5, <2>13 DEF CutShort
  <2>7. elapsed < expires BY <2>6 DEF Expired
  <2>8. ~(next <= Len(listed)) BY <1>1, <2>5, <2>6, <2>13 DEF MoreWanted
  <2>9. i < next BY <2>8
  <2> QED BY <1>1, <1>4, <2>4, <2>7, <2>9 DEF PassedAreFound
<1>5. \A c : WouldAnswer(c)' <=> WouldAnswer(c)
  BY <1>1 DEF WouldAnswer, Payable, SelectOffer, Covered
<1>6. NoSilentGap' BY <1>1, <1>4, <1>5 DEF NoSilentGap, WholeList
<1>7. SearchTyped' BY <1>1, <1>3
<1> QED BY <1>1, <1>6, <1>7 DEF SweepIsNew, PassedAreFound, Sweeping

LEMMA SearchKeeps == SearchInv /\ [SearchNext]_searchVars => SearchInv'
<1> SUFFICES ASSUME SearchInv, [SearchNext]_searchVars PROVE SearchInv' OBVIOUS
<1> USE DEF SearchInv, SearchTyped
<1>1. {CatalogWait, SweepWait} \subseteq Nat BY DiscoveryAssumption
<1>2. CASE Catalog
  BY <1>1, <1>2 DEF Catalog, SweepIsNew, PassedAreFound, Sweeping, NoSilentGap
<1>3. CASE RankThem
  <2>1. /\ searching = "rank" /\ searching' = "sweep" /\ next' = next /\ found' = found
        /\ elapsed' \in Nat /\ listed' \in {listed, Reverse(listed)}
        /\ expires' = elapsed' + SweepWait
    BY <1>1, <1>3 DEF RankThem
  <2>2. Reverse(listed) \in Seq(Listings) BY DEF Reverse
  <2>3. next = 1 /\ found = {} BY <2>1 DEF SweepIsNew
  <2>4. SearchTyped' BY <1>1, <2>1, <2>2, <2>3
  <2> QED BY <2>1, <2>3, <2>4 DEF SweepIsNew, PassedAreFound, NoSilentGap
<1>7. CASE Document
  <2>1. /\ searching = "origin" /\ searching' \in {"probing", "failed"}
        /\ UNCHANGED <<listed, elapsed, next, found>> /\ expires' \in Nat
    BY <1>1, <1>7 DEF Document
  <2>2. next = 1 /\ found = {} BY <2>1 DEF SweepIsNew
  <2> QED BY <2>1, <2>2 DEF SweepIsNew, PassedAreFound, NoSilentGap
<1>4. CASE Sweep BY <1>4, SweepKeeps
<1>5. CASE EndSweep BY <1>5, EndSweepKeeps
<1>6. CASE UNCHANGED searchVars
  <2>1. \A c : WouldAnswer(c)' <=> WouldAnswer(c)
    BY <1>6 DEF searchVars, WouldAnswer, Payable, SelectOffer, Covered
  <2> QED BY <1>6, <2>1 DEF searchVars, SweepIsNew, PassedAreFound, NoSilentGap, WholeList
<1> QED BY <1>2, <1>3, <1>4, <1>5, <1>6, <1>7 DEF SearchNext

\* A list the model is told is whole has every service that would have answered, or is
\* as long as was asked for, however slow the catalogs and the probes are.
THEOREM ListsAreWhole == SearchSpec => []NoSilentGap
<1>1. SearchInv => NoSilentGap BY DEF SearchInv
<1> QED BY <1>1, SearchStarts, SearchKeeps, PTL DEF SearchSpec
=============================================================================
