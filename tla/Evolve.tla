-------------------------------- MODULE Evolve --------------------------------
(***************************************************************************)
(* The evolution of knowledge trees (packages/evals/src/evolve.ts): each   *)
(* generation proposes trees, a suite of tasks scores each (suite.ts), and *)
(* trees on the Pareto frontier are the parents of the next generation.    *)
(* The archive is written after each step, in place; a process that starts *)
(* again goes on from it, or from nothing when it cannot be read.          *)
(*                                                                         *)
(* A tree is the set of proposals its files come from: writeTree does not  *)
(* remove the files of a tree that was in the directory before.            *)
(***************************************************************************)
EXTENDS Integers, Sequences, FiniteSets, FiniteSetsExt

CONSTANTS
  Generations,   \* options.generations
  PerGeneration,    \* options.candidatesPerGeneration
  EvalTasks,     \* held-in tasks
  Rows,          \* what a task may come to: score, cost in cents, and whether it was an error
  MaxRestarts    \* bound: evolutions begun after the first

ASSUME EvolveAssumption ==
  /\ Generations \in Nat /\ PerGeneration \in Nat \ {0} /\ MaxRestarts \in Nat
  /\ \A row \in Rows : row.error => row.score = 0

VARIABLES
  archive,   \* in memory
  disk,      \* archive.json
  dirs,      \* trees/<id>: from which proposals its files come
  slot,      \* generation and index of the candidate at hand
  stage,      \* where the run is
  winner,    \* BEST
  proposals, \* proposals so far
  restarts   \* evolutions begun after the first
evolveVars == <<archive, disk, dirs, slot, stage, winner, proposals, restarts>>

Slots == (0..Generations) \X (0..(PerGeneration - 1))
\* The model is a function of the slot, so the slot stands for the identifier.
IndexOnly(s) == <<0, s[2]>>
EntryId(s)   == s
Baseline == <<-1, 0>>
NoScore  == [score |-> -1, cost |-> 0]

\* of: the tree that was scored; run: history, the evolution that pushed the entry.
Entry(id, hasDir) == [id |-> id, dir |-> hasDir, metrics |-> NoScore, of |-> {}, run |-> restarts]
EvolveInit ==
  /\ archive = <<>> /\ disk = <<>> /\ dirs = [s \in Slots |-> {}]
  /\ slot = <<0, 0>> /\ stage = "baseline" /\ winner = Baseline /\ proposals = 0 /\ restarts = 0

-----------------------------------------------------------------------------
(***************************************************************************)
(* Scores, parents, the best.                                              *)
(***************************************************************************)
MetricsOfRows(rows) == [score |-> MapThenSumSet(LAMBDA t : rows[t].score, EvalTasks),
                        cost  |-> MapThenSumSet(LAMBDA t : rows[t].cost, EvalTasks)]
\* In cents: 100 for a task done, less what it cost.
Fitness(m) == 100 * m.score - m.cost

NoWorse(m, n)   == m.score >= n.score /\ m.cost <= n.cost
Dominates(m, n) == NoWorse(m, n) /\ (m.score > n.score \/ m.cost < n.cost)
Scored     == {i \in 1..Len(archive) : archive[i].metrics # NoScore}
WithTree   == {i \in Scored : archive[i].dir}
Frontier   == {i \in WithTree : ~\E j \in WithTree : j # i /\ Dominates(archive[j].metrics, archive[i].metrics)}
Better(i, j) == LET m == archive[i].metrics  n == archive[j].metrics
                IN  \/ Fitness(m) > Fitness(n)
                    \/ Fitness(m) = Fitness(n) /\ m.cost < n.cost
                    \/ Fitness(m) = Fitness(n) /\ m.cost = n.cost /\ i < j
BestEntry  == CHOOSE i \in Scored : \A j \in Scored \ {i} : Better(i, j)

-----------------------------------------------------------------------------
(***************************************************************************)
(* The run.                                                                *)
(***************************************************************************)
\* runSuite: each task has its row, whatever becomes of it.
Suite == [EvalTasks -> Rows]
ScoreBaseline ==
  /\ stage = "baseline"
  /\ IF \E i \in 1..Len(archive) : archive[i].id = Baseline
       THEN UNCHANGED archive /\ stage' = "count"
       ELSE /\ \E rows \in Suite :
                 archive' = Append(archive, [Entry(Baseline, FALSE) EXCEPT !.metrics = MetricsOfRows(rows)])
            /\ stage' = "saveBaseline"
  /\ UNCHANGED <<disk, dirs, slot, winner, proposals, restarts>>

Saving == {"saveBaseline", "saveEntry", "saveScore", "saveLast"}
NextSlot == IF slot[2] + 1 < PerGeneration THEN <<slot[1], slot[2] + 1>> ELSE <<slot[1] + 1, 0>>
Advance == IF NextSlot[1] > Generations THEN stage' = "best" /\ UNCHANGED slot
                                     ELSE stage' = "propose" /\ slot' = NextSlot
SaveArchive ==
  /\ stage \in Saving /\ disk' = archive
  /\ CASE stage = "saveBaseline" -> stage' = "count" /\ UNCHANGED slot
       [] stage = "saveEntry" /\ archive[Len(archive)].dir -> stage' = "evaluate" /\ UNCHANGED slot
       [] stage = "saveLast" -> stage' = "done" /\ UNCHANGED slot
       [] OTHER -> Advance
  /\ UNCHANGED <<archive, dirs, winner, proposals, restarts>>

\* The initial proposals go on after as many as have a tree.
CountInitial ==
  /\ stage = "count"
  /\ LET n == Cardinality({i \in 1..Len(archive) : archive[i].id[1] = 0 /\ archive[i].dir})
     IN  IF n < PerGeneration THEN stage' = "propose" /\ slot' = <<0, n>>
         ELSE IF Generations = 0 THEN stage' = "best" /\ UNCHANGED slot
         ELSE stage' = "propose" /\ slot' = <<1, 0>>
  /\ UNCHANGED <<archive, disk, dirs, winner, proposals, restarts>>

\* writeTree: over what is in the directory.
WritesTree(id, left, files) == dirs' = [dirs EXCEPT ![id] = left \cup files]

\* proposeCandidate: a valid tree is written; one that fails may be, in part; one that
\* the validator rejects twice is not.  The parent is any tree on the frontier; without
\* one the later generations end.
Propose ==
  /\ stage = "propose"
  /\ IF slot[1] > 0 /\ Frontier = {}
       THEN stage' = "best" /\ UNCHANGED <<archive, dirs, proposals>>
       ELSE /\ proposals' = proposals + 1 /\ stage' = "saveEntry"
            /\ \E valid \in BOOLEAN, left \in {{}, dirs[EntryId(slot)]}, written \in BOOLEAN :
                 /\ valid => written
                 /\ ~written => left = dirs[EntryId(slot)]
                 /\ archive' = Append(archive, Entry(EntryId(slot), valid))
                 /\ WritesTree(EntryId(slot), left, IF written THEN {proposals + 1} ELSE {})
  /\ UNCHANGED <<disk, slot, winner, restarts>>

Evaluate ==
  /\ stage = "evaluate" /\ stage' = "saveScore"
  /\ \E rows \in Suite :
       archive' = [archive EXCEPT ![Len(archive)].metrics = MetricsOfRows(rows),
                                  ![Len(archive)].of = dirs[archive[Len(archive)].id]]
  /\ UNCHANGED <<disk, dirs, slot, winner, proposals, restarts>>

WriteBest ==
  /\ stage = "best" /\ stage' = "saveLast"
  /\ winner' = IF archive[BestEntry].dir THEN archive[BestEntry].id ELSE winner
  /\ UNCHANGED <<archive, disk, dirs, slot, proposals, restarts>>

\* The process dies, while it writes the archive or not; evolve is started again.
EvolveAgain ==
  /\ restarts < MaxRestarts /\ restarts' = restarts + 1
  /\ \/ archive' = disk /\ UNCHANGED disk
     \/ stage \in Saving /\ archive' = <<>> /\ disk' = <<>>   \* not whole: readArchive
  /\ stage' = "baseline" /\ slot' = <<0, 0>>
  /\ UNCHANGED <<dirs, winner, proposals>>

EvolveNext == \/ ScoreBaseline \/ SaveArchive \/ CountInitial \/ Propose \/ Evaluate
              \/ WriteBest \/ EvolveAgain

-----------------------------------------------------------------------------
(***************************************************************************)
(* Properties.                                                             *)
(***************************************************************************)
\* A score stands for the tree in the directory the entry names, as long as the
\* evolution that scored it runs (a later one writes over it: see below).
ScoreIsOfItsTree ==
  \A i \in Scored : archive[i].dir /\ archive[i].run = restarts => archive[i].of = dirs[archive[i].id]

\* However often it is started again: evolve.ts:188-193 goes on from the archive.
ScoresStand == \A i \in Scored : archive[i].dir => archive[i].of = dirs[archive[i].id]

\* The tree named BEST could have been a parent: fitness and frontier agree.
BestIsOnTheFrontier ==
  stage = "saveLast" /\ archive[BestEntry].dir => BestEntry \in Frontier
=============================================================================
