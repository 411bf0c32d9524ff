------------------------------ MODULE AgentProof ------------------------------
(***************************************************************************)
(* The agent's helpers and its memory.  A fan-out of subagents, for any    *)
(* number of them, of turns, pauses and crashes: one subagent is at most   *)
(* one running instance, its tools run once, and no more of them work at a *)
(* time than the limiter admits.  Then a chat that is compacted again and  *)
(* again: what was said in it can always be reached, and what is sent of   *)
(* it is whole exchanges.  Last, the terminal: one run at a time, and      *)
(* whoever leaves was told of a review that is missing.                    *)
(*                                                                         *)
(* Of a fan-out: what is alive was named by a turn, and what this turn may *)
(* name is alive only in this run, unless it was left behind; those that   *)
(* wait are the queue of the limiter, and those that work are counted.     *)
(***************************************************************************)
EXTENDS Subagents, Compaction, Terminal, FiniteSetTheorems, SequenceTheorems, TLAPS

FanSpec == FanInit /\ [][FanNext]_fanVars

AKid    == [pc : ChildPCs, turn : Nat, nudged : BOOLEAN, result : Results]
ASave   == [turn : Nat, tool : {"none", "named", "completed"}, nudged : BOOLEAN, result : Results]
Working == {"load", "ask", "tool", "ran"}
AtWork(r) == {k \in Kids : child[r][k].pc \in Working}
InReply(k) == Contains(parent.reply, k)

FanTyped ==
  /\ parent \in [pc : ParentPCs, turn : Nat, reply : Seq(Asks), answered : [Asks -> Results]]
  /\ run \in Runs
  /\ limiter \in [Runs -> [active : Nat, queue : Seq(Kids)]]
  /\ child \in [Runs -> [Kids -> AKid]] /\ saved \in [Kids -> ASave]
  /\ orphaned \subseteq Kids

RepliesAreOfTheTurn ==
  /\ parent.pc # "done" => parent.turn \in Turns
  /\ IsInjective(parent.reply) /\ \A k \in Kids : InReply(k) => k \in Named(parent.turn)
LiveWasNamed ==
  \A r \in Runs, k \in Kids : Live(r, k) =>
    r <= run /\ \E t \in Turns : t <= parent.turn /\ k \in Named(t)
NewIsIdle == parent.pc \in {"think", "launch"} => \A k \in Named(parent.turn) : ~Live(run, k)
LiveIsOurs ==
  \A r \in Runs, k \in Kids \ orphaned : Live(r, k) /\ k \in Named(parent.turn) =>
    r = run /\ parent.pc \in {"calls", "joining"} /\ InReply(k)
LiveIsOne ==
  \A k \in Kids \ orphaned : \A r, q \in Runs : Live(r, k) /\ Live(q, k) => r = q
QueueOk(r) ==
  /\ \A i \in 1..Len(limiter[r].queue) : child[r][limiter[r].queue[i]].pc = "waiting"
  /\ \A i, j \in 1..Len(limiter[r].queue) : limiter[r].queue[i] = limiter[r].queue[j] => i = j
CountOk(r) == Cardinality(AtWork(r)) <= limiter[r].active /\ limiter[r].active <= MaxParallel

LiveInv == RepliesAreOfTheTurn /\ LiveWasNamed /\ NewIsIdle /\ LiveIsOurs /\ LiveIsOne
WaitInv == \A r \in Runs : QueueOk(r) /\ CountOk(r)
FanInv  == FanTyped /\ LiveInv /\ WaitInv

LEMMA Workers ==
  ASSUME NEW r \in Runs
  PROVE  IsFiniteSet(AtWork(r)) /\ Cardinality(AtWork(r)) \in Nat
<1>1. AtWork(r) \subseteq Kids BY DEF AtWork
<1>2. IsFiniteSet(AtWork(r)) BY <1>1, SubagentsAssumption, FS_Subset
<1> QED BY <1>2, FS_CardinalityType

\* Nothing is alive that was not: whoever answers for it still does.
LEMMA NothingNewLives ==
  ASSUME LiveInv, UNCHANGED <<parent, run, orphaned>>,
         \A r \in Runs, k \in Kids : Live(r, k)' => Live(r, k), FanTyped
  PROVE  LiveInv'
<1>1. /\ parent' = parent /\ run' = run /\ orphaned' = orphaned
      /\ \A k : InReply(k)' <=> InReply(k)
  BY DEF InReply
<1>2. RepliesAreOfTheTurn' BY <1>1 DEF LiveInv, RepliesAreOfTheTurn
<1>3. LiveWasNamed' BY <1>1 DEF LiveInv, LiveWasNamed
<1>4. NewIsIdle'
  <2>1. Named(parent.turn) \subseteq Kids BY DEF Named
  <2>2. run \in Runs BY DEF FanTyped
  <2> QED BY <1>1, <2>1, <2>2 DEF LiveInv, NewIsIdle
<1>5. LiveIsOurs' BY <1>1 DEF LiveInv, LiveIsOurs
<1>6. LiveIsOne' BY <1>1 DEF LiveInv, LiveIsOne
<1> QED BY <1>2, <1>3, <1>4, <1>5, <1>6 DEF LiveInv

LEMMA Becomes ==
  ASSUME FanTyped, NEW r \in Runs, NEW k \in Kids, NEW new \in AKid, Become(r, k, new)
  PROVE  /\ child' \in [Runs -> [Kids -> AKid]] /\ child'[r][k] = new
         /\ \A q \in Runs, m \in Kids : q # r \/ m # k => child'[q][m] = child[q][m]
<1>1. PICK mine : mine = [child[r] EXCEPT ![k] = new] OBVIOUS
<1>2. child[r] \in [Kids -> AKid] /\ child \in [Runs -> [Kids -> AKid]] BY DEF FanTyped
<1>3. mine \in [Kids -> AKid] /\ mine[k] = new /\ \A m \in Kids \ {k} : mine[m] = child[r][m]
  BY <1>1, <1>2
<1>4. child' = [child EXCEPT ![r] = mine] BY <1>1, <1>2 DEF Become
<1> QED BY <1>2, <1>3, <1>4

\* A subagent that works goes on working.
LEMMA WorksOn ==
  ASSUME FanInv, NEW r \in Runs, NEW k \in Kids, NEW new \in AKid, Become(r, k, new),
         child[r][k].pc \in Working, new.pc \in Working,
         UNCHANGED <<parent, run, orphaned, limiter>>, saved' \in [Kids -> ASave]
  PROVE  FanInv'
<1>1. FanTyped /\ LiveInv /\ WaitInv BY DEF FanInv
<1>2. /\ child' \in [Runs -> [Kids -> AKid]] /\ child'[r][k] = new
      /\ \A q \in Runs, m \in Kids : q # r \/ m # k => child'[q][m] = child[q][m]
  BY <1>1, Becomes
<1>3. FanTyped' BY <1>1, <1>2 DEF FanTyped
<1>4. \A q \in Runs, m \in Kids : child'[q][m].pc \in Working <=> child[q][m].pc \in Working
  BY <1>2
<1>5. \A q \in Runs, m \in Kids : Live(q, m)' => Live(q, m)
  <2> SUFFICES ASSUME NEW q \in Runs, NEW m \in Kids, Live(q, m)' PROVE Live(q, m) OBVIOUS
  <2>1. CASE q = r /\ m = k BY <2>1 DEF Live, Working
  <2>2. CASE q # r \/ m # k BY <1>2, <2>2 DEF Live
  <2> QED BY <2>1, <2>2
<1>6. LiveInv' BY <1>1, <1>5, NothingNewLives
<1>7. ASSUME NEW q \in Runs PROVE QueueOk(q)' /\ CountOk(q)'
  <2>1. QueueOk(q) /\ CountOk(q) BY <1>1 DEF WaitInv
  <2>2. limiter[q].queue \in Seq(Kids) BY <1>1 DEF FanTyped
  <2>3. \A m \in Kids : child[q][m].pc = "waiting" => child'[q][m] = child[q][m]
    BY <1>2 DEF Working
  <2>4. QueueOk(q)' BY <2>1, <2>2, <2>3 DEF QueueOk
  <2>7. AtWork(q)' = AtWork(q) BY <1>4 DEF AtWork
  <2>8. CountOk(q)' BY <2>1, <2>7 DEF CountOk
  <2> QED BY <2>4, <2>8
<1> QED BY <1>3, <1>6, <1>7 DEF FanInv, WaitInv

\* One that ends makes room: for the one that has waited longest, or for nobody.
LEMMA SettleKeeps ==
  ASSUME FanInv, NEW r \in Runs, NEW k \in Kids, NEW with \in Results,
         SettleChild(r, k, with), child[r][k].pc \in Working, UNCHANGED <<parent, run, orphaned>>,
         saved' \in [Kids -> ASave]
  PROVE  FanInv'
<1>1. FanTyped /\ LiveInv /\ WaitInv BY DEF FanInv
<1>2. PICK queue : queue = limiter[r].queue OBVIOUS
<1>3. PICK ended : ended = [NewChild EXCEPT !.pc = "done", !.result = with] OBVIOUS
<1>4. PICK after : after = [child[r] EXCEPT ![k] = ended] OBVIOUS
<1>5. ended \in AKid /\ ended.pc = "done" BY <1>3 DEF NewChild, AKid, ChildPCs
<1>6. child[r] \in [Kids -> AKid] /\ child \in [Runs -> [Kids -> AKid]] /\ queue \in Seq(Kids)
      /\ limiter \in [Runs -> [active : Nat, queue : Seq(Kids)]]
  BY <1>1, <1>2 DEF FanTyped
<1>7. after \in [Kids -> AKid] /\ after[k] = ended /\ \A m \in Kids \ {k} : after[m] = child[r][m]
  BY <1>4, <1>5, <1>6
<1>8. QueueOk(r) /\ CountOk(r) /\ limiter[r].active \in Nat BY <1>1, <1>6 DEF WaitInv
<1>9. k \in AtWork(r) BY DEF AtWork
<1>10. IsFiniteSet(AtWork(r)) /\ Cardinality(AtWork(r)) \in Nat BY Workers
<1>11. IsFiniteSet(AtWork(r) \ {k}) /\ Cardinality(AtWork(r) \ {k}) = Cardinality(AtWork(r)) - 1
  BY <1>9, <1>10, FS_RemoveElement
<1>12. CASE queue = <<>>
  <2>1. limiter' = [limiter EXCEPT ![r].active = @ - 1] /\ child' = [child EXCEPT ![r] = after]
    BY <1>2, <1>3, <1>4, <1>12 DEF SettleChild
  <2>2. child' \in [Runs -> [Kids -> AKid]] /\ child'[r] = after
        /\ \A q \in Runs \ {r} : child'[q] = child[q]
    BY <1>6, <1>7, <2>1
  <2>3. Cardinality(AtWork(r) \ {k}) \in Nat BY <1>11, FS_CardinalityType
  <2>4. limiter[r].active - 1 \in Nat BY <1>8, <1>10, <1>11, <2>3 DEF CountOk
  <2>5. PICK room : room = [limiter[r] EXCEPT !.active = @ - 1] OBVIOUS
  <2>6. room \in [active : Nat, queue : Seq(Kids)] /\ room.active = limiter[r].active - 1
        /\ room.queue = <<>>
    BY <1>2, <1>6, <1>12, <2>4, <2>5
  <2>7. limiter' = [limiter EXCEPT ![r] = room] BY <1>6, <2>1, <2>5
  <2>8. limiter' \in [Runs -> [active : Nat, queue : Seq(Kids)]] /\ limiter'[r] = room
        /\ \A q \in Runs \ {r} : limiter'[q] = limiter[q]
    BY <1>6, <2>6, <2>7
  <2>9. FanTyped' BY <1>1, <2>2, <2>8 DEF FanTyped
  <2>10. \A q \in Runs, m \in Kids : Live(q, m)' => Live(q, m)
    <3> SUFFICES ASSUME NEW q \in Runs, NEW m \in Kids, Live(q, m)' PROVE Live(q, m) OBVIOUS
    <3>1. q # r \/ m # k BY <1>5, <1>7, <2>2 DEF Live
    <3>2. child'[q][m] = child[q][m] BY <1>7, <2>2, <3>1
    <3> QED BY <3>2 DEF Live
  <2>11. LiveInv' BY <1>1, <2>10, NothingNewLives
  <2>12. QueueOk(r)' BY <2>6, <2>8 DEF QueueOk
  <2>13. AtWork(r)' = AtWork(r) \ {k} BY <1>5, <1>7, <2>2 DEF AtWork, Working
  <2>14. CountOk(r)' BY <1>8, <1>10, <1>11, <2>6, <2>8, <2>13, SubagentsAssumption DEF CountOk
  <2>15. ASSUME NEW q \in Runs \ {r} PROVE QueueOk(q)' /\ CountOk(q)'
    <3>1. QueueOk(q) /\ CountOk(q) BY <1>1 DEF WaitInv
    <3>2. AtWork(q)' = AtWork(q) BY <2>2 DEF AtWork
    <3> QED BY <2>2, <2>8, <3>1, <3>2 DEF QueueOk, CountOk
  <2> QED BY <2>9, <2>11, <2>12, <2>14, <2>15 DEF FanInv, WaitInv
<1>13. CASE queue # <<>>
  <2>1. PICK first : first = Head(queue) OBVIOUS
  <2>2. first \in Kids /\ first = queue[1] /\ Len(queue) \in Nat \ {0} BY <1>6, <1>13, <2>1
  <2>3. child[r][first].pc = "waiting" BY <1>2, <1>8, <2>2 DEF QueueOk
  <2>4. first # k BY <2>3 DEF Working
  <2>5. PICK goes : goes = [child[r][first] EXCEPT !.pc = "load"] OBVIOUS
  <2>6. goes \in AKid /\ goes.pc = "load"
    <3>1. child[r][first] \in AKid BY <1>6, <2>2
    <3> QED BY <2>5, <3>1 DEF AKid, ChildPCs
  <2>7. PICK now : now = [after EXCEPT ![first] = goes] OBVIOUS
  <2>8. now \in [Kids -> AKid] /\ now[first] = goes /\ now[k] = ended
        /\ \A m \in Kids \ {k, first} : now[m] = child[r][m]
    BY <1>7, <2>2, <2>4, <2>6, <2>7
  <2>9. now = [after EXCEPT ![first].pc = "load"] BY <1>7, <2>2, <2>4, <2>5, <2>7
  <2>10. limiter' = [limiter EXCEPT ![r].queue = Tail(@)] /\ child' = [child EXCEPT ![r] = now]
    BY <1>2, <1>3, <1>4, <1>13, <2>1, <2>9 DEF SettleChild
  <2>11. child' \in [Runs -> [Kids -> AKid]] /\ child'[r] = now
         /\ \A q \in Runs \ {r} : child'[q] = child[q]
    BY <1>6, <2>8, <2>10
  <2>12. PICK rest : rest = Tail(queue) OBVIOUS
  <2>13. rest \in Seq(Kids) /\ Len(rest) = Len(queue) - 1
         /\ \A i \in 1..Len(rest) : rest[i] = queue[i + 1]
    BY <1>6, <1>13, <2>12
  <2>14. PICK room : room = [limiter[r] EXCEPT !.queue = Tail(@)] OBVIOUS
  <2>15. room \in [active : Nat, queue : Seq(Kids)] /\ room.active = limiter[r].active
         /\ room.queue = rest
    BY <1>2, <1>6, <2>12, <2>13, <2>14
  <2>16. limiter' = [limiter EXCEPT ![r] = room] BY <1>6, <2>10, <2>14
  <2>17. limiter' \in [Runs -> [active : Nat, queue : Seq(Kids)]] /\ limiter'[r] = room
         /\ \A q \in Runs \ {r} : limiter'[q] = limiter[q]
    BY <1>6, <2>15, <2>16
  <2>18. FanTyped' BY <1>1, <2>11, <2>17 DEF FanTyped
  <2>19. \A q \in Runs, m \in Kids : Live(q, m)' => Live(q, m)
    <3> SUFFICES ASSUME NEW q \in Runs, NEW m \in Kids, Live(q, m)' PROVE Live(q, m) OBVIOUS
    <3>1. CASE q = r /\ m = first BY <2>3, <3>1 DEF Live
    <3>2. CASE q = r /\ m = k BY <1>5, <2>8, <2>11, <3>2 DEF Live
    <3>3. CASE q # r \/ (m # first /\ m # k)
      <4>1. child'[q][m] = child[q][m] BY <2>8, <2>11, <3>3
      <4> QED BY <4>1 DEF Live
    <3> QED BY <3>1, <3>2, <3>3
  <2>20. LiveInv' BY <1>1, <2>19, NothingNewLives
  <2>21. \A i, j \in 1..Len(queue) : queue[i] = queue[j] => i = j
         /\ \A n \in 1..Len(queue) : child[r][queue[n]].pc = "waiting"
    BY <1>2, <1>8 DEF QueueOk
  <2>22. ASSUME NEW i \in 1..Len(rest)
         PROVE  child'[r][rest[i]].pc = "waiting" /\ \A j \in 1..Len(rest) : rest[i] = rest[j] => i = j
    <3>1. i + 1 \in 1..Len(queue) /\ rest[i] = queue[i + 1] /\ i + 1 # 1 BY <2>2, <2>13
    <3>2. rest[i] # first /\ rest[i] \in Kids BY <2>2, <2>13, <2>21, <3>1
    <3>3. child[r][rest[i]].pc = "waiting" BY <2>21, <3>1
    <3>4. rest[i] # k BY <3>3 DEF Working
    <3>5. child'[r][rest[i]].pc = "waiting" BY <2>8, <2>11, <3>2, <3>3, <3>4
    <3>6. ASSUME NEW j \in 1..Len(rest), rest[i] = rest[j] PROVE i = j
      <4>1. j + 1 \in 1..Len(queue) /\ rest[j] = queue[j + 1] BY <2>2, <2>13
      <4>2. i + 1 = j + 1 BY <2>21, <3>1, <3>6, <4>1
      <4> QED BY <4>2
    <3> QED BY <3>5, <3>6
  <2>23. QueueOk(r)' BY <2>15, <2>17, <2>22 DEF QueueOk
  <2>24. AtWork(r)' = (AtWork(r) \ {k}) \cup {first}
    BY <1>5, <2>2, <2>4, <2>6, <2>8, <2>11 DEF AtWork, Working
  <2>25. first \notin AtWork(r) \ {k} BY <2>3 DEF AtWork, Working
  <2>26. Cardinality((AtWork(r) \ {k}) \cup {first}) = Cardinality(AtWork(r) \ {k}) + 1
    BY <1>11, <2>25, FS_AddElement
  <2>27. Cardinality(AtWork(r)') = Cardinality(AtWork(r)) BY <1>10, <1>11, <2>24, <2>26
  <2>28. CountOk(r)' BY <1>8, <2>15, <2>17, <2>27 DEF CountOk
  <2>29. ASSUME NEW q \in Runs \ {r} PROVE QueueOk(q)' /\ CountOk(q)'
    <3>1. QueueOk(q) /\ CountOk(q) BY <1>1 DEF WaitInv
    <3>2. AtWork(q)' = AtWork(q) BY <2>11 DEF AtWork
    <3> QED BY <2>11, <2>17, <3>1, <3>2 DEF QueueOk, CountOk
  <2> QED BY <2>18, <2>20, <2>23, <2>28, <2>29 DEF FanInv, WaitInv
<1> QED BY <1>12, <1>13

LEMMA SavesWell ==
  ASSUME FanTyped, NEW k \in Kids, NEW it \in AKid, NEW tool \in {"none", "named", "completed"},
         NEW with \in Results, SaveIt(k, it, tool, with)
  PROVE  saved' \in [Kids -> ASave]
<1>1. PICK new : new = [turn |-> it.turn, tool |-> tool, nudged |-> it.nudged, result |-> with]
  OBVIOUS
<1>2. new \in ASave BY <1>1 DEF AKid, ASave
<1>3. saved' = [saved EXCEPT ![k] = new] BY <1>1 DEF SaveIt
<1> QED BY <1>2, <1>3 DEF FanTyped

LEMMA FinishKeeps ==
  ASSUME FanInv, NEW r \in Runs, NEW k \in Kids, NEW with \in Results,
         FinishChild(r, k, with), child[r][k].pc \in Working, UNCHANGED <<parent, run, orphaned>>
  PROVE  FanInv'
<1>1. FanTyped /\ child[r][k] \in AKid BY DEF FanInv, FanTyped
<1>2. SaveIt(k, child[r][k], "none", with) /\ SettleChild(r, k, with) BY DEF FinishChild, It
<1>3. saved' \in [Kids -> ASave] BY <1>1, <1>2, SavesWell
<1> QED BY <1>2, <1>3, SettleKeeps

LEMMA NextTurnIs ==
  ASSUME NEW it \in AKid
  PROVE  NextChildTurn(it) \in AKid /\ NextChildTurn(it).pc = "ask"
<1>1. PICK new : new = [it EXCEPT !.pc = "ask", !.turn = @ + 1] OBVIOUS
<1>2. it.turn \in Nat BY DEF AKid
<1>3. new = [pc |-> "ask", turn |-> it.turn + 1, nudged |-> it.nudged, result |-> it.result]
  BY <1>1 DEF AKid
<1>4. new \in AKid BY <1>2, <1>3 DEF AKid, ChildPCs
<1>5. new.pc = "ask" BY <1>3
<1> QED BY <1>1, <1>4, <1>5 DEF NextChildTurn

LEMMA LoadChildKeeps ==
  ASSUME FanInv, NEW r \in Runs, NEW k \in Kids, LoadChild(r, k), UNCHANGED <<parent, run, orphaned>>
  PROVE  FanInv'
<1>1. PICK from : from = saved[k] OBVIOUS
<1>2. from \in ASave /\ saved' \in [Kids -> ASave] BY <1>1 DEF FanInv, FanTyped, LoadChild
<1>3. child[r][k].pc = "load" BY DEF LoadChild, It
<1>4. PICK it : it = [pc |-> "ask", turn |-> from.turn, nudged |-> from.nudged, result |-> "none"]
  OBVIOUS
<1>5. it \in AKid /\ it.pc = "ask" BY <1>2, <1>4 DEF ASave, AKid, ChildPCs, Results
<1>6. CASE SettleChild(r, k, from.result)
  <2>1. PICK with \in Results : with = from.result BY <1>2 DEF ASave
  <2>2. SettleChild(r, k, with) BY <1>6, <2>1
  <2> QED BY <1>2, <1>3, <2>2, SettleKeeps DEF Working
<1>7. CASE UNCHANGED limiter /\ ~SettleChild(r, k, from.result)
  <2>1. PICK new : new = CASE from.tool = "named"     -> [it EXCEPT !.pc = "tool"]
                           [] from.tool = "completed" -> NextChildTurn(it)
                           [] from.tool = "none"      -> it
    OBVIOUS
  <2>2. Become(r, k, new) BY <1>1, <1>4, <1>7, <2>1 DEF LoadChild
  <2>3. [it EXCEPT !.pc = "tool"] \in AKid /\ [it EXCEPT !.pc = "tool"].pc = "tool"
    BY <1>5 DEF AKid, ChildPCs
  <2>4. from.tool \in {"named", "completed", "none"} BY <1>2 DEF ASave
  <2>5. new \in {[it EXCEPT !.pc = "tool"], NextChildTurn(it), it} BY <2>1, <2>4
  <2>6. new \in AKid /\ new.pc \in Working BY <1>5, <2>3, <2>5, NextTurnIs DEF Working
  <2> QED BY <1>2, <1>3, <1>7, <2>2, <2>6, WorksOn DEF Working
<1> QED BY <1>1, <1>6, <1>7 DEF LoadChild

LEMMA AskChildKeeps ==
  ASSUME FanInv, NEW r \in Runs, NEW k \in Kids, AskChild(r, k), UNCHANGED <<parent, run, orphaned>>
  PROVE  FanInv'
<1>1. PICK it : it = child[r][k] OBVIOUS
<1>2. FanTyped /\ it \in AKid /\ it.pc = "ask" BY <1>1 DEF FanInv, FanTyped, AskChild, It
<1>3. child[r][k].pc \in Working BY <1>1, <1>2 DEF Working
<1>4. \A with \in {"max_turns", "error", "completed", "stopped", "thrown", "none"} : with \in Results
  BY DEF Results
<1>5. ASSUME NEW with \in Results, FinishChild(r, k, with) PROVE FanInv'
  BY <1>3, <1>5, FinishKeeps
<1>6. ASSUME NEW with \in Results, SettleChild(r, k, with),
             UNCHANGED saved \/ SaveIt(k, it, "none", "none")
      PROVE  FanInv'
  <2>1. saved' \in [Kids -> ASave]
    <3>1. CASE UNCHANGED saved BY <1>2, <3>1 DEF FanTyped
    <3>2. CASE SaveIt(k, it, "none", "none") BY <1>2, <1>4, <3>2, SavesWell
    <3> QED BY <1>6, <3>1, <3>2
  <2> QED BY <1>3, <1>6, <2>1, SettleKeeps
<1>7. ASSUME NEW new \in AKid, Become(r, k, new), new.pc \in Working, UNCHANGED limiter,
             NEW from \in AKid, NEW tool \in {"none", "named", "completed"},
             SaveIt(k, from, tool, "none")
      PROVE  FanInv'
  <2>1. saved' \in [Kids -> ASave] BY <1>2, <1>4, <1>7, SavesWell
  <2> QED BY <1>3, <1>7, <2>1, WorksOn
<1>8. CASE Become(r, k, [it EXCEPT !.pc = "tool"]) /\ SaveIt(k, it, "named", "none") /\ UNCHANGED limiter
  <2>1. PICK new : new = [it EXCEPT !.pc = "tool"] OBVIOUS
  <2>2. new \in AKid /\ new.pc \in Working BY <1>2, <2>1 DEF AKid, ChildPCs, Working
  <2> QED BY <1>2, <1>7, <1>8, <2>1, <2>2
<1>9. CASE \E cut : /\ cut = [NextChildTurn(it) EXCEPT !.nudged = TRUE] /\ UNCHANGED limiter
                    /\ Become(r, k, cut) /\ SaveIt(k, cut, "none", "none")
  <2>1. PICK cut : /\ cut = [NextChildTurn(it) EXCEPT !.nudged = TRUE] /\ UNCHANGED limiter
                   /\ Become(r, k, cut) /\ SaveIt(k, cut, "none", "none")
    BY <1>9
  <2>2. NextChildTurn(it) \in AKid /\ NextChildTurn(it).pc = "ask" BY <1>2, NextTurnIs
  <2>3. cut \in AKid /\ cut.pc \in Working BY <2>1, <2>2 DEF AKid, Working
  <2> QED BY <1>7, <2>1, <2>3
<1>10. \/ \E with \in Results : FinishChild(r, k, with)
       \/ \E with \in Results : /\ SettleChild(r, k, with)
                                /\ UNCHANGED saved \/ SaveIt(k, it, "none", "none")
       \/ Become(r, k, [it EXCEPT !.pc = "tool"]) /\ SaveIt(k, it, "named", "none") /\ UNCHANGED limiter
       \/ \E cut : /\ cut = [NextChildTurn(it) EXCEPT !.nudged = TRUE] /\ UNCHANGED limiter
                   /\ Become(r, k, cut) /\ SaveIt(k, cut, "none", "none")
  BY <1>1, <1>4 DEF AskChild, It
<1> QED BY <1>5, <1>6, <1>8, <1>9, <1>10

LEMMA ExecuteKeeps ==
  ASSUME FanInv, NEW r \in Runs, NEW k \in Kids, Execute(r, k), UNCHANGED <<parent, run, orphaned>>
  PROVE  FanInv'
<1>1. PICK new : new = [child[r][k] EXCEPT !.pc = "ran"] OBVIOUS
<1>2. child[r][k] \in AKid BY DEF FanInv, FanTyped
<1>3. new \in AKid /\ new.pc \in Working BY <1>1, <1>2 DEF AKid, ChildPCs, Working
<1>4. Become(r, k, new) /\ child[r][k].pc \in Working /\ UNCHANGED limiter
  BY <1>1 DEF Execute, It, Working
<1>5. saved' \in [Kids -> ASave] BY DEF Execute, FanInv, FanTyped
<1> QED BY <1>3, <1>4, <1>5, WorksOn

LEMMA ToolDoneKeeps ==
  ASSUME FanInv, NEW r \in Runs, NEW k \in Kids, ToolDone(r, k), UNCHANGED <<parent, run, orphaned>>
  PROVE  FanInv'
<1>1. PICK it : it = child[r][k] OBVIOUS
<1>2. FanTyped /\ it \in AKid /\ it.pc = "ran" BY <1>1 DEF FanInv, FanTyped, ToolDone, It
<1>3. child[r][k].pc \in Working BY <1>1, <1>2 DEF Working
<1>4. "stopped" \in Results /\ "none" \in Results BY DEF Results
<1>5. CASE FinishChild(r, k, "stopped") BY <1>3, <1>4, <1>5, FinishKeeps
<1>6. CASE Become(r, k, NextChildTurn(it)) /\ SaveIt(k, it, "completed", "none") /\ UNCHANGED limiter
  <2>1. PICK new : new = NextChildTurn(it) OBVIOUS
  <2>2. new \in AKid /\ new.pc \in Working BY <1>2, <2>1, NextTurnIs DEF Working
  <2>3. saved' \in [Kids -> ASave] BY <1>2, <1>4, <1>6, SavesWell
  <2> QED BY <1>3, <1>6, <2>1, <2>2, <2>3, WorksOn
<1> QED BY <1>1, <1>5, <1>6 DEF ToolDone, It

\* The limiter lets no more begin than it has room for.
LEMMA AdmitsFit ==
  ASSUME FanTyped, NEW n \in Nat, NEW r \in Runs, limiter[r].active <= MaxParallel
  PROVE  Admits(r, n) \in 0..n /\ limiter[r].active + Admits(r, n) <= MaxParallel
<1>1. limiter[r].active \in Nat BY DEF FanTyped
<1> QED BY <1>1, SubagentsAssumption DEF Admits

LEMMA StartedAre ==
  ASSUME NEW n \in Nat, NEW f
  PROVE  LET S == {f[i] : i \in 1..n} IN IsFiniteSet(S) /\ Cardinality(S) <= n
<1>1. PICK S : S = {f[i] : i \in 1..n} OBVIOUS
<1>2. PICK g : g = [i \in 1..n |-> f[i]] OBVIOUS
<1>3. g \in Surjection(1..n, S) BY <1>1, <1>2 DEF Surjection
<1>4. IsFiniteSet(1..n) /\ Cardinality(1..n) = n BY FS_Interval
<1>5. IsFiniteSet(S) /\ Cardinality(S) <= n BY <1>3, <1>4, FS_Surjection
<1> QED BY <1>1, <1>5

\* What a reply names in order: each spawn once, and no other call.
LEMMA OrderIs ==
  ASSUME FanInv, parent.pc = "launch", NEW at \in OneByOne(parent.reply)
  PROVE  /\ Cardinality(Spawns(parent.reply)) \in Nat
         /\ at \in Seq(Nat) /\ Len(at) = Cardinality(Spawns(parent.reply))
         /\ \A n \in 1..Len(at) : /\ at[n] \in DOMAIN parent.reply
                                  /\ parent.reply[at[n]] \in Kids /\ InReply(parent.reply[at[n]])
         /\ \A m, n \in 1..Len(at) : m # n => at[m] # at[n]
<1>1. parent.reply \in Seq(Asks) BY DEF FanInv, FanTyped
<1>2. PICK S : S = Spawns(parent.reply) OBVIOUS
<1>3. S \subseteq 1..Len(parent.reply) BY <1>1, <1>2 DEF Spawns
<1>4. IsFiniteSet(1..Len(parent.reply)) BY <1>1, FS_Interval
<1>5. IsFiniteSet(S) /\ Cardinality(S) \in Nat BY <1>3, <1>4, FS_Subset, FS_CardinalityType
<1>6. at \in [1..Cardinality(S) -> S] /\ \A m, n \in DOMAIN at : m < n => at[m] < at[n]
  BY <1>2 DEF OneByOne
<1>7. S \subseteq Nat BY <1>3
<1>8. at \in Seq(Nat) /\ Len(at) = Cardinality(S)
  <2>1. PICK n \in Nat : n = Cardinality(S) BY <1>5
  <2>2. at \in [1..n -> Nat] BY <1>6, <1>7, <2>1
  <2>3. at \in Seq(Nat) BY <2>2
  <2>4. Len(at) = n BY <2>2, <2>3
  <2> QED BY <2>1, <2>3, <2>4
<1>9. ASSUME NEW n \in 1..Len(at)
      PROVE  /\ at[n] \in DOMAIN parent.reply
             /\ parent.reply[at[n]] \in Kids /\ InReply(parent.reply[at[n]])
  <2>1. at[n] \in S BY <1>5, <1>6, <1>8
  <2>2. at[n] \in 1..Len(parent.reply) /\ parent.reply[at[n]] # PaidService
    BY <1>1, <1>2, <2>1 DEF Spawns
  <2>3. parent.reply[at[n]] \in Asks BY <1>1, <2>2
  <2> QED BY <1>1, <2>2, <2>3 DEF Asks, InReply, Contains
<1>10. ASSUME NEW m \in 1..Len(at), NEW n \in 1..Len(at), m # n PROVE at[m] # at[n]
  <2>1. at[m] \in Nat /\ at[n] \in Nat /\ DOMAIN at = 1..Len(at) BY <1>8
  <2>2. m < n \/ n < m BY <1>8, <1>10
  <2> QED BY <1>6, <2>1, <2>2
<1> QED BY <1>2, <1>5, <1>8, <1>9, <1>10

\* The fan-out begins: nothing of it was alive in this run, so nobody is put in the
\* queue twice, and as many begin as there is room for.
LEMMA LaunchKeeps == ASSUME FanInv, Launch PROVE FanInv'
<1>1. FanTyped /\ LiveInv /\ WaitInv /\ parent.pc = "launch" BY DEF FanInv, Launch
<1> DEFINE spoken == parent.reply
           total == Cardinality(Spawns(spoken))
           begin == Admits(run, total)
<1>2. spoken = parent.reply OBVIOUS
<1>3. total = Cardinality(Spawns(spoken)) OBVIOUS
<1>4. begin = Admits(run, total) OBVIOUS
<1>5. PICK at \in OneByOne(spoken) :
        /\ limiter' = [limiter EXCEPT ![run] =
             [active |-> @.active + begin,
              queue  |-> @.queue \o [n \in 1..(Len(at) - begin) |-> spoken[at[begin + n]]]]]
        /\ child' = [child EXCEPT ![run] = [k \in Kids |->
             IF ~Contains(spoken, k) THEN @[k]
             ELSE [NewChild EXCEPT !.pc = IF k \in {spoken[at[n]] : n \in 1..begin}
                                            THEN "load" ELSE "waiting"]]]
  BY DEF Launch
<1> HIDE DEF spoken, total, begin
<1>6. PICK waits : waits = [n \in 1..(Len(at) - begin) |-> spoken[at[begin + n]]] OBVIOUS
<1>7. PICK started : started = {spoken[at[n]] : n \in 1..begin} OBVIOUS
<1>8. /\ total \in Nat /\ at \in Seq(Nat) /\ Len(at) = total
      /\ \A n \in 1..total : at[n] \in DOMAIN spoken /\ spoken[at[n]] \in Kids /\ InReply(spoken[at[n]])
      /\ \A m, n \in 1..total : m # n => at[m] # at[n]
  BY <1>1, <1>2, <1>3, OrderIs
<1>9. /\ parent' = [parent EXCEPT !.pc = "calls"] /\ UNCHANGED <<run, saved, orphaned>>
  BY DEF Launch
<1>10. run \in Runs /\ spoken \in Seq(Asks) /\ child[run] \in [Kids -> AKid]
       /\ limiter[run].active \in Nat /\ limiter[run].queue \in Seq(Kids)
  BY <1>1, <1>2 DEF FanTyped
<1>11. QueueOk(run) /\ CountOk(run) BY <1>1, <1>10 DEF WaitInv
<1>12. begin \in 0..total /\ limiter[run].active + begin <= MaxParallel
  BY <1>1, <1>4, <1>8, <1>10, <1>11, AdmitsFit DEF CountOk
<1>13. \A m, n \in 1..total : spoken[at[m]] = spoken[at[n]] => m = n
  <2>1. IsInjective(spoken) BY <1>1, <1>2 DEF LiveInv, RepliesAreOfTheTurn
  <2> SUFFICES ASSUME NEW m \in 1..total, NEW n \in 1..total, spoken[at[m]] = spoken[at[n]] PROVE m = n
    OBVIOUS
  <2>2. at[m] = at[n] BY <1>8, <2>1 DEF IsInjective
  <2> QED BY <1>8, <2>2
\* The queue.
<1>14. /\ waits \in Seq(Kids) /\ Len(waits) = total - begin
       /\ \A n \in 1..Len(waits) : waits[n] = spoken[at[begin + n]] /\ begin + n \in 1..total
  <2>1. PICK rest \in Nat : rest = total - begin BY <1>8, <1>12
  <2>2. \A n \in 1..rest : begin + n \in 1..total BY <1>8, <1>12, <2>1
  <2>3. waits = [n \in 1..rest |-> spoken[at[begin + n]]] BY <1>6, <1>8, <2>1
  <2>4. \A n \in 1..rest : spoken[at[begin + n]] \in Kids
    <3> SUFFICES ASSUME NEW n \in 1..rest PROVE spoken[at[begin + n]] \in Kids OBVIOUS
    <3>1. PICK m \in 1..total : m = begin + n BY <2>2
    <3>2. spoken[at[m]] \in Kids BY <1>8
    <3> QED BY <3>1, <3>2
  <2>5. waits \in [1..rest -> Kids] BY <2>3, <2>4
  <2>6. waits \in Seq(Kids) /\ Len(waits) = rest BY <2>1, <2>5
  <2> QED BY <2>1, <2>2, <2>3, <2>6
<1>15. ASSUME NEW n \in 1..Len(waits) PROVE waits[n] \in Kids /\ InReply(waits[n]) /\ waits[n] \notin started
  <2>1. PICK m \in 1..total : m = begin + n /\ waits[n] = spoken[at[m]] BY <1>14
  <2>2. waits[n] \in Kids /\ InReply(waits[n]) BY <1>8, <2>1
  <2>3. ASSUME NEW i \in 1..begin, spoken[at[i]] = waits[n] PROVE FALSE
    <3>1. i \in 1..total /\ i # m BY <1>8, <1>12, <2>1
    <3> QED BY <1>13, <2>1, <2>3, <3>1
  <2> QED BY <1>7, <2>2, <2>3
<1>16. \A i, j \in 1..Len(waits) : waits[i] = waits[j] => i = j
  <2> SUFFICES ASSUME NEW i \in 1..Len(waits), NEW j \in 1..Len(waits), waits[i] = waits[j] PROVE i = j
    OBVIOUS
  <2>1. PICK m \in 1..total : m = begin + i /\ waits[i] = spoken[at[m]] BY <1>14
  <2>2. PICK n \in 1..total : n = begin + j /\ waits[j] = spoken[at[n]] BY <1>14
  <2>3. m = n BY <1>13, <2>1, <2>2
  <2> QED BY <1>8, <1>12, <1>14, <2>1, <2>2, <2>3
\* What becomes of the subagents.
<1>17. PICK now : now = [k \in Kids |->
         IF ~Contains(spoken, k) THEN child[run][k]
         ELSE [NewChild EXCEPT !.pc = IF k \in started THEN "load" ELSE "waiting"]]
  OBVIOUS
<1>18. child' = [child EXCEPT ![run] = now] BY <1>5, <1>7, <1>10, <1>17 DEF FanTyped
<1>19. [NewChild EXCEPT !.pc = "load"] \in AKid /\ [NewChild EXCEPT !.pc = "waiting"] \in AKid
       /\ [NewChild EXCEPT !.pc = "load"].pc = "load" /\ [NewChild EXCEPT !.pc = "waiting"].pc = "waiting"
  BY DEF NewChild, AKid, ChildPCs, Results
<1>20. ASSUME NEW k \in Kids
       PROVE  /\ now[k] \in AKid
              /\ ~InReply(k) => now[k] = child[run][k]
              /\ InReply(k) => now[k].pc = IF k \in started THEN "load" ELSE "waiting"
  <2>1. InReply(k) <=> Contains(spoken, k) BY <1>2 DEF InReply
  <2>2. child[run][k] \in AKid BY <1>10
  <2>3. now[k] = IF ~Contains(spoken, k) THEN child[run][k]
                 ELSE [NewChild EXCEPT !.pc = IF k \in started THEN "load" ELSE "waiting"]
    BY <1>17
  <2> QED BY <1>19, <2>1, <2>2, <2>3
<1>21. child' \in [Runs -> [Kids -> AKid]] /\ child'[run] = now
       /\ \A q \in Runs \ {run} : child'[q] = child[q]
  <2>1. now \in [Kids -> AKid] BY <1>17, <1>20
  <2>2. child \in [Runs -> [Kids -> AKid]] BY <1>1 DEF FanTyped
  <2> QED BY <1>10, <1>18, <2>1, <2>2
<1>22. PICK room : room = [active |-> limiter[run].active + begin, queue |-> limiter[run].queue \o waits]
  OBVIOUS
<1>23. limiter' = [limiter EXCEPT ![run] = room] BY <1>5, <1>6, <1>22
<1>24. room \in [active : Nat, queue : Seq(Kids)] BY <1>10, <1>12, <1>14, <1>22
<1>25. limiter' \in [Runs -> [active : Nat, queue : Seq(Kids)]] /\ limiter'[run] = room
       /\ \A q \in Runs \ {run} : limiter'[q] = limiter[q]
  BY <1>1, <1>10, <1>23, <1>24 DEF FanTyped
<1>26. /\ parent' \in [pc : ParentPCs, turn : Nat, reply : Seq(Asks), answered : [Asks -> Results]]
       /\ parent'.pc = "calls" /\ parent'.turn = parent.turn /\ parent'.reply = parent.reply
  BY <1>1, <1>9 DEF FanTyped, ParentPCs
<1>27. FanTyped' BY <1>1, <1>9, <1>21, <1>25, <1>26 DEF FanTyped
\* Who is alive.
<1>28. \A k \in Kids : InReply(k)' <=> InReply(k) BY <1>26 DEF InReply
<1>29. ASSUME NEW q \in Runs, NEW k \in Kids, Live(q, k)'
       PROVE  (q = run /\ InReply(k)) \/ (~(q = run /\ InReply(k)) /\ Live(q, k))
  <2>1. CASE q # run BY <1>21, <1>29, <2>1 DEF Live
  <2>2. CASE q = run /\ ~InReply(k)
    <3>1. child'[q][k] = child[q][k] BY <1>20, <1>21, <2>2
    <3> QED BY <1>29, <2>2, <3>1 DEF Live
  <2> QED BY <2>1, <2>2
<1>30. \A k \in Kids : InReply(k) => k \in Named(parent.turn) /\ parent.turn \in Turns
  BY <1>1 DEF LiveInv, RepliesAreOfTheTurn, Named
<1>31. RepliesAreOfTheTurn' BY <1>1, <1>26, <1>28, <1>30 DEF LiveInv, RepliesAreOfTheTurn
<1>32. LiveWasNamed'
  <2> SUFFICES ASSUME NEW q \in Runs, NEW k \in Kids, Live(q, k)'
               PROVE  q <= run' /\ \E t \in Turns : t <= parent'.turn /\ k \in Named(t)
    BY DEF LiveWasNamed
  <2>1. CASE q = run /\ InReply(k)
    <3>1. q <= run' /\ parent.turn <= parent'.turn
      BY <1>1, <1>9, <1>10, <1>26, <2>1 DEF FanTyped, Runs
    <3> QED BY <1>30, <2>1, <3>1
  <2>2. CASE Live(q, k) BY <1>1, <1>9, <1>26, <2>2 DEF LiveInv, LiveWasNamed
  <2> QED BY <1>29, <2>1, <2>2
<1>33. NewIsIdle' BY <1>26 DEF NewIsIdle
\* What this turn may name is not alive before it is launched, unless it was left behind.
<1>34. ASSUME NEW q \in Runs, NEW k \in Kids \ orphaned, Live(q, k) PROVE k \notin Named(parent.turn)
  BY <1>1, <1>34 DEF LiveInv, LiveIsOurs
<1>35. LiveIsOurs'
  <2> SUFFICES ASSUME NEW q \in Runs, NEW k \in Kids \ orphaned, Live(q, k)', k \in Named(parent.turn)
               PROVE  q = run /\ InReply(k)
    BY <1>9, <1>26, <1>28 DEF LiveIsOurs
  <2> QED BY <1>29, <1>34
<1>36. LiveIsOne'
  <2> SUFFICES ASSUME NEW k \in Kids \ orphaned, NEW q \in Runs, NEW p \in Runs, Live(q, k)', Live(p, k)'
               PROVE  q = p
    BY <1>9 DEF LiveIsOne
  <2>1. CASE InReply(k) BY <1>29, <1>30, <1>34, <2>1
  <2>2. CASE ~InReply(k)
    <3>1. Live(q, k) /\ Live(p, k) BY <1>29, <2>2
    <3> QED BY <1>1, <3>1 DEF LiveInv, LiveIsOne
  <2> QED BY <2>1, <2>2
<1>37. LiveInv' BY <1>31, <1>32, <1>33, <1>35, <1>36 DEF LiveInv
\* Who waits, and who works.
<1>38. PICK queue : queue = limiter[run].queue OBVIOUS
<1>39. /\ queue \in Seq(Kids) /\ Len(queue) \in Nat
       /\ \A i \in 1..Len(queue) : queue[i] \in Kids /\ child[run][queue[i]].pc = "waiting"
       /\ \A i, j \in 1..Len(queue) : queue[i] = queue[j] => i = j
  BY <1>10, <1>11, <1>38 DEF QueueOk
<1>40. ASSUME NEW i \in 1..Len(queue) PROVE ~InReply(queue[i]) /\ now[queue[i]].pc = "waiting"
  <2>1. Live(run, queue[i]) BY <1>39 DEF Live
  <2>2. ~InReply(queue[i]) BY <1>1, <1>30, <1>39, <2>1 DEF LiveInv, NewIsIdle
  <2> QED BY <1>20, <1>39, <2>2
<1>41. ASSUME NEW i \in 1..Len(waits) PROVE now[waits[i]].pc = "waiting"
  BY <1>15, <1>20
<1>42. PICK both : both = queue \o waits OBVIOUS
<1>43. /\ both \in Seq(Kids) /\ Len(both) = Len(queue) + Len(waits) /\ Len(waits) \in Nat
       /\ \A i \in 1..Len(both) : \/ i \in 1..Len(queue) /\ both[i] = queue[i]
                                  \/ /\ ~(i \in 1..Len(queue)) /\ i - Len(queue) \in 1..Len(waits)
                                     /\ both[i] = waits[i - Len(queue)]
  <2>5. queue \in Seq(Kids) /\ waits \in Seq(Kids) BY <1>14, <1>39
  <2>1. both \in Seq(Kids) /\ Len(both) = Len(queue) + Len(waits) /\ Len(waits) \in Nat
    BY <1>42, <2>5, ConcatProperties
  <2>2. \A i \in 1..Len(both) :
          both[i] = IF i <= Len(queue) THEN queue[i] ELSE waits[i - Len(queue)]
    BY <1>42, <2>1, <2>5, ConcatProperties
  <2>3. \A i \in 1..Len(both) : i <= Len(queue) <=> i \in 1..Len(queue) BY <1>39, <2>1
  <2>4. \A i \in 1..Len(both) : ~(i \in 1..Len(queue)) => i - Len(queue) \in 1..Len(waits)
    BY <1>39, <2>1
  <2> QED BY <2>1, <2>2, <2>3, <2>4
<1>44. ASSUME NEW i \in 1..Len(both) PROVE now[both[i]].pc = "waiting"
  <2>1. CASE i \in 1..Len(queue) BY <1>40, <1>43, <2>1
  <2>2. CASE i \notin 1..Len(queue)
    <3>1. PICK n \in 1..Len(waits) : both[i] = waits[n] BY <1>43, <2>2
    <3> QED BY <1>41, <3>1
  <2> QED BY <2>1, <2>2
<1>45. ASSUME NEW i \in 1..Len(both), NEW j \in 1..Len(both), both[i] = both[j] PROVE i = j
  <2>1. CASE i \in 1..Len(queue) /\ j \in 1..Len(queue) BY <1>39, <1>43, <1>45, <2>1
  <2>2. CASE i \in 1..Len(queue) /\ j \notin 1..Len(queue)
    <3>1. PICK n \in 1..Len(waits) : both[j] = waits[n] BY <1>43, <2>2
    <3>2. InReply(both[j]) BY <1>15, <3>1
    <3>3. ~InReply(both[i]) BY <1>40, <1>43, <2>2
    <3> QED BY <1>45, <3>2, <3>3
  <2>3. CASE i \notin 1..Len(queue) /\ j \in 1..Len(queue)
    <3>1. PICK n \in 1..Len(waits) : both[i] = waits[n] BY <1>43, <2>3
    <3>2. InReply(both[i]) BY <1>15, <3>1
    <3>3. ~InReply(both[j]) BY <1>40, <1>43, <2>3
    <3> QED BY <1>45, <3>2, <3>3
  <2>4. CASE i \notin 1..Len(queue) /\ j \notin 1..Len(queue)
    <3>1. PICK n \in 1..Len(waits) : n = i - Len(queue) /\ both[i] = waits[n] BY <1>43, <2>4
    <3>2. PICK m \in 1..Len(waits) : m = j - Len(queue) /\ both[j] = waits[m] BY <1>43, <2>4
    <3>3. n = m BY <1>16, <1>45, <3>1, <3>2
    <3> QED BY <1>39, <1>43, <3>1, <3>2, <3>3
  <2> QED BY <2>1, <2>2, <2>3, <2>4
<1>46. limiter'[run].queue = both /\ limiter'[run].active = limiter[run].active + begin
  BY <1>22, <1>25, <1>38, <1>42
<1>47. QueueOk(run)' BY <1>9, <1>21, <1>44, <1>45, <1>46 DEF QueueOk
<1>48. IsFiniteSet(started) /\ Cardinality(started) <= begin
  <2>1. begin \in Nat BY <1>8, <1>12
  <2>2. PICK f : f = [n \in 1..begin |-> spoken[at[n]]] OBVIOUS
  <2>3. started = {f[n] : n \in 1..begin} BY <1>7, <2>2
  <2> QED BY <2>1, <2>3, StartedAre
<1>49. IsFiniteSet(AtWork(run)) /\ Cardinality(AtWork(run)) \in Nat BY <1>10, Workers
<1>50. AtWork(run)' \subseteq AtWork(run) \cup started
  <2> SUFFICES ASSUME NEW k \in Kids, now[k].pc \in Working PROVE k \in AtWork(run) \cup started
    BY <1>9, <1>21 DEF AtWork
  <2>1. CASE InReply(k) BY <1>20, <2>1 DEF Working
  <2>2. CASE ~InReply(k) BY <1>20, <2>2 DEF AtWork
  <2> QED BY <2>1, <2>2
<1>51. /\ IsFiniteSet(AtWork(run) \cup started)
       /\ Cardinality(AtWork(run) \cup started) <= Cardinality(AtWork(run)) + begin
  <2>1. PICK W : W = AtWork(run) OBVIOUS
  <2>2. IsFiniteSet(W) /\ IsFiniteSet(started) BY <1>48, <1>49, <2>1
  <2>3. /\ IsFiniteSet(W \cup started)
        /\ Cardinality(W \cup started) = Cardinality(W) + Cardinality(started) - Cardinality(W \cap started)
    BY <2>2, FS_Union
  <2>4. IsFiniteSet(W \cap started) BY <2>2, FS_Subset
  <2>5. Cardinality(W \cap started) \in Nat /\ Cardinality(W) \in Nat /\ Cardinality(started) \in Nat
    BY <2>2, <2>4, FS_CardinalityType
  <2>6. begin \in Nat BY <1>8, <1>12
  <2> QED BY <1>48, <2>1, <2>3, <2>5, <2>6
<1>52. CountOk(run)'
  <2>1. PICK W : W = AtWork(run)' OBVIOUS
  <2>2. W \subseteq AtWork(run) \cup started BY <1>50, <2>1
  <2>3. IsFiniteSet(W) /\ Cardinality(W) <= Cardinality(AtWork(run) \cup started)
    BY <1>51, <2>2, FS_Subset
  <2>4. Cardinality(W) \in Nat /\ Cardinality(AtWork(run) \cup started) \in Nat
    BY <1>51, <2>3, FS_CardinalityType
  <2>5. begin \in Nat BY <1>8, <1>12
  <2>6. Cardinality(W) <= limiter[run].active + begin
    BY <1>10, <1>11, <1>49, <1>51, <2>3, <2>4, <2>5 DEF CountOk
  <2>7. Cardinality(AtWork(run)') <= limiter'[run].active /\ limiter'[run].active <= MaxParallel
    BY <1>12, <1>46, <2>1, <2>6
  <2> QED BY <1>9, <2>7 DEF CountOk
<1>53. ASSUME NEW q \in Runs \ {run} PROVE QueueOk(q)' /\ CountOk(q)'
  <2>1. QueueOk(q) /\ CountOk(q) BY <1>1 DEF WaitInv
  <2>2. AtWork(q)' = AtWork(q) BY <1>21 DEF AtWork
  <2> QED BY <1>21, <1>25, <2>1, <2>2 DEF QueueOk, CountOk
<1>54. ASSUME NEW q \in Runs, q = run PROVE QueueOk(q)' /\ CountOk(q)'
  BY <1>9, <1>47, <1>52, <1>54 DEF QueueOk, CountOk, AtWork
<1> QED BY <1>27, <1>37, <1>53, <1>54 DEF FanInv, WaitInv
-----------------------------------------------------------------------------
(***************************************************************************)
(* The steps of the main loop that launch nothing.  None of them touches a *)
(* subagent, and the death of the process ends them all.                   *)
(***************************************************************************)
LEMMA WaitStays ==
  ASSUME WaitInv, UNCHANGED <<limiter, child>>
  PROVE  WaitInv'
BY DEF WaitInv, QueueOk, CountOk, AtWork

\* What follows for what is alive when only the main loop moves.
LEMMA LiveStays ==
  ASSUME UNCHANGED child
  PROVE  \A r, k : Live(r, k)' <=> Live(r, k)
BY DEF Live

\* What is left behind answers for itself.
LEMMA ThrowKeeps ==
  ASSUME FanInv, Throw, parent.pc # "done", UNCHANGED <<run, limiter, child, saved>>
  PROVE  FanInv'
<1>1. FanTyped /\ LiveInv /\ WaitInv BY DEF FanInv
<1>2. /\ parent' \in [pc : ParentPCs, turn : Nat, reply : Seq(Asks), answered : [Asks -> Results]]
      /\ parent'.pc = "paused" /\ parent'.turn = parent.turn /\ parent'.reply = parent.reply
  BY <1>1 DEF Throw, FanTyped, ParentPCs
<1>3. orphaned' = orphaned \cup StillRunning BY DEF Throw
<1>4. FanTyped' BY <1>1, <1>2, <1>3 DEF FanTyped, StillRunning
<1>5. \A r \in Runs, k \in Kids \ orphaned' : ~Live(r, k) BY <1>3 DEF StillRunning
<1>6. \A r, k : Live(r, k)' <=> Live(r, k) BY LiveStays
<1>7. LiveIsOurs' /\ LiveIsOne' BY <1>5, <1>6 DEF LiveIsOurs, LiveIsOne
<1>8. RepliesAreOfTheTurn' BY <1>1, <1>2 DEF LiveInv, RepliesAreOfTheTurn, InReply
<1>9. LiveWasNamed' BY <1>1, <1>2, <1>6 DEF LiveInv, LiveWasNamed
<1>10. NewIsIdle' BY <1>2 DEF NewIsIdle
<1>11. WaitInv' BY <1>1, WaitStays
<1> QED BY <1>4, <1>7, <1>8, <1>9, <1>10, <1>11 DEF FanInv, LiveInv

LEMMA ThinkKeeps == ASSUME FanInv, Think PROVE FanInv'
<1>1. FanTyped /\ LiveInv /\ WaitInv /\ parent.pc = "think" /\ UNCHANGED <<run, limiter, child, saved>>
  BY DEF FanInv, Think
<1>2. CASE Throw BY <1>1, <1>2, ThrowKeeps
<1>3. CASE ~Throw
  <2>1. PICK named \in Replies[parent.turn] :
          parent' = [parent EXCEPT !.pc = "launch", !.reply = named, !.answered = Unanswered]
    BY <1>3 DEF Think
  <2>2. UNCHANGED orphaned BY <1>3 DEF Think
  <2>3. parent.turn \in Turns BY <1>1 DEF LiveInv, RepliesAreOfTheTurn
  <2>4. named \in Seq(Asks) /\ IsInjective(named) BY <2>1, <2>3, SubagentsAssumption
  <2>5. Unanswered \in [Asks -> Results] BY DEF Unanswered, Results
  <2>6. parent' = [pc |-> "launch", turn |-> parent.turn, reply |-> named, answered |-> Unanswered]
    BY <1>1, <2>1 DEF FanTyped
  <2>7. parent.turn \in Nat BY <1>1 DEF FanTyped
  <2>8. parent' \in [pc : ParentPCs, turn : Nat, reply : Seq(Asks), answered : [Asks -> Results]]
    BY <2>4, <2>5, <2>6, <2>7 DEF ParentPCs
  <2>9. FanTyped' BY <1>1, <2>2, <2>8 DEF FanTyped
  <2>10. \A k \in Kids : Contains(named, k) => k \in Named(parent.turn) BY <2>1, <2>3 DEF Named
  <2>11. RepliesAreOfTheTurn' BY <2>3, <2>4, <2>6, <2>10 DEF RepliesAreOfTheTurn, InReply
  <2>12. \A r, k : Live(r, k)' <=> Live(r, k) BY <1>1, LiveStays
  <2>13. parent'.turn = parent.turn /\ parent'.pc = "launch" /\ run' = run /\ orphaned' = orphaned
    BY <1>1, <2>2, <2>6
  <2>14. LiveWasNamed' BY <1>1, <2>12, <2>13 DEF LiveInv, LiveWasNamed
  <2>15. NewIsIdle' BY <1>1, <2>12, <2>13 DEF LiveInv, NewIsIdle
  <2>16. LiveIsOurs' BY <1>1, <2>12, <2>13 DEF LiveInv, LiveIsOurs
  <2>17. LiveIsOne' BY <1>1, <2>12, <2>13 DEF LiveInv, LiveIsOne
  <2>18. WaitInv' BY <1>1, WaitStays
  <2> QED BY <2>9, <2>11, <2>14, <2>15, <2>16, <2>17, <2>18 DEF FanInv, LiveInv
<1> QED BY <1>2, <1>3

\* The calls are answered one by one.
LEMMA AnswersOn ==
  ASSUME FanInv, UNCHANGED <<run, orphaned, limiter, child, saved>>, parent.pc = "calls",
         parent' \in [pc : ParentPCs, turn : Nat, reply : Seq(Asks), answered : [Asks -> Results]],
         parent'.turn = parent.turn, parent'.reply = parent.reply, parent'.pc \in {"calls", "joining"}
  PROVE  FanInv'
<1>1. FanTyped /\ LiveInv /\ WaitInv BY DEF FanInv
<1>2. FanTyped' BY <1>1 DEF FanTyped
<1>3. \A r, k : Live(r, k)' <=> Live(r, k) BY LiveStays
<1>4. \A k : InReply(k)' <=> InReply(k) BY DEF InReply
<1>5. RepliesAreOfTheTurn' BY <1>1, <1>4 DEF LiveInv, RepliesAreOfTheTurn
<1>6. LiveWasNamed' BY <1>1, <1>3 DEF LiveInv, LiveWasNamed
<1>7. NewIsIdle' BY DEF NewIsIdle
<1>8. LiveIsOurs' BY <1>1, <1>3, <1>4 DEF LiveInv, LiveIsOurs
<1>9. LiveIsOne' BY <1>1, <1>3 DEF LiveInv, LiveIsOne
<1>10. WaitInv' BY <1>1, WaitStays
<1> QED BY <1>2, <1>5, <1>6, <1>7, <1>8, <1>9, <1>10 DEF FanInv, LiveInv

LEMMA AnswerCallKeeps == ASSUME FanInv, AnswerCall PROVE FanInv'
<1>1. FanTyped /\ parent.pc = "calls" /\ UNCHANGED <<run, limiter, child, saved>>
  BY DEF FanInv, AnswerCall
<1>2. CASE Throw BY <1>1, <1>2, ThrowKeeps
<1>3. CASE ~Throw
  <2>1. PICK call : call = parent.reply[Min(Pending)] OBVIOUS
  <2>2. PICK with : with = IF call = PaidService THEN "completed" ELSE child[run][call].result OBVIOUS
  <2>3. UNCHANGED orphaned /\ \/ parent' = [parent EXCEPT !.answered[call] = with]
                              \/ parent' = [parent EXCEPT !.pc = "joining"]
    BY <1>3, <2>1, <2>2 DEF AnswerCall
  <2>4. CASE parent' = [parent EXCEPT !.answered[call] = with]
    <3>1. PICK given : given = [parent.answered EXCEPT ![call] = with] OBVIOUS
    <3>2. parent.answered \in [Asks -> Results] BY <1>1 DEF FanTyped
    <3>3. call \in Asks => with \in Results
      <4>1. call \in Kids => child[run][call] \in AKid BY <1>1 DEF FanTyped
      <4> QED BY <2>2, <4>1 DEF Asks, AKid, Results
    <3>4. given \in [Asks -> Results] BY <3>1, <3>2, <3>3
    <3>5. parent' = [parent EXCEPT !.answered = given] BY <2>4, <3>1
    <3>6. /\ parent' \in [pc : ParentPCs, turn : Nat, reply : Seq(Asks), answered : [Asks -> Results]]
          /\ parent'.turn = parent.turn /\ parent'.reply = parent.reply /\ parent'.pc = "calls"
      BY <1>1, <3>4, <3>5 DEF FanTyped
    <3> QED BY <1>1, <2>3, <3>6, AnswersOn
  <2>5. CASE parent' = [parent EXCEPT !.pc = "joining"]
    <3>1. /\ parent' \in [pc : ParentPCs, turn : Nat, reply : Seq(Asks), answered : [Asks -> Results]]
          /\ parent'.turn = parent.turn /\ parent'.reply = parent.reply /\ parent'.pc = "joining"
      BY <1>1, <2>5 DEF FanTyped, ParentPCs
    <3> QED BY <1>1, <2>3, <3>1, AnswersOn
  <2> QED BY <2>3, <2>4, <2>5
<1> QED BY <1>2, <1>3

\* The fan-out is joined: nothing the turn may name is alive but what was left behind.
LEMMA JoinedKeeps == ASSUME FanInv, Joined PROVE FanInv'
<1>1. FanTyped /\ LiveInv /\ WaitInv /\ UNCHANGED <<run, orphaned, limiter, child, saved>>
  BY DEF FanInv, Joined
<1>2. /\ parent' \in [pc : ParentPCs, turn : Nat, reply : Seq(Asks), answered : [Asks -> Results]]
      /\ parent'.turn = parent.turn /\ parent'.reply = parent.reply /\ parent'.pc = "paused"
  BY <1>1 DEF Joined, FanTyped, ParentPCs
<1>3. FanTyped' BY <1>1, <1>2 DEF FanTyped
<1>4. \A r, k : Live(r, k)' <=> Live(r, k) BY <1>1, LiveStays
<1>5. \A k : InReply(k)' <=> InReply(k) BY <1>2 DEF InReply
<1>6. RepliesAreOfTheTurn' BY <1>1, <1>2, <1>5 DEF LiveInv, RepliesAreOfTheTurn, Joined
<1>7. LiveWasNamed' BY <1>1, <1>2, <1>4 DEF LiveInv, LiveWasNamed
<1>8. NewIsIdle' BY <1>2 DEF NewIsIdle
<1>9. \A r \in Runs, k \in Kids \ orphaned : Live(r, k) => k \notin Named(parent.turn)
  <2> SUFFICES ASSUME NEW r \in Runs, NEW k \in Kids \ orphaned, Live(r, k), k \in Named(parent.turn)
               PROVE  FALSE
    OBVIOUS
  <2>1. r = run /\ InReply(k) BY <1>1 DEF LiveInv, LiveIsOurs
  <2>2. k \in Unsettled(parent.reply) BY <2>1 DEF Unsettled, InReply
  <2> QED BY <2>2 DEF Joined
<1>10. LiveIsOurs' BY <1>1, <1>2, <1>4, <1>9 DEF LiveIsOurs
<1>11. LiveIsOne' BY <1>1, <1>4 DEF LiveInv, LiveIsOne
<1>12. WaitInv' BY <1>1, WaitStays
<1> QED BY <1>3, <1>6, <1>7, <1>8, <1>10, <1>11, <1>12 DEF FanInv, LiveInv

\* The next turn names none of those that an earlier one did.
LEMMA NextMainTurnKeeps == ASSUME FanInv, NextMainTurn PROVE FanInv'
<1>1. FanTyped /\ LiveInv /\ WaitInv /\ UNCHANGED <<run, orphaned, limiter, child, saved>>
      /\ parent.pc = "calls"
  BY DEF FanInv, NextMainTurn
<1>2. parent.turn \in Nat /\ parent.turn \in Turns BY <1>1 DEF FanTyped, LiveInv, RepliesAreOfTheTurn
<1>3. /\ parent'.turn = parent.turn + 1 /\ parent'.reply = <<>> /\ parent'.answered = Unanswered
      /\ parent'.pc = IF parent.turn + 1 = MaxTurns THEN "done" ELSE "think"
      /\ parent' = [pc |-> parent'.pc, turn |-> parent'.turn, reply |-> <<>>, answered |-> Unanswered]
  BY DEF NextMainTurn
<1>4. Unanswered \in [Asks -> Results] BY DEF Unanswered, Results
<1>5. parent' \in [pc : ParentPCs, turn : Nat, reply : Seq(Asks), answered : [Asks -> Results]]
  <2>1. parent'.pc \in ParentPCs BY <1>3 DEF ParentPCs
  <2>2. parent.turn + 1 \in Nat /\ <<>> \in Seq(Asks) BY <1>2
  <2> QED BY <1>3, <1>4, <2>1, <2>2
<1>6. FanTyped' BY <1>1, <1>5 DEF FanTyped
<1>7. \A r, k : Live(r, k)' <=> Live(r, k) BY <1>1, LiveStays
<1>8. ASSUME NEW r \in Runs, NEW k \in Kids, Live(r, k) PROVE k \notin Named(parent'.turn)
  <2>1. PICK t \in Turns : t <= parent.turn /\ k \in Named(t) BY <1>1, <1>8 DEF LiveInv, LiveWasNamed
  <2>2. t # parent'.turn BY <1>2, <1>3, <2>1 DEF Turns
  <2>3. CASE parent'.turn \in Turns BY <2>1, <2>2, <2>3, SubagentsAssumption
  <2>4. CASE parent'.turn \notin Turns BY <2>4 DEF Named
  <2> QED BY <2>3, <2>4
<1>9. RepliesAreOfTheTurn'
  <2>1. parent'.pc # "done" => parent'.turn \in Turns
    BY <1>2, <1>3, SubagentsAssumption DEF Turns
  <2>2. IsInjective(<<>>) BY DEF IsInjective
  <2>3. \A k : ~InReply(k)' BY <1>3 DEF InReply, Contains
  <2> QED BY <1>3, <2>1, <2>2, <2>3 DEF RepliesAreOfTheTurn
<1>10. LiveWasNamed'
  <2>1. \A t \in Turns : t <= parent.turn => t <= parent'.turn BY <1>2, <1>3 DEF Turns
  <2> QED BY <1>1, <1>7, <2>1 DEF LiveInv, LiveWasNamed
<1>11. NewIsIdle'
  <2>1. Named(parent'.turn) \subseteq Kids BY DEF Named
  <2>2. run \in Runs /\ run' = run BY <1>1 DEF FanTyped
  <2> QED BY <1>7, <1>8, <2>1, <2>2 DEF NewIsIdle
<1>12. LiveIsOurs' BY <1>1, <1>7, <1>8 DEF LiveIsOurs
<1>13. LiveIsOne' BY <1>1, <1>7 DEF LiveInv, LiveIsOne
<1>14. WaitInv' BY <1>1, WaitStays
<1> QED BY <1>6, <1>9, <1>10, <1>11, <1>12, <1>13, <1>14 DEF FanInv, LiveInv

\* A run that is resumed finds alive only what was left behind, and in other runs.
LEMMA ResumeKeeps == ASSUME FanInv, Resume PROVE FanInv'
<1>1. FanTyped /\ LiveInv /\ WaitInv /\ UNCHANGED <<orphaned, limiter, child, saved>>
      /\ parent.pc = "paused" /\ run < MaxRuns /\ run' = run + 1
  BY DEF FanInv, Resume
<1>2. run \in Nat /\ run' \in Runs
  <2>1. run \in 1..MaxRuns /\ MaxRuns \in Nat BY <1>1, SubagentsAssumption DEF FanTyped, Runs
  <2> QED BY <1>1, <2>1 DEF Runs
<1>3. /\ parent' \in [pc : ParentPCs, turn : Nat, reply : Seq(Asks), answered : [Asks -> Results]]
      /\ parent'.turn = parent.turn /\ parent'.reply = parent.reply
  BY <1>1 DEF Resume, FanTyped, ParentPCs
<1>4. FanTyped' BY <1>1, <1>2, <1>3 DEF FanTyped
<1>5. \A r, k : Live(r, k)' <=> Live(r, k) BY <1>1, LiveStays
<1>6. \A k : InReply(k)' <=> InReply(k) BY <1>3 DEF InReply
<1>7. RepliesAreOfTheTurn' BY <1>1, <1>3, <1>6 DEF LiveInv, RepliesAreOfTheTurn
<1>8. LiveWasNamed'
  <2>1. \A r \in Runs : r <= run => r <= run' BY <1>1, <1>2 DEF Runs
  <2> QED BY <1>1, <1>3, <1>5, <2>1 DEF LiveInv, LiveWasNamed
<1>9. NewIsIdle'
  <2>1. Named(parent.turn) \subseteq Kids BY DEF Named
  <2>2. ~(run' <= run) BY <1>1, <1>2
  <2>3. \A k \in Kids : ~Live(run', k) BY <1>1, <1>2, <2>2 DEF LiveInv, LiveWasNamed
  <2>4. PICK now : now = run' OBVIOUS
  <2>5. \A k \in Kids : ~Live(now, k)' BY <1>5, <2>3, <2>4
  <2>6. \A k \in Kids : ~(child'[run'][k].pc \notin {"new", "done"}) BY <2>4, <2>5 DEF Live
  <2> QED BY <1>3, <2>1, <2>6 DEF NewIsIdle, Live
<1>10. \A r \in Runs, k \in Kids \ orphaned : Live(r, k) => k \notin Named(parent.turn)
  BY <1>1 DEF LiveInv, LiveIsOurs
<1>11. LiveIsOurs' BY <1>1, <1>3, <1>5, <1>10 DEF LiveIsOurs
<1>12. LiveIsOne' BY <1>1, <1>5 DEF LiveInv, LiveIsOne
<1>13. WaitInv' BY <1>1, WaitStays
<1> QED BY <1>4, <1>7, <1>8, <1>9, <1>11, <1>12, <1>13 DEF FanInv, LiveInv

\* When nothing runs, nothing waits.
LEMMA NobodyWaits ==
  ASSUME child = [r \in Runs |-> [k \in Kids |-> NewChild]],
         limiter = [r \in Runs |-> [active |-> 0, queue |-> <<>>]]
  PROVE  /\ WaitInv /\ \A r \in Runs, k \in Kids : ~Live(r, k)
         /\ child \in [Runs -> [Kids -> AKid]] /\ limiter \in [Runs -> [active : Nat, queue : Seq(Kids)]]
<1>1. NewChild \in AKid /\ NewChild.pc = "new" BY DEF NewChild, AKid, ChildPCs, Results
<1>2. \A r \in Runs : AtWork(r) = {} BY <1>1 DEF AtWork, Working
<1>3. MaxParallel \in Nat BY SubagentsAssumption
<1>4. \A r \in Runs : QueueOk(r) /\ CountOk(r) BY <1>2, <1>3, FS_EmptySet DEF QueueOk, CountOk
<1> QED BY <1>1, <1>4 DEF WaitInv, Live

LEMMA CrashKeeps == ASSUME FanInv, Crash PROVE FanInv'
<1>1. FanTyped /\ LiveInv /\ UNCHANGED <<run, orphaned, saved>> /\ parent.pc # "done"
      /\ child' = [r \in Runs |-> [k \in Kids |-> NewChild]]
      /\ limiter' = [r \in Runs |-> [active |-> 0, queue |-> <<>>]]
  BY DEF FanInv, Crash
<1>2. /\ parent' \in [pc : ParentPCs, turn : Nat, reply : Seq(Asks), answered : [Asks -> Results]]
      /\ parent'.turn = parent.turn /\ parent'.reply = parent.reply /\ parent'.pc = "paused"
  BY <1>1 DEF Crash, FanTyped, ParentPCs
<1>3. NewChild \in AKid /\ NewChild.pc = "new" BY DEF NewChild, AKid, ChildPCs, Results
<1>4. FanTyped' BY <1>1, <1>2, <1>3 DEF FanTyped
<1>5. \A r \in Runs, k \in Kids : ~Live(r, k)' BY <1>1, <1>3 DEF Live
<1>6. RepliesAreOfTheTurn' BY <1>1, <1>2 DEF LiveInv, RepliesAreOfTheTurn, InReply
<1>7. LiveWasNamed' /\ LiveIsOurs' /\ LiveIsOne' BY <1>5 DEF LiveWasNamed, LiveIsOurs, LiveIsOne
<1>8. NewIsIdle' BY <1>2 DEF NewIsIdle
<1>9. \A r \in Runs : AtWork(r)' = {} BY <1>1, <1>3 DEF AtWork, Working
<1>10. MaxParallel \in Nat BY SubagentsAssumption
<1>11. ASSUME NEW r \in Runs PROVE QueueOk(r)' /\ CountOk(r)'
  <2>1. limiter'[r] = [active |-> 0, queue |-> <<>>] BY <1>1
  <2>2. QueueOk(r)' BY <2>1 DEF QueueOk
  <2>3. PICK W : W = AtWork(r)' OBVIOUS
  <2>4. Cardinality(W) = 0 BY <1>9, <2>3, FS_EmptySet
  <2>5. Cardinality(AtWork(r)') <= limiter'[r].active BY <2>1, <2>3, <2>4
  <2> QED BY <1>10, <2>1, <2>2, <2>5 DEF CountOk
<1> QED BY <1>4, <1>6, <1>7, <1>8, <1>11 DEF FanInv, LiveInv, WaitInv

\* A cancel is a mark on the run.
LEMMA CancelKeeps ==
  ASSUME FanInv, UNCHANGED <<parent, run, limiter, child, saved, orphaned>> PROVE FanInv'
<1>1. FanTyped /\ LiveInv /\ WaitInv BY DEF FanInv
<1>2. \A r, k : Live(r, k)' <=> Live(r, k) BY LiveStays
<1>3. LiveInv' BY <1>1, <1>2, NothingNewLives
<1>4. FanTyped' BY <1>1 DEF FanTyped
<1>5. WaitInv' BY <1>1, WaitStays
<1> QED BY <1>3, <1>4, <1>5 DEF FanInv

LEMMA FanStarts == FanInit => FanInv
<1> SUFFICES ASSUME FanInit PROVE FanInv OBVIOUS
<1>1. /\ parent = [pc |-> "think", turn |-> 0, reply |-> <<>>, answered |-> Unanswered]
      /\ run = 1 /\ orphaned = {} /\ saved = [k \in Kids |-> NoSave]
      /\ child = [r \in Runs |-> [k \in Kids |-> NewChild]]
      /\ limiter = [r \in Runs |-> [active |-> 0, queue |-> <<>>]]
  BY DEF FanInit
<1>2. WaitInv /\ \A r \in Runs, k \in Kids : ~Live(r, k) BY <1>1, NobodyWaits
<1>3. run \in Runs /\ 0 \in Turns BY <1>1, SubagentsAssumption DEF Runs, Turns
<1>4. Unanswered \in [Asks -> Results] BY DEF Unanswered, Results
<1>5. NoSave \in ASave BY DEF NoSave, ASave, Results
<1>6. /\ child \in [Runs -> [Kids -> AKid]] /\ limiter \in [Runs -> [active : Nat, queue : Seq(Kids)]]
  BY <1>1, NobodyWaits
<1>7. parent \in [pc : ParentPCs, turn : Nat, reply : Seq(Asks), answered : [Asks -> Results]]
  BY <1>1, <1>4 DEF ParentPCs
<1>8. FanTyped BY <1>1, <1>3, <1>5, <1>6, <1>7 DEF FanTyped
<1>9. RepliesAreOfTheTurn
  <2>1. IsInjective(<<>>) BY DEF IsInjective
  <2>2. \A k : ~InReply(k) BY <1>1 DEF InReply, Contains
  <2> QED BY <1>1, <1>3, <2>1, <2>2 DEF RepliesAreOfTheTurn
<1>10. LiveWasNamed /\ LiveIsOurs /\ LiveIsOne BY <1>2 DEF LiveWasNamed, LiveIsOurs, LiveIsOne
<1>11. NewIsIdle
  <2>1. Named(parent.turn) \subseteq Kids BY DEF Named
  <2> QED BY <1>2, <1>3, <2>1 DEF NewIsIdle
<1> QED BY <1>2, <1>8, <1>9, <1>10, <1>11 DEF FanInv, LiveInv

LEMMA FanKeeps == FanInv /\ [FanNext]_fanVars => FanInv'
<1> SUFFICES ASSUME FanInv, [FanNext]_fanVars PROVE FanInv' OBVIOUS
<1>1. CASE Think BY <1>1, ThinkKeeps
<1>2. CASE Launch BY <1>2, LaunchKeeps
<1>3. CASE AnswerCall BY <1>3, AnswerCallKeeps
<1>4. CASE Joined BY <1>4, JoinedKeeps
<1>5. CASE NextMainTurn BY <1>5, NextMainTurnKeeps
<1>6. CASE Resume BY <1>6, ResumeKeeps
<1>7. CASE Cancel BY <1>7, CancelKeeps DEF Cancel
<1>8. CASE Crash BY <1>8, CrashKeeps
<1>9. ASSUME NEW r \in Runs, NEW k \in Kids, ChildStep(r, k) PROVE FanInv'
  <2>1. UNCHANGED <<parent, run, orphaned>> BY <1>9 DEF ChildStep
  <2>2. CASE LoadChild(r, k) BY <2>1, <2>2, LoadChildKeeps
  <2>3. CASE AskChild(r, k) BY <2>1, <2>3, AskChildKeeps
  <2>4. CASE Execute(r, k) BY <2>1, <2>4, ExecuteKeeps
  <2>5. CASE ToolDone(r, k) BY <2>1, <2>5, ToolDoneKeeps
  <2> QED BY <1>9, <2>2, <2>3, <2>4, <2>5 DEF ChildStep
<1>10. CASE UNCHANGED fanVars BY <1>10, CancelKeeps DEF fanVars
<1> QED BY <1>1, <1>2, <1>3, <1>4, <1>5, <1>6, <1>7, <1>8, <1>9, <1>10 DEF FanNext, ParentStep

\* A subagent that was not left behind is alive in one run at most, whatever pauses,
\* is cancelled, dies and is resumed.
THEOREM SubagentsAreOne == FanSpec => []OneInstance
<1>1. FanInv => OneInstance
  <2> SUFFICES ASSUME FanInv, NEW k \in Kids \ orphaned
               PROVE  Cardinality({r \in Runs : Live(r, k)}) <= 1
    BY DEF OneInstance
  <2>1. PICK S : S = {r \in Runs : Live(r, k)} OBVIOUS
  <2>2. \A r, q \in S : r = q BY <2>1 DEF FanInv, LiveInv, LiveIsOne
  <2>3. CASE S = {} BY <2>1, <2>3, FS_EmptySet
  <2>4. CASE S # {}
    <3>3. PICK r \in S : TRUE BY <2>4
    <3>1. S = {r} BY <2>2, <3>3
    <3>2. Cardinality({r}) = 1 BY FS_Singleton
    <3> QED BY <2>1, <3>1, <3>2
  <2> QED BY <2>3, <2>4
<1> QED BY <1>1, FanStarts, FanKeeps, PTL DEF FanSpec

\* The limiter of a run lets no more subagents work at once than it is told.
THEOREM LimiterHolds == FanSpec => []LimiterBound
<1>1. FanInv => LimiterBound
  <2> SUFFICES ASSUME FanInv, NEW r \in Runs
               PROVE  Cardinality({k \in Kids : Running(r, k)}) <= MaxParallel
    BY DEF LimiterBound
  <2>1. child[r] \in [Kids -> AKid] /\ limiter[r].active \in Nat /\ MaxParallel \in Nat
    BY SubagentsAssumption DEF FanInv, FanTyped
  <2>2. \A k \in Kids : Running(r, k) <=> child[r][k].pc \in Working
    <3> SUFFICES ASSUME NEW k \in Kids PROVE Running(r, k) <=> child[r][k].pc \in Working OBVIOUS
    <3>1. child[r][k].pc \in ChildPCs BY <2>1 DEF AKid
    <3> QED BY <3>1 DEF Running, Live, Working, ChildPCs
  <2>3. {k \in Kids : Running(r, k)} = AtWork(r) BY <2>2 DEF AtWork
  <2>4. Cardinality(AtWork(r)) <= limiter[r].active /\ limiter[r].active <= MaxParallel
    BY DEF FanInv, WaitInv, CountOk
  <2>5. Cardinality(AtWork(r)) \in Nat BY Workers
  <2> QED BY <2>1, <2>3, <2>4, <2>5
<1> QED BY <1>1, FanStarts, FanKeeps, PTL DEF FanSpec

-----------------------------------------------------------------------------
(***************************************************************************)
(* The tools of a subagent.  Its cursor, by the checkpoint, is the first   *)
(* turn whose tool is not known to have been executed.  The one instance   *)
(* there is stands at the cursor, and from there on a tool was executed    *)
(* only before a crash, but for the one that instance has just executed.   *)
(***************************************************************************)
Acting == {"ask", "tool", "ran"}
Cursor(k) == saved[k].turn + (IF saved[k].tool = "completed" THEN 1 ELSE 0)

KidInv(k) ==
  /\ \A t \in ToolTurns : ran[k][t] <= 1 + crashes
  /\ saved[k].result = "none" =>
       \A t \in ToolTurns : t >= Cursor(k) =>
         ran[k][t] <= crashes \/ \E r \in Runs : child[r][k].pc = "ran" /\ child[r][k].turn = t
  /\ \A r \in Runs : child[r][k].pc \in Acting =>
                       saved[k].result = "none" /\ child[r][k].turn = Cursor(k)

ToolTyped == ran \in [Kids -> [ToolTurns -> Nat]] /\ crashes \in Nat
ToolInv   == ToolTyped /\ \A k \in Kids \ orphaned : KidInv(k)

LEMMA CursorIsNatural ==
  ASSUME FanTyped, NEW k \in Kids
  PROVE  saved[k] \in ASave /\ saved[k].turn \in Nat /\ Cursor(k) \in Nat
BY DEF FanTyped, ASave, Cursor

\* Nothing of a subagent moves but what is not acting.
LEMMA KidStays ==
  ASSUME NEW k \in Kids, KidInv(k), ran'[k] = ran[k], saved'[k] = saved[k], crashes' = crashes,
         \A r \in Runs : \/ child'[r][k] = child[r][k]
                         \/ child[r][k].pc # "ran" /\ child'[r][k].pc \notin Acting
  PROVE  KidInv(k)'
<1>1. Cursor(k)' = Cursor(k) BY DEF Cursor
<1>2. \A r \in Runs : child[r][k].pc = "ran" => child'[r][k] = child[r][k] OBVIOUS
<1>3. \A r \in Runs : child'[r][k].pc \in Acting => child'[r][k] = child[r][k] OBVIOUS
<1>4. \A t \in ToolTurns : ran'[k][t] <= 1 + crashes' BY DEF KidInv
<1>5. saved'[k].result = "none" =>
        \A t \in ToolTurns : t >= Cursor(k)' =>
          ran'[k][t] <= crashes' \/ \E r \in Runs : child'[r][k].pc = "ran" /\ child'[r][k].turn = t
  BY <1>1, <1>2 DEF KidInv
<1>6. \A r \in Runs : child'[r][k].pc \in Acting =>
                        saved'[k].result = "none" /\ child'[r][k].turn = Cursor(k)'
  BY <1>1, <1>3 DEF KidInv
<1> QED BY <1>4, <1>5, <1>6 DEF KidInv

LEMMA AloneInItsRun ==
  ASSUME FanInv, NEW k \in Kids \ orphaned, NEW r \in Runs, Live(r, k)
  PROVE  \A q \in Runs \ {r} : child[q][k].pc \in {"new", "done"}
<1> SUFFICES ASSUME NEW q \in Runs \ {r}, Live(q, k) PROVE FALSE BY DEF Live
<1> QED BY DEF FanInv, LiveInv, LiveIsOne

\* The one that acts goes on to a turn whose tool has not been executed.
LEMMA KidGoesOn ==
  ASSUME FanInv, NEW k \in Kids \ orphaned, NEW r \in Runs, Live(r, k), KidInv(k),
         child'[r][k].pc \in {"ask", "tool"}, child'[r][k].turn = Cursor(k)',
         \A q \in Runs \ {r} : child'[q][k] = child[q][k],
         saved[k].result = "none", saved'[k].result = "none",
         Cursor(k)' \in Nat, Cursor(k)' >= Cursor(k),
         child[r][k].pc = "ran" => Cursor(k)' > child[r][k].turn,
         ran'[k] = ran[k], crashes' = crashes
  PROVE  KidInv(k)'
<1>1. \A q \in Runs \ {r} : child[q][k].pc \in {"new", "done"} BY AloneInItsRun
<1>2. Cursor(k) \in Nat BY CursorIsNatural DEF FanInv
<1>3. PICK c \in Nat : c = Cursor(k)' OBVIOUS
<1>4. \A t \in ToolTurns : ran'[k][t] <= 1 + crashes' BY DEF KidInv
<1>5. ASSUME NEW t \in ToolTurns, t >= c PROVE ran[k][t] <= crashes
  <2>1. t \in Nat BY SubagentsAssumption DEF ToolTurns
  <2>2. t >= Cursor(k) BY <1>2, <1>3, <1>5, <2>1
  <2>3. ~\E q \in Runs : child[q][k].pc = "ran" /\ child[q][k].turn = t
    BY <1>1, <1>3, <1>5, <2>1
  <2> QED BY <2>2, <2>3 DEF KidInv
<1>6. \A q \in Runs : child'[q][k].pc \in Acting => q = r BY <1>1 DEF Acting
<1> QED BY <1>3, <1>4, <1>5, <1>6 DEF KidInv

\* The one that acts ends, without a result or with one.
LEMMA KidEnds ==
  ASSUME FanInv, NEW k \in Kids \ orphaned, NEW r \in Runs, Live(r, k), KidInv(k),
         child'[r][k].pc = "done", \A q \in Runs \ {r} : child'[q][k] = child[q][k],
         saved'[k].result = "none" => /\ child[r][k].pc # "ran" /\ saved[k].result = "none"
                                      /\ Cursor(k)' = Cursor(k),
         ran'[k] = ran[k], crashes' = crashes
  PROVE  KidInv(k)'
<1>1. \A q \in Runs \ {r} : child[q][k].pc \in {"new", "done"} BY AloneInItsRun
<1>2. \A t \in ToolTurns : ran'[k][t] <= 1 + crashes' BY DEF KidInv
<1>3. \A q \in Runs : child'[q][k].pc \notin Acting BY <1>1 DEF Acting
<1>4. ASSUME saved'[k].result = "none", NEW t \in ToolTurns, t >= Cursor(k)'
      PROVE  ran'[k][t] <= crashes'
  <2>1. ~\E q \in Runs : child[q][k].pc = "ran" /\ child[q][k].turn = t BY <1>1, <1>4
  <2> QED BY <1>4, <2>1 DEF KidInv
<1> QED BY <1>2, <1>3, <1>4 DEF KidInv

\* A tool is executed at the cursor, where it was not since the last crash.
LEMMA KidExecutes ==
  ASSUME FanInv, ToolTyped, NEW k \in Kids \ orphaned, NEW r \in Runs, KidInv(k),
         child[r][k].pc = "tool", child'[r][k].pc = "ran", child'[r][k].turn = child[r][k].turn,
         \A q \in Runs \ {r} : child'[q][k] = child[q][k],
         saved'[k] = saved[k], crashes' = crashes,
         ran'[k] = [ran[k] EXCEPT ![child[r][k].turn] = @ + 1]
  PROVE  KidInv(k)'
<1>0. Live(r, k) BY DEF Live
<1>1. \A q \in Runs \ {r} : child[q][k].pc \in {"new", "done"} BY <1>0, AloneInItsRun
<1>2. PICK now : now = child[r][k].turn OBVIOUS
<1>3. saved[k].result = "none" /\ now = Cursor(k) /\ now \in Nat
  BY <1>2, CursorIsNatural DEF KidInv, Acting, FanInv
<1>4. Cursor(k)' = now BY <1>3 DEF Cursor
<1>5. ran[k] \in [ToolTurns -> Nat] /\ crashes \in Nat BY DEF ToolTyped
<1>6. ~\E q \in Runs : child[q][k].pc = "ran" BY <1>1
<1>7. \A t \in ToolTurns : t >= now => ran[k][t] <= crashes BY <1>3, <1>6 DEF KidInv
<1>8. \A t \in ToolTurns : t # now => ran'[k][t] = ran[k][t] BY <1>2, <1>5
<1>9. now \in ToolTurns => ran'[k][now] <= 1 + crashes
  <2>1. ASSUME now \in ToolTurns PROVE ran'[k][now] = ran[k][now] + 1 BY <1>2, <1>5, <2>1
  <2>2. now \in ToolTurns => ran[k][now] \in Nat /\ ran[k][now] <= crashes BY <1>3, <1>5, <1>7
  <2> QED BY <1>5, <2>1, <2>2
<1>10. \A t \in ToolTurns : ran'[k][t] <= 1 + crashes'
  <2>1. \A t \in ToolTurns : t # now => ran'[k][t] <= 1 + crashes BY <1>8 DEF KidInv
  <2> QED BY <1>9, <2>1
<1>11. \A t \in ToolTurns : t >= now =>
         ran'[k][t] <= crashes' \/ \E q \in Runs : child'[q][k].pc = "ran" /\ child'[q][k].turn = t
  <2>1. child'[r][k].pc = "ran" /\ child'[r][k].turn = now BY <1>2
  <2> QED BY <1>7, <1>8, <2>1
<1>12. \A q \in Runs : child'[q][k].pc \in Acting => child'[q][k].turn = now
  BY <1>1, <1>2 DEF Acting
<1> QED BY <1>3, <1>4, <1>10, <1>11, <1>12 DEF KidInv

-----------------------------------------------------------------------------
\* What the parts of a subagent's step do to it and to the others.
LEMMA SavesIs ==
  ASSUME FanTyped, NEW k \in Kids, NEW it, NEW tool, NEW with, SaveIt(k, it, tool, with)
  PROVE  /\ saved'[k] = [turn |-> it.turn, tool |-> tool, nudged |-> it.nudged, result |-> with]
         /\ \A m \in Kids \ {k} : saved'[m] = saved[m]
BY DEF FanTyped, SaveIt

LEMMA SettleIs ==
  ASSUME FanInv, NEW r \in Runs, NEW k \in Kids, NEW with, SettleChild(r, k, with),
         child[r][k].pc \in Working
  PROVE  /\ child'[r][k].pc = "done"
         /\ \A q \in Runs, m \in Kids : q # r \/ m # k =>
              \/ child'[q][m] = child[q][m]
              \/ child[q][m].pc = "waiting" /\ child'[q][m].pc = "load"
<1>1. FanTyped /\ WaitInv BY DEF FanInv
<1>2. PICK queue : queue = limiter[r].queue OBVIOUS
<1>3. PICK ended : ended = [NewChild EXCEPT !.pc = "done", !.result = with] OBVIOUS
<1>4. PICK after : after = [child[r] EXCEPT ![k] = ended] OBVIOUS
<1>5. ended.pc = "done" BY <1>3 DEF NewChild
<1>6. child[r] \in [Kids -> AKid] /\ child \in [Runs -> [Kids -> AKid]] /\ queue \in Seq(Kids)
  BY <1>1, <1>2 DEF FanTyped
<1>7. DOMAIN after = Kids /\ after[k] = ended /\ \A m \in Kids \ {k} : after[m] = child[r][m]
  BY <1>4, <1>6
<1>8. CASE queue = <<>>
  <2>1. child' = [child EXCEPT ![r] = after] BY <1>2, <1>3, <1>4, <1>8 DEF SettleChild
  <2>2. child'[r] = after /\ \A q \in Runs \ {r} : child'[q] = child[q] BY <1>6, <2>1
  <2> QED BY <1>5, <1>7, <2>2
<1>9. CASE queue # <<>>
  <2>1. PICK first : first = Head(queue) OBVIOUS
  <2>2. first \in Kids /\ first = queue[1] /\ Len(queue) \in Nat \ {0} BY <1>6, <1>9, <2>1
  <2>3. QueueOk(r) BY <1>1 DEF WaitInv
  <2>4. child[r][first].pc = "waiting" BY <1>2, <2>2, <2>3 DEF QueueOk
  <2>5. first # k BY <2>4 DEF Working
  <2>6. PICK now : now = [after EXCEPT ![first].pc = "load"] OBVIOUS
  <2>7. child' = [child EXCEPT ![r] = now]
    BY <1>2, <1>3, <1>4, <1>9, <2>1, <2>6 DEF SettleChild
  <2>8. child'[r] = now /\ \A q \in Runs \ {r} : child'[q] = child[q] BY <1>6, <2>7
  <2>9. now[k] = ended /\ \A m \in Kids \ {k, first} : now[m] = child[r][m]
    BY <1>7, <2>5, <2>6
  <2>10. now[first].pc = "load"
    <3>1. child[r][first] \in AKid /\ after[first] = child[r][first] BY <1>6, <1>7, <2>2, <2>5
    <3>2. now[first] = [after[first] EXCEPT !.pc = "load"] BY <1>7, <2>2, <2>6
    <3> QED BY <3>1, <3>2 DEF AKid
  <2> QED BY <1>5, <2>4, <2>8, <2>9, <2>10
<1> QED BY <1>8, <1>9

\* The others, when one of them acts.
LEMMA OthersStay ==
  ASSUME ToolInv, NEW k \in Kids, orphaned' = orphaned, crashes' = crashes,
         ran' \in [Kids -> [ToolTurns -> Nat]],
         \A m \in Kids \ {k} : ran'[m] = ran[m] /\ saved'[m] = saved[m],
         \A q \in Runs, m \in Kids \ {k} :
           \/ child'[q][m] = child[q][m]
           \/ child[q][m].pc = "waiting" /\ child'[q][m].pc = "load",
         k \notin orphaned => KidInv(k)'
  PROVE  ToolInv'
<1>1. ASSUME NEW m \in Kids \ {k}, m \notin orphaned PROVE KidInv(m)'
  <2>1. KidInv(m) BY <1>1 DEF ToolInv
  <2>2. \A q \in Runs : \/ child'[q][m] = child[q][m]
                        \/ child[q][m].pc # "ran" /\ child'[q][m].pc \notin Acting
    BY DEF Acting
  <2> QED BY <2>1, <2>2, KidStays
<1> QED BY <1>1 DEF ToolInv, ToolTyped

LEMMA SettleTools ==
  ASSUME FanInv, ToolInv, NEW r \in Runs, NEW k \in Kids, NEW with, SettleChild(r, k, with),
         child[r][k].pc \in Working, UNCHANGED <<orphaned, crashes, ran>>,
         \A m \in Kids \ {k} : saved'[m] = saved[m],
         k \notin orphaned /\ saved'[k].result = "none" =>
           child[r][k].pc # "ran" /\ saved[k].result = "none" /\ Cursor(k)' = Cursor(k)
  PROVE  ToolInv'
<1>1. /\ child'[r][k].pc = "done"
      /\ \A q \in Runs, m \in Kids : q # r \/ m # k =>
           \/ child'[q][m] = child[q][m]
           \/ child[q][m].pc = "waiting" /\ child'[q][m].pc = "load"
  BY SettleIs
<1>2. ASSUME k \notin orphaned PROVE KidInv(k)'
  <2>1. Live(r, k) BY DEF Live, Working
  <2>2. \A q \in Runs \ {r} : child[q][k].pc \in {"new", "done"} BY <1>2, <2>1, AloneInItsRun
  <2>3. \A q \in Runs \ {r} : child'[q][k] = child[q][k] BY <1>1, <2>2
  <2>4. KidInv(k) BY <1>2 DEF ToolInv
  <2> QED BY <1>1, <1>2, <2>1, <2>3, <2>4, KidEnds
<1>3. ran' \in [Kids -> [ToolTurns -> Nat]] BY DEF ToolInv, ToolTyped
<1> QED BY <1>1, <1>2, <1>3, OthersStay

\* One that acts goes on: to "ask" or "tool" at the cursor of its checkpoint.
LEMMA GoTools ==
  ASSUME FanInv, ToolInv, NEW r \in Runs, NEW k \in Kids, NEW new \in AKid, Become(r, k, new),
         child[r][k].pc \in Working, UNCHANGED <<orphaned, crashes, ran>>,
         \A m \in Kids \ {k} : saved'[m] = saved[m],
         new.pc \in {"ask", "tool"},
         k \notin orphaned =>
           /\ new.turn = Cursor(k)' /\ Cursor(k)' >= Cursor(k)
           /\ saved[k].result = "none" /\ saved'[k].result = "none"
           /\ child[r][k].pc = "ran" => Cursor(k)' > child[r][k].turn
  PROVE  ToolInv'
<1>1. /\ child'[r][k] = new
      /\ \A q \in Runs, m \in Kids : q # r \/ m # k => child'[q][m] = child[q][m]
  BY Becomes DEF FanInv
<1>2. ASSUME k \notin orphaned PROVE KidInv(k)'
  <2>1. Live(r, k) BY DEF Live, Working
  <2>2. KidInv(k) BY <1>2 DEF ToolInv
  <2>3. Cursor(k)' \in Nat BY <1>2 DEF AKid
  <2>4. \A q \in Runs \ {r} : child'[q][k] = child[q][k] BY <1>1
  <2>5. child'[r][k].pc \in {"ask", "tool"} /\ child'[r][k].turn = Cursor(k)' BY <1>1, <1>2
  <2> QED BY <1>2, <2>1, <2>2, <2>3, <2>4, <2>5, KidGoesOn
<1>3. ran' \in [Kids -> [ToolTurns -> Nat]] BY DEF ToolInv, ToolTyped
<1>4. \A q \in Runs, m \in Kids \ {k} : child'[q][m] = child[q][m] BY <1>1
<1> QED BY <1>2, <1>3, <1>4, OthersStay

LEMMA NextTurnIsNext ==
  ASSUME NEW it \in AKid
  PROVE  /\ NextChildTurn(it) \in AKid /\ NextChildTurn(it).pc = "ask"
         /\ NextChildTurn(it).turn = it.turn + 1
<1>1. it.turn \in Nat BY DEF AKid
<1>2. PICK new : new = [it EXCEPT !.pc = "ask", !.turn = @ + 1] OBVIOUS
<1>3. new = [pc |-> "ask", turn |-> it.turn + 1, nudged |-> it.nudged, result |-> it.result]
  BY <1>2 DEF AKid
<1>4. new.turn = it.turn + 1 BY <1>3
<1> QED BY <1>2, <1>4, NextTurnIs DEF NextChildTurn

LEMMA LoadTools ==
  ASSUME FanInv, ToolInv, NEW r \in Runs, NEW k \in Kids, LoadChild(r, k),
         UNCHANGED <<orphaned, crashes>>
  PROVE  ToolInv'
<1>1. PICK from : from = saved[k] OBVIOUS
<1>2. from \in ASave /\ child[r][k].pc = "load" /\ child[r][k].pc \in Working
      /\ saved' = saved /\ ran' = ran
  BY <1>1 DEF FanInv, FanTyped, LoadChild, It, Working
<1>3. PICK it : it = [pc |-> "ask", turn |-> from.turn, nudged |-> from.nudged, result |-> "none"]
  OBVIOUS
<1>4. it \in AKid /\ it.pc = "ask" /\ it.turn = from.turn /\ from.turn \in Nat
  BY <1>2, <1>3 DEF ASave, AKid, ChildPCs, Results
<1>5. CASE from.result # "none" /\ SettleChild(r, k, from.result)
  BY <1>1, <1>2, <1>5, SettleTools
<1>6. CASE from.result = "none"
  <2>1. PICK new : new = CASE from.tool = "named"     -> [it EXCEPT !.pc = "tool"]
                           [] from.tool = "completed" -> NextChildTurn(it)
                           [] from.tool = "none"      -> it
    OBVIOUS
  <2>2. Become(r, k, new) BY <1>1, <1>3, <1>6, <2>1 DEF LoadChild
  <2>3. from.tool \in {"named", "completed", "none"} BY <1>2 DEF ASave
  <2>4. Cursor(k)' = Cursor(k) BY <1>2 DEF Cursor
  <2>5. new \in AKid /\ new.pc \in {"ask", "tool"} /\ new.turn = Cursor(k)
    <3>1. CASE from.tool = "named"
      <4>1. new = [it EXCEPT !.pc = "tool"] BY <2>1, <3>1
      <4>2. new \in AKid /\ new.pc = "tool" /\ new.turn = it.turn
        BY <1>4, <4>1 DEF AKid, ChildPCs
      <4> QED BY <1>1, <1>4, <3>1, <4>2 DEF Cursor
    <3>2. CASE from.tool = "completed"
      <4>1. new = NextChildTurn(it) BY <2>1, <3>2
      <4> QED BY <1>1, <1>4, <3>2, <4>1, NextTurnIsNext DEF Cursor
    <3>3. CASE from.tool = "none"
      <4>1. new = it BY <2>1, <3>3
      <4> QED BY <1>1, <1>4, <3>3, <4>1 DEF Cursor
    <3> QED BY <2>3, <3>1, <3>2, <3>3
  <2>6. Cursor(k) \in Nat BY CursorIsNatural DEF FanInv
  <2>7. Cursor(k)' >= Cursor(k) BY <2>4, <2>6
  <2> QED BY <1>1, <1>2, <1>6, <2>2, <2>4, <2>5, <2>7, GoTools
<1> QED BY <1>1, <1>5, <1>6 DEF LoadChild

LEMMA FinishTools ==
  ASSUME FanInv, ToolInv, NEW r \in Runs, NEW k \in Kids, NEW with, with # "none",
         FinishChild(r, k, with), child[r][k].pc \in Working, UNCHANGED <<orphaned, crashes, ran>>
  PROVE  ToolInv'
<1>1. SaveIt(k, child[r][k], "none", with) /\ SettleChild(r, k, with) BY DEF FinishChild, It
<1>2. PICK it : it = child[r][k] OBVIOUS
<1>3. FanTyped /\ SaveIt(k, it, "none", with) BY <1>1, <1>2 DEF FanInv
<1>4. /\ saved'[k] = [turn |-> it.turn, tool |-> "none", nudged |-> it.nudged, result |-> with]
      /\ \A m \in Kids \ {k} : saved'[m] = saved[m]
  BY <1>3, SavesIs
<1>5. saved'[k].result = with BY <1>4
<1> QED BY <1>1, <1>4, <1>5, SettleTools

LEMMA AskTools ==
  ASSUME FanInv, ToolInv, NEW r \in Runs, NEW k \in Kids, AskChild(r, k),
         UNCHANGED <<orphaned, crashes>>
  PROVE  ToolInv'
<1>1. PICK it : it = child[r][k] OBVIOUS
<1>2. /\ FanTyped /\ it \in AKid /\ it.pc = "ask" /\ child[r][k].pc \in Working /\ ran' = ran
      /\ it.turn \in Nat
  BY <1>1 DEF FanInv, FanTyped, AskChild, It, Working, AKid
<1>3. k \notin orphaned => saved[k].result = "none" /\ it.turn = Cursor(k)
  BY <1>1, <1>2 DEF ToolInv, KidInv, Acting
<1>4. ASSUME NEW with, with # "none", FinishChild(r, k, with) PROVE ToolInv'
  BY <1>2, <1>4, FinishTools
<1>5. ASSUME NEW with, SettleChild(r, k, with), UNCHANGED saved PROVE ToolInv'
  <2>1. Cursor(k)' = Cursor(k) BY <1>5 DEF Cursor
  <2> QED BY <1>1, <1>2, <1>3, <1>5, <2>1, SettleTools
<1>6. ASSUME NEW with, SettleChild(r, k, with), SaveIt(k, it, "none", "none") PROVE ToolInv'
  <2>1. /\ saved'[k] = [turn |-> it.turn, tool |-> "none", nudged |-> it.nudged, result |-> "none"]
        /\ \A m \in Kids \ {k} : saved'[m] = saved[m]
    BY <1>2, <1>6, SavesIs
  <2>2. Cursor(k)' = it.turn BY <1>2, <2>1 DEF Cursor
  <2> QED BY <1>1, <1>2, <1>3, <1>6, <2>1, <2>2, SettleTools
<1>7. ASSUME NEW new \in AKid, Become(r, k, new), new.pc \in {"ask", "tool"}, new.turn >= it.turn,
             NEW from, NEW tool \in {"none", "named"}, SaveIt(k, from, tool, "none"),
             from.turn = new.turn
      PROVE  ToolInv'
  <2>1. /\ saved'[k] = [turn |-> from.turn, tool |-> tool, nudged |-> from.nudged, result |-> "none"]
        /\ \A m \in Kids \ {k} : saved'[m] = saved[m]
    BY <1>2, <1>7, SavesIs
  <2>2. new.turn \in Nat BY DEF AKid
  <2>3. Cursor(k)' = new.turn /\ saved'[k].result = "none" BY <1>7, <2>1, <2>2 DEF Cursor
  <2>4. k \notin orphaned => Cursor(k)' >= Cursor(k) BY <1>3, <1>7, <2>3
  <2> QED BY <1>1, <1>2, <1>3, <1>7, <2>1, <2>3, <2>4, GoTools
<1>8. CASE Become(r, k, [it EXCEPT !.pc = "tool"]) /\ SaveIt(k, it, "named", "none")
  <2>1. PICK new : new = [it EXCEPT !.pc = "tool"] OBVIOUS
  <2>2. new \in AKid /\ new.pc = "tool" /\ new.turn = it.turn BY <1>2, <2>1 DEF AKid, ChildPCs
  <2>3. new.turn >= it.turn BY <1>2, <2>2
  <2> QED BY <1>7, <1>8, <2>1, <2>2, <2>3
<1>9. CASE \E cut : /\ cut = [NextChildTurn(it) EXCEPT !.nudged = TRUE]
                    /\ Become(r, k, cut) /\ SaveIt(k, cut, "none", "none")
  <2>1. PICK cut : /\ cut = [NextChildTurn(it) EXCEPT !.nudged = TRUE]
                   /\ Become(r, k, cut) /\ SaveIt(k, cut, "none", "none")
    BY <1>9
  <2>2. NextChildTurn(it) \in AKid /\ NextChildTurn(it).pc = "ask"
        /\ NextChildTurn(it).turn = it.turn + 1
    BY <1>2, NextTurnIsNext
  <2>3. cut \in AKid /\ cut.pc = "ask" /\ cut.turn = it.turn + 1 BY <2>1, <2>2 DEF AKid
  <2>4. cut.turn >= it.turn BY <1>2, <2>3
  <2> QED BY <1>7, <2>1, <2>3, <2>4
<1>10. \/ \E with \in Results \ {"none"} : FinishChild(r, k, with)
       \/ \E with \in Results : SettleChild(r, k, with) /\ UNCHANGED saved
       \/ \E with \in Results : SettleChild(r, k, with) /\ SaveIt(k, it, "none", "none")
       \/ Become(r, k, [it EXCEPT !.pc = "tool"]) /\ SaveIt(k, it, "named", "none")
       \/ \E cut : /\ cut = [NextChildTurn(it) EXCEPT !.nudged = TRUE]
                   /\ Become(r, k, cut) /\ SaveIt(k, cut, "none", "none")
  <2>1. \A with \in {"max_turns", "error", "completed", "stopped", "thrown"} :
          with \in Results \ {"none"}
    BY DEF Results
  <2> QED BY <1>1, <2>1 DEF AskChild, It
<1> QED BY <1>4, <1>5, <1>6, <1>8, <1>9, <1>10

LEMMA ExecuteTools ==
  ASSUME FanInv, ToolInv, NEW r \in Runs, NEW k \in Kids, Execute(r, k),
         UNCHANGED <<orphaned, crashes>>
  PROVE  ToolInv'
<1>1. PICK new : new = [child[r][k] EXCEPT !.pc = "ran"] OBVIOUS
<1>2. FanTyped /\ child[r][k] \in AKid BY DEF FanInv, FanTyped
<1>3. new \in AKid /\ new.pc = "ran" /\ new.turn = child[r][k].turn
  BY <1>1, <1>2 DEF AKid, ChildPCs
<1>4. Become(r, k, new) /\ child[r][k].pc = "tool" /\ saved' = saved BY <1>1 DEF Execute, It
<1>5. /\ child'[r][k] = new
      /\ \A q \in Runs, m \in Kids : q # r \/ m # k => child'[q][m] = child[q][m]
  BY <1>2, <1>3, <1>4, Becomes
<1>6. ran \in [Kids -> [ToolTurns -> Nat]] /\ crashes \in Nat BY DEF ToolInv, ToolTyped
<1>7. PICK mine : mine = [ran[k] EXCEPT ![child[r][k].turn] = @ + 1] OBVIOUS
<1>8. ran' = [ran EXCEPT ![k] = mine] BY <1>6, <1>7 DEF Execute, It
<1>9. mine \in [ToolTurns -> Nat]
  <2>1. PICK old : old = ran[k] OBVIOUS
  <2>2. PICK n : n = child[r][k].turn OBVIOUS
  <2>3. old \in [ToolTurns -> Nat] /\ mine = [old EXCEPT ![n] = @ + 1] BY <1>6, <1>7, <2>1, <2>2
  <2>4. \A t \in ToolTurns : mine[t] = IF t = n THEN old[t] + 1 ELSE old[t] BY <2>3
  <2>5. \A t \in ToolTurns : old[t] \in Nat /\ old[t] + 1 \in Nat BY <2>3
  <2>6. DOMAIN mine = ToolTurns /\ mine = [t \in ToolTurns |-> mine[t]] BY <2>3
  <2>7. \A t \in ToolTurns : mine[t] \in Nat BY <2>4, <2>5
  <2> QED BY <2>6, <2>7
<1>10. ran' \in [Kids -> [ToolTurns -> Nat]] /\ ran'[k] = mine
       /\ \A m \in Kids \ {k} : ran'[m] = ran[m]
  BY <1>6, <1>8, <1>9
<1>11. ASSUME k \notin orphaned PROVE KidInv(k)'
  <2>1. KidInv(k) /\ ToolTyped BY <1>11 DEF ToolInv
  <2>2. \A q \in Runs \ {r} : child'[q][k] = child[q][k] BY <1>5
  <2>3. child'[r][k].pc = "ran" /\ child'[r][k].turn = child[r][k].turn BY <1>3, <1>5
  <2> QED BY <1>4, <1>7, <1>10, <1>11, <2>1, <2>2, <2>3, KidExecutes
<1>12. \A q \in Runs, m \in Kids \ {k} : child'[q][m] = child[q][m] BY <1>5
<1> QED BY <1>4, <1>10, <1>11, <1>12, OthersStay

LEMMA DoneTools ==
  ASSUME FanInv, ToolInv, NEW r \in Runs, NEW k \in Kids, ToolDone(r, k),
         UNCHANGED <<orphaned, crashes>>
  PROVE  ToolInv'
<1>1. PICK it : it = child[r][k] OBVIOUS
<1>2. /\ FanTyped /\ it \in AKid /\ it.pc = "ran" /\ child[r][k].pc \in Working /\ ran' = ran
      /\ it.turn \in Nat
  BY <1>1 DEF FanInv, FanTyped, ToolDone, It, Working, AKid
<1>3. k \notin orphaned => saved[k].result = "none" /\ it.turn = Cursor(k)
  BY <1>1, <1>2 DEF ToolInv, KidInv, Acting
<1>4. CASE FinishChild(r, k, "stopped") BY <1>2, <1>4, FinishTools
<1>5. CASE Become(r, k, NextChildTurn(it)) /\ SaveIt(k, it, "completed", "none")
  <2>1. PICK new : new = NextChildTurn(it) OBVIOUS
  <2>2. new \in AKid /\ new.pc = "ask" /\ new.turn = it.turn + 1 BY <1>2, <2>1, NextTurnIsNext
  <2>3. /\ saved'[k] = [turn |-> it.turn, tool |-> "completed", nudged |-> it.nudged,
                        result |-> "none"]
        /\ \A m \in Kids \ {k} : saved'[m] = saved[m]
    BY <1>2, <1>5, SavesIs
  <2>4. Cursor(k)' = it.turn + 1 /\ saved'[k].result = "none" BY <2>3 DEF Cursor
  <2>5. k \notin orphaned => Cursor(k)' >= Cursor(k) /\ Cursor(k)' > child[r][k].turn
    BY <1>1, <1>2, <1>3, <2>4
  <2> QED BY <1>2, <1>3, <1>5, <2>1, <2>2, <2>3, <2>4, <2>5, GoTools
<1> QED BY <1>1, <1>4, <1>5 DEF ToolDone, It

-----------------------------------------------------------------------------
\* The main loop leaves the tools alone: what it launches anew was not acting.
LEMMA AllStay ==
  ASSUME ToolInv, orphaned \subseteq orphaned', UNCHANGED <<ran, saved, crashes>>,
         \A r \in Runs, k \in Kids : \/ child'[r][k] = child[r][k]
                                     \/ child[r][k].pc # "ran" /\ child'[r][k].pc \notin Acting
  PROVE  ToolInv'
<1>1. ASSUME NEW k \in Kids, k \notin orphaned' PROVE KidInv(k)'
  <2>1. KidInv(k) BY <1>1 DEF ToolInv
  <2> QED BY <2>1, KidStays
<1> QED BY <1>1 DEF ToolInv, ToolTyped

LEMMA LaunchTools == ASSUME FanInv, ToolInv, Launch PROVE ToolInv'
<1>1. FanTyped /\ parent.pc = "launch" /\ run \in Runs /\ UNCHANGED <<ran, saved, crashes, orphaned>>
  BY DEF FanInv, FanTyped, Launch
<1>2. PICK started : child' = [child EXCEPT ![run] = [k \in Kids |->
                       IF ~Contains(parent.reply, k) THEN @[k]
                       ELSE [NewChild EXCEPT !.pc = IF k \in started THEN "load" ELSE "waiting"]]]
  BY DEF Launch
<1>3. child \in [Runs -> [Kids -> AKid]] BY <1>1 DEF FanTyped
<1>4. /\ \A q \in Runs \ {run} : child'[q] = child[q]
      /\ \A k \in Kids : child'[run][k] =
           IF ~Contains(parent.reply, k) THEN child[run][k]
           ELSE [NewChild EXCEPT !.pc = IF k \in started THEN "load" ELSE "waiting"]
  BY <1>1, <1>2, <1>3
<1>5. ASSUME NEW k \in Kids, Contains(parent.reply, k)
      PROVE  child[run][k].pc # "ran" /\ child'[run][k].pc \notin Acting
  <2>1. k \in Named(parent.turn) BY <1>5 DEF FanInv, LiveInv, RepliesAreOfTheTurn, InReply
  <2>2. ~Live(run, k) BY <1>1, <2>1 DEF FanInv, LiveInv, NewIsIdle
  <2>3. child'[run][k].pc \in {"load", "waiting"} BY <1>4, <1>5 DEF NewChild
  <2> QED BY <2>2, <2>3 DEF Live, Acting
<1>6. \A r \in Runs, k \in Kids : \/ child'[r][k] = child[r][k]
                                  \/ child[r][k].pc # "ran" /\ child'[r][k].pc \notin Acting
  BY <1>4, <1>5
<1> QED BY <1>1, <1>6, AllStay

\* A crash is allowed one repetition of what was executed and not saved.
LEMMA CrashTools == ASSUME FanInv, ToolInv, Crash PROVE ToolInv'
<1>1. /\ UNCHANGED <<ran, saved, orphaned>> /\ crashes' = crashes + 1
      /\ child' = [r \in Runs |-> [k \in Kids |-> NewChild]]
  BY DEF Crash
<1>2. \A r \in Runs, k \in Kids : child'[r][k].pc \notin Acting BY <1>1 DEF NewChild, Acting
<1>3. ran \in [Kids -> [ToolTurns -> Nat]] /\ crashes \in Nat BY DEF ToolInv, ToolTyped
<1>4. ASSUME NEW k \in Kids, k \notin orphaned PROVE KidInv(k)'
  <2>1. KidInv(k) BY <1>4 DEF ToolInv
  <2>2. \A t \in ToolTurns : ran[k][t] \in Nat /\ ran[k][t] <= 1 + crashes
    BY <1>3, <2>1 DEF KidInv
  <2>3. \A t \in ToolTurns : ran'[k][t] <= crashes' /\ ran'[k][t] <= 1 + crashes'
    BY <1>1, <1>3, <2>2
  <2> QED BY <1>2, <2>3 DEF KidInv
<1>5. ToolTyped' BY <1>1, <1>3 DEF ToolTyped
<1> QED BY <1>1, <1>4, <1>5 DEF ToolInv

LEMMA ToolsStart == FanInit => ToolInv
<1> SUFFICES ASSUME FanInit PROVE ToolInv OBVIOUS
<1>1. /\ ran = [k \in Kids |-> [t \in ToolTurns |-> 0]] /\ crashes = 0
      /\ child = [r \in Runs |-> [k \in Kids |-> NewChild]]
  BY DEF FanInit
<1>2. \A r \in Runs, k \in Kids : child[r][k].pc \notin Acting BY <1>1 DEF NewChild, Acting
<1> QED BY <1>1, <1>2 DEF ToolInv, ToolTyped, KidInv

LEMMA ToolsKeep == FanInv /\ ToolInv /\ [FanNext]_fanVars => ToolInv'
<1> SUFFICES ASSUME FanInv, ToolInv, [FanNext]_fanVars PROVE ToolInv' OBVIOUS
<1>1. CASE Think \/ AnswerCall \/ Joined \/ NextMainTurn \/ Resume \/ Cancel \/ UNCHANGED fanVars
  <2>1. orphaned \subseteq orphaned' /\ UNCHANGED <<ran, saved, crashes, child>>
    BY <1>1 DEF Think, AnswerCall, Throw, Joined, NextMainTurn, Resume, Cancel, fanVars
  <2> QED BY <2>1, AllStay
<1>2. CASE Launch BY <1>2, LaunchTools
<1>3. CASE Crash BY <1>3, CrashTools
<1>4. ASSUME NEW r \in Runs, NEW k \in Kids, ChildStep(r, k) PROVE ToolInv'
  <2>1. UNCHANGED <<orphaned, crashes>> BY <1>4 DEF ChildStep
  <2> QED BY <1>4, <2>1, LoadTools, AskTools, ExecuteTools, DoneTools DEF ChildStep
<1> QED BY <1>1, <1>2, <1>3, <1>4 DEF FanNext, ParentStep

\* Pauses, cancels and resumes do not execute the tool of a subagent's turn again, and a
\* crash repeats it once at most (index.ts:1431-1562).
THEOREM SubagentsExecuteOnce == FanSpec => []ToolsRunOnce
<1>1. ToolInv => ToolsRunOnce BY DEF ToolInv, KidInv, ToolsRunOnce
<1> QED BY <1>1, FanStarts, FanKeeps, ToolsStart, ToolsKeep, PTL DEF FanSpec

-----------------------------------------------------------------------------
(***************************************************************************)
(* A chat that is compacted.  Whatever a compaction takes out of a chat is *)
(* in the snapshot that the new reference points at, so a reader who gets  *)
(* to that snapshot is where the reader of the old chat was.               *)
(***************************************************************************)
ChatSpec == ChatInit /\ [][ChatNext]_chatVars

Roles  == {"system", "user", "assistant", "tool"}
Spoken == [role : Roles, size : Nat, calls : Nat]
List   == [held : SUBSET Nat, filed : SUBSET Nat]

\* What is listed was said, and what is listed as being in a file is there.
Sound(list) == list \in List /\ list.held \subseteq DOMAIN said /\ list.filed \subseteq files
ChatInv ==
  /\ said \in Seq(Spoken) /\ Sound(chat) /\ pointer.to \subseteq archives
  /\ \A old \in archives : Sound(old.chat) /\ old.pointer.to \subseteq archives
  /\ NothingIsForgotten

-----------------------------------------------------------------------------
LEMMA SavesSome ==
  ASSUME NEW list \in List, NEW lines, NEW target, NEW chosen \in SUBSET Nat
  PROVE  /\ SaveWhere(list, lines, target, chosen) \in List
         /\ SaveWhere(list, lines, target, chosen).held = list.held
<1>1. ASSUME NEW these \in SUBSET Nat
      PROVE  InFiles(list, these) \in List /\ InFiles(list, these).held = list.held
  BY DEF InFiles, List
<1> DEFINE upTo(n) == {i \in chosen : i <= n}
           enough  == {n \in {0} \cup chosen : Count(InFiles(list, upTo(n)), lines) <= target}
           these   == upTo(FirstOr(Len(said), enough))
<1>2. these \in SUBSET Nat OBVIOUS
<1>3. SaveWhere(list, lines, target, chosen) = InFiles(list, these) BY DEF SaveWhere
<1> HIDE DEF these
<1> QED BY <1>1, <1>2, <1>3

LEMMA SavesTheEnds ==
  ASSUME NEW list \in List, NEW lines, NEW target, NEW size
  PROVE  /\ SaveEnds(list, lines, target, size) \in List
         /\ SaveEnds(list, lines, target, size).held = list.held
<1> DEFINE chosen == {i \in By(list, "user") \cap {First(list), Latest(list)} : Weight(list, i) > size}
<1>1. chosen \in SUBSET Nat BY DEF By, List
<1> HIDE DEF chosen
<1>2. SaveEnds(list, lines, target, size) = SaveWhere(list, lines, target, chosen)
  BY DEF SaveEnds, chosen
<1> QED BY <1>1, <1>2, SavesSome

LEMMA SavesToolsAndPastes ==
  ASSUME NEW list \in List, NEW target
  PROVE  /\ SaveTools(list, target) \in List /\ SaveTools(list, target).held = list.held
         /\ SavePastes(list, target) \in List /\ SavePastes(list, target).held = list.held
<1> DEFINE tools  == {i \in By(list, "tool") : Weight(list, i) > Small}
           pastes == {i \in By(list, "user") \ {Latest(list)} : Weight(list, i) > Paste}
<1>1. tools \in SUBSET Nat /\ pastes \in SUBSET Nat BY DEF By, List
<1> HIDE DEF tools, pastes
<1>2. SaveTools(list, target) = SaveWhere(list, 0, target, tools) BY DEF SaveTools, tools
<1>3. SavePastes(list, target) = SaveWhere(list, 0, target, pastes) BY DEF SavePastes, pastes
<1> QED BY <1>1, <1>2, <1>3, SavesSome

LEMMA RemovesSome ==
  ASSUME NEW list \in List, NEW spare, NEW lines, NEW target
  PROVE  /\ RemoveOldest(list, spare, lines, target) \in List
         /\ RemoveOldest(list, spare, lines, target).held \subseteq list.held
<1>1. ASSUME NEW away PROVE Less(list, away) \in List /\ Less(list, away).held \subseteq list.held
  BY DEF Less, List
<1> DEFINE heads   == (By(list, "user") \cup By(list, "assistant")) \ spare
           gone(n) == UNION {Exchange(list, i) : i \in {h \in heads : h <= n}}
           fits(n) == Count(Less(list, gone(n)), Room(lines + Cardinality(gone(n)), target)) <= target
           away    == gone(FirstOr(Len(said), {n \in {0} \cup heads : fits(n)}))
<1>2. RemoveOldest(list, spare, lines, target) = Less(list, away) BY DEF RemoveOldest
<1> HIDE DEF away
<1> QED BY <1>1, <1>2

\* A compaction adds nothing to a chat.
LEMMA CompactsSome ==
  ASSUME NEW list \in List, NEW carried, NEW target
  PROVE  /\ Compacted(list, carried, target).chat \in List
         /\ Compacted(list, carried, target).chat.held \subseteq list.held
<1> DEFINE ready  == SaveEnds(SavePastes(SaveTools(list, target), target), 0, target, target)
           ends   == {First(ready), Latest(ready)}
           spared == RemoveOldest(ready, Spared(ready, ends), Len(carried), target)
           gone   == ready.held \ spared.held
           all    == RemoveOldest(spared, ends, Len(carried) + Cardinality(gone), target)
           lines  == carried \o InOrder(ready.held \ all.held)
           most   == LastOr(0, {n \in 0..Min({Len(lines), MaxLines}) : Count(all, n) <= target})
           left   == SaveEnds(all, most, target, Small)
<1>1. Compacted(list, carried, target).chat = left BY DEF Compacted
<1>2. ready \in List /\ ready.held = list.held BY SavesToolsAndPastes, SavesTheEnds
<1> HIDE DEF ready
<1>3. spared \in List /\ spared.held \subseteq list.held BY <1>2, RemovesSome
<1> HIDE DEF spared
<1>4. all \in List /\ all.held \subseteq list.held BY <1>3, RemovesSome
<1> HIDE DEF all
<1>5. left \in List /\ left.held \subseteq list.held BY <1>4, SavesTheEnds
<1> HIDE DEF left
<1> QED BY <1>1, <1>5

-----------------------------------------------------------------------------
LEMMA ChatStarts == ChatInit => ChatInv
<1> SUFFICES ASSUME ChatInit PROVE ChatInv OBVIOUS
<1>1. PICK size \in Sizes :
        said = <<Message("system", Small, 0), Message("user", size, 0)>> BY DEF ChatInit
<1>2. Message("system", Small, 0) \in Spoken /\ Message("user", size, 0) \in Spoken
  BY CompactionAssumption DEF Message, Spoken, Roles
<1>3. said \in Seq(Spoken) /\ DOMAIN said = {1, 2} BY <1>1, <1>2
<1>4. Sound(chat) BY <1>3 DEF ChatInit, Sound, List
<1>5. archives = {} /\ pointer.to = {} BY DEF ChatInit, NoReference
<1>6. InFull(chat) = DOMAIN said BY <1>3 DEF ChatInit, InFull
<1> QED BY <1>3, <1>4, <1>5, <1>6 DEF ChatInv, NothingIsForgotten, Closed

\* What the invariant says of a reader, without the files.
LEMMA ReadsAll ==
  ASSUME ChatInv, NEW found \in SUBSET archives, Closed(found)
  PROVE  chat.held \cup UNION {old.chat.held : old \in found} = DOMAIN said
<1>1. InFull(chat) = chat.held BY DEF ChatInv, Sound, InFull
<1>2. \A old \in found : InFull(old.chat) = old.chat.held BY DEF ChatInv, Sound, InFull
<1>3. InFull(chat) \cup UNION {InFull(old.chat) : old \in found} = DOMAIN said
  BY DEF ChatInv, NothingIsForgotten
<1> QED BY <1>1, <1>2, <1>3

LEMMA CompactKeeps ==
  ASSUME ChatInv, NEW cost, Compact(cost)
  PROVE  ChatInv'
<1> DEFINE made == Compacted(chat, pointer.lines, Goal(Trigger(cost)))
<1>1. made.chat \in List /\ made.chat.held \subseteq chat.held
  BY CompactsSome DEF ChatInv, Sound
<1>2. /\ archives' = archives \cup {Snapshot} /\ files' = files \cup made.chat.filed /\ said' = said
      /\ \/ UNCHANGED <<chat, pointer>>
         \/ chat' = made.chat /\ pointer' = Reference(Snapshot, made.lines)
  BY DEF Compact
<1> HIDE DEF made
<1>3. Snapshot.chat = chat /\ Snapshot.pointer = pointer BY DEF Snapshot
<1>4. Sound(chat)' BY <1>1, <1>2 DEF ChatInv, Sound
<1>5. \A old \in archives' : /\ old.chat \in List /\ old.chat.held \subseteq DOMAIN said'
                             /\ old.chat.filed \subseteq files'
                             /\ old.pointer.to \subseteq archives
  BY <1>2, <1>3 DEF ChatInv, Sound
<1>6. pointer'.to \subseteq archives' BY <1>2 DEF ChatInv, Reference
<1>7. ASSUME NEW found \in SUBSET archives', Closed(found)'
      PROVE  (InFull(chat) \cup UNION {InFull(old.chat) : old \in found} = DOMAIN said)'
  <2> DEFINE before == found \cap archives
             heldBy(these) == UNION {old.chat.held : old \in these}
  <2>1. /\ found \subseteq archives' /\ pointer'.to \cap archives' \subseteq found
        /\ \A old \in found : old.pointer.to \cap archives' \subseteq found
    BY <1>7 DEF Closed
  <2>2. (InFull(chat) \cup UNION {InFull(old.chat) : old \in found})' = chat'.held \cup heldBy(found)
    <3>1. InFull(chat)' = chat'.held BY <1>4 DEF Sound, InFull
    <3>2. \A old \in found : InFull(old.chat)' = old.chat.held BY <1>5, <2>1 DEF InFull
    <3> QED BY <3>1, <3>2
  <2>3. heldBy(found) \subseteq DOMAIN said /\ chat'.held \subseteq DOMAIN said
    BY <1>2, <1>4, <1>5, <2>1 DEF Sound
  <2>4. pointer.to \cap archives \subseteq found
    <3>1. CASE UNCHANGED <<chat, pointer>> BY <1>2, <2>1, <3>1
    <3>2. CASE pointer' = Reference(Snapshot, made.lines)
      <4>1. Snapshot \in found BY <1>2, <2>1, <3>2 DEF Reference
      <4> QED BY <1>2, <1>3, <2>1, <4>1
    <3> QED BY <1>2, <3>1, <3>2
  <2>5. chat.held \subseteq chat'.held \cup heldBy(found)
    <3>1. CASE UNCHANGED <<chat, pointer>> BY <3>1
    <3>2. CASE pointer' = Reference(Snapshot, made.lines)
      <4>1. Snapshot \in found BY <1>2, <2>1, <3>2 DEF Reference
      <4> QED BY <1>3, <4>1
    <3> QED BY <1>2, <3>1, <3>2
  <2>6. Closed(before) BY <1>2, <2>1, <2>4 DEF Closed
  <2>7. chat.held \cup heldBy(before) = DOMAIN said BY <2>6, ReadsAll
  <2> QED BY <1>2, <2>2, <2>3, <2>5, <2>7
<1>8. NothingIsForgotten' BY <1>7 DEF NothingIsForgotten
<1> QED BY <1>2, <1>4, <1>5, <1>6, <1>8 DEF ChatInv, Sound

LEMMA SayKeeps ==
  ASSUME ChatInv, NEW messages \in Seq(Spoken), NEW next, Say(messages, next)
  PROVE  ChatInv'
<1>1. /\ said' = said \o messages /\ UNCHANGED <<pointer, archives, files>>
      /\ chat' = [chat EXCEPT !.held = @ \cup (Len(said) + 1)..Len(said \o messages)]
  BY DEF Say
<1>2. PICK more : more = (Len(said) + 1)..Len(said \o messages) OBVIOUS
<1>3. said' \in Seq(Spoken) /\ DOMAIN said' = DOMAIN said \cup more /\ more \in SUBSET Nat
  <2>1. /\ said \o messages \in Seq(Spoken) /\ Len(said \o messages) = Len(said) + Len(messages)
        /\ Len(said) \in Nat /\ Len(messages) \in Nat
    BY ConcatProperties DEF ChatInv
  <2>2. DOMAIN said = 1..Len(said) /\ DOMAIN said' = 1..(Len(said) + Len(messages))
    BY <1>1, <2>1 DEF ChatInv
  <2>3. more = (Len(said) + 1)..(Len(said) + Len(messages)) BY <1>2, <2>1
  <2> QED BY <1>1, <2>1, <2>2, <2>3
<1>4. chat' \in List /\ chat'.held = chat.held \cup more /\ chat'.filed = chat.filed
  BY <1>1, <1>2, <1>3 DEF ChatInv, Sound, List
<1>5. Sound(chat)' BY <1>1, <1>3, <1>4 DEF ChatInv, Sound
<1>6. \A old \in archives : Sound(old.chat)' BY <1>1, <1>3 DEF ChatInv, Sound
<1>7. ASSUME NEW found \in SUBSET archives, Closed(found)'
      PROVE  (InFull(chat) \cup UNION {InFull(old.chat) : old \in found} = DOMAIN said)'
  <2>1. Closed(found) BY <1>1, <1>7 DEF Closed
  <2>2. chat.held \cup UNION {old.chat.held : old \in found} = DOMAIN said BY <2>1, ReadsAll
  <2>3. InFull(chat)' = chat'.held BY <1>5 DEF Sound, InFull
  <2>4. \A old \in found : InFull(old.chat)' = old.chat.held BY <1>6 DEF Sound, InFull
  <2> QED BY <1>3, <1>4, <2>2, <2>3, <2>4
<1>8. NothingIsForgotten' BY <1>1, <1>7 DEF NothingIsForgotten
<1> QED BY <1>1, <1>3, <1>5, <1>6, <1>8 DEF ChatInv

LEMMA ChatKeeps == ChatInv /\ [ChatNext]_chatVars => ChatInv'
<1> SUFFICES ASSUME ChatInv, [ChatNext]_chatVars PROVE ChatInv' OBVIOUS
<1>1. ASSUME UNCHANGED <<said, chat, pointer, archives, files>> PROVE ChatInv'
  <2>1. Sound(chat)' /\ \A old \in archives : Sound(old.chat)' BY <1>1 DEF ChatInv, Sound
  <2>2. ASSUME NEW found \in SUBSET archives, Closed(found)'
        PROVE  (InFull(chat) \cup UNION {InFull(old.chat) : old \in found} = DOMAIN said)'
    <3>1. Closed(found) BY <1>1, <2>2 DEF Closed
    <3>2. InFull(chat) \cup UNION {InFull(old.chat) : old \in found} = DOMAIN said
      BY <3>1 DEF ChatInv, NothingIsForgotten
    <3>3. InFull(chat)' = InFull(chat) /\ \A old \in found : InFull(old.chat)' = InFull(old.chat)
      BY <1>1 DEF InFull
    <3>4. DOMAIN said' = DOMAIN said BY <1>1
    <3> QED BY <3>2, <3>3, <3>4
  <2>3. NothingIsForgotten' BY <1>1, <2>2 DEF NothingIsForgotten
  <2> QED BY <1>1, <2>1, <2>3 DEF ChatInv
<1>2. CASE UNCHANGED chatVars BY <1>1, <1>2 DEF chatVars
<1>3. ASSUME NEW cost, Keep(cost) \/ Refused PROVE ChatInv' BY <1>1, <1>3 DEF Keep, Refused
<1>4. ASSUME NEW cost, Compact(cost) PROVE ChatInv' BY <1>4, CompactKeeps
<1>5. \A role \in Roles, size \in Nat, calls \in Nat : Message(role, size, calls) \in Spoken
  BY DEF Message, Spoken
<1>6. ASSUME NEW n \in 1..2, NEW size \in Sizes, CallTools(n, size) PROVE ChatInv'
  <2> DEFINE messages == [k \in 1..(n + 1) |-> IF k = 1 THEN Message("assistant", Small, n)
                                                 ELSE Message("tool", size, 0)]
  <2>1. Message("assistant", Small, n) \in Spoken /\ Message("tool", size, 0) \in Spoken
    BY <1>5, CompactionAssumption DEF Roles
  <2>2. messages \in Seq(Spoken) BY <2>1
  <2> QED BY <1>6, <2>2, SayKeeps DEF CallTools
<1>7. ASSUME NEW size \in Sizes, Reply(size) \/ Ask(size) PROVE ChatInv'
  <2>1. Message("assistant", size, 0) \in Spoken /\ Message("user", size, 0) \in Spoken
    BY <1>5, CompactionAssumption DEF Roles
  <2>2. <<Message("assistant", size, 0)>> \in Seq(Spoken) /\ <<Message("user", size, 0)>> \in Seq(Spoken)
    BY <2>1
  <2>3. CASE Reply(size) BY <2>2, <2>3, SayKeeps DEF Reply
  <2>4. CASE Ask(size) BY <2>2, <2>4, SayKeeps DEF Ask
  <2> QED BY <1>7, <2>3, <2>4
<1> QED BY <1>2, <1>3, <1>4, <1>6, <1>7 DEF ChatNext

\* However often a chat is compacted, and for whatever prices and refusals, everything
\* said in it can be reached from the next request, word for word (context.ts:207-411).
THEOREM NothingSaidIsLost == ChatSpec => []NothingIsForgotten
<1>1. ChatInv => NothingIsForgotten BY DEF ChatInv
<1> QED BY <1>1, ChatStarts, ChatKeeps, PTL DEF ChatSpec

-----------------------------------------------------------------------------
(***************************************************************************)
(* What a model is sent of the chat.  The results of an answer's calls     *)
(* stand right after it and are said with it; a compaction takes them      *)
(* together or leaves them together.                                       *)
(***************************************************************************)
Asked(i)   == said[i].role = "assistant"
ResultsOf(i) == (i + 1)..(i + said[i].calls)
Paired ==
  /\ \A i \in DOMAIN said : Asked(i) => \A j \in ResultsOf(i) : j \in DOMAIN said /\ said[j].role = "tool"
  /\ \A j \in DOMAIN said : said[j].role = "tool" => \E i \in DOMAIN said : Asked(i) /\ j \in ResultsOf(i)
IsWhole(list) ==
  /\ list \in List /\ list.held \subseteq DOMAIN said
  /\ \A i \in DOMAIN said : Asked(i) => \A j \in ResultsOf(i) : i \in list.held <=> j \in list.held
WholeInv == said \in Seq(Spoken) /\ Paired /\ IsWhole(chat)

LEMMA SaidIs ==
  ASSUME said \in Seq(Spoken), NEW i \in DOMAIN said
  PROVE  i \in Nat /\ said[i] \in Spoken /\ said[i].calls \in Nat
<1>1. DOMAIN said = 1..Len(said) /\ Len(said) \in Nat OBVIOUS
<1>2. said[i] \in Spoken OBVIOUS
<1> QED BY <1>1, <1>2 DEF Spoken

\* A result is of one answer.
LEMMA ResultIsOfOne ==
  ASSUME said \in Seq(Spoken), Paired, NEW i \in DOMAIN said, NEW k \in DOMAIN said, Asked(i), Asked(k),
         NEW j \in Nat, j \in ResultsOf(i), j \in ResultsOf(k)
  PROVE  i = k
<1>1. i \in Nat /\ k \in Nat /\ said[i].calls \in Nat /\ said[k].calls \in Nat BY SaidIs
<1>2. CASE i < k
  <2>1. k \in ResultsOf(i) BY <1>1, <1>2 DEF ResultsOf
  <2> QED BY <2>1 DEF Paired, Asked
<1>3. CASE k < i
  <2>1. i \in ResultsOf(k) BY <1>1, <1>3 DEF ResultsOf
  <2> QED BY <2>1 DEF Paired, Asked
<1> QED BY <1>1, <1>2, <1>3

\* In a whole list an exchange is an answer and its results, or a message of the user.
LEMMA ExchangeIs ==
  ASSUME said \in Seq(Spoken), Paired, NEW list, IsWhole(list), NEW i \in list.held
  PROVE  /\ Asked(i) => Exchange(list, i) = {i} \cup ResultsOf(i)
         /\ ~Asked(i) => Exchange(list, i) = {i}
<1>1. i \in DOMAIN said /\ i \in Nat /\ said[i].calls \in Nat BY SaidIs DEF IsWhole
<1>2. CASE ~Asked(i) BY <1>2 DEF Exchange, Asked
<1>3. CASE Asked(i)
  <2>1. ASSUME NEW j \in ResultsOf(i) PROVE j \in Exchange(list, i)
    <3>1. \A x \in (i + 1)..j : x \in ResultsOf(i) BY <1>1, <2>1 DEF ResultsOf
    <3>2. j \in By(list, "tool") /\ i < j
      BY <1>1, <1>3, <2>1 DEF Paired, IsWhole, By, ResultsOf
    <3>3. (i + 1)..j \cap list.held \subseteq By(list, "tool") BY <1>1, <1>3, <3>1 DEF Paired, By
    <3> QED BY <1>3, <3>2, <3>3 DEF Exchange, Asked
  <2>2. ASSUME NEW j \in By(list, "tool"), i < j, (i + 1)..j \cap list.held \subseteq By(list, "tool")
        PROVE  j \in ResultsOf(i)
    <3>1. j \in DOMAIN said /\ j \in list.held /\ said[j].role = "tool" /\ j \in Nat
      BY <2>2 DEF By, IsWhole
    <3>2. PICK k \in DOMAIN said : Asked(k) /\ j \in ResultsOf(k) BY <3>1 DEF Paired
    <3>3. k \in list.held /\ k \in Nat /\ said[k].calls \in Nat BY <3>1, <3>2, SaidIs DEF IsWhole
    <3>4. ~(i < k)
      <4> SUFFICES ASSUME i < k PROVE FALSE OBVIOUS
      <4>1. k \in (i + 1)..j BY <1>1, <3>1, <3>2, <3>3 DEF ResultsOf
      <4>2. k \in By(list, "tool") BY <2>2, <3>3, <4>1
      <4> QED BY <3>2, <4>2 DEF By, Asked
    <3>5. ~(k < i)
      <4> SUFFICES ASSUME k < i PROVE FALSE OBVIOUS
      <4>1. i \in ResultsOf(k) BY <1>1, <2>2, <3>1, <3>2, <3>3 DEF ResultsOf
      <4> QED BY <1>1, <1>3, <3>2, <4>1 DEF Paired, Asked
    <3>6. i = k BY <1>1, <3>3, <3>4, <3>5
    <3> QED BY <3>2, <3>6
  <2> QED BY <1>3, <2>1, <2>2 DEF Exchange, Asked
<1> QED BY <1>2, <1>3

LEMMA RemovesWhole ==
  ASSUME said \in Seq(Spoken), Paired, NEW list, IsWhole(list), NEW spare, NEW lines, NEW target
  PROVE  IsWhole(RemoveOldest(list, spare, lines, target))
<1> DEFINE heads   == (By(list, "user") \cup By(list, "assistant")) \ spare
           gone(n) == UNION {Exchange(list, i) : i \in {h \in heads : h <= n}}
           fits(n) == Count(Less(list, gone(n)), Room(lines + Cardinality(gone(n)), target)) <= target
           last    == FirstOr(Len(said), {n \in {0} \cup heads : fits(n)})
           away    == gone(last)
<1>1. RemoveOldest(list, spare, lines, target) = Less(list, away) BY DEF RemoveOldest
<1>2. \A h \in heads : h \in list.held /\ said[h].role # "tool" BY DEF By
<1>3. \A j \in away : \E h \in heads : j \in Exchange(list, h) /\ Exchange(list, h) \subseteq away
  OBVIOUS
<1>4. away \cap list.held \in SUBSET list.held OBVIOUS
<1> HIDE DEF away
<1>5. ASSUME NEW i \in DOMAIN said, Asked(i), NEW j \in ResultsOf(i), i \in list.held
      PROVE  i \in away <=> j \in away
  <2>1. j \in list.held /\ said[j].role = "tool" /\ j \in Nat /\ said[i].role # "tool"
    BY <1>5 DEF IsWhole, Paired, Asked, List
  <2>2. ASSUME i \in away PROVE j \in away
    <3>1. PICK h \in heads : i \in Exchange(list, h) /\ Exchange(list, h) \subseteq away BY <1>3, <2>2
    <3>2. i = h
      <4>1. ~Asked(h) => i = h BY <1>2, <3>1, ExchangeIs
      <4>2. Asked(h) /\ i # h => i \in ResultsOf(h) BY <1>2, <3>1, ExchangeIs
      <4>3. h \in DOMAIN said BY <1>2 DEF IsWhole
      <4> QED BY <2>1, <4>1, <4>2, <4>3 DEF Paired
    <3>3. Exchange(list, i) = {i} \cup ResultsOf(i) BY <1>5, ExchangeIs
    <3> QED BY <1>5, <3>1, <3>2, <3>3
  <2>3. ASSUME j \in away PROVE i \in away
    <3>1. PICK h \in heads : j \in Exchange(list, h) /\ Exchange(list, h) \subseteq away BY <1>3, <2>3
    <3>2. j # h BY <1>2, <2>1
    <3>3. h \in DOMAIN said /\ h \in list.held BY <1>2 DEF IsWhole
    <3>4. Asked(h) /\ j \in ResultsOf(h) BY <3>1, <3>2, <3>3, ExchangeIs
    <3>5. h = i BY <1>5, <2>1, <3>3, <3>4, ResultIsOfOne
    <3>6. i \in Exchange(list, i) BY <1>5, ExchangeIs
    <3> QED BY <3>1, <3>5, <3>6
  <2> QED BY <2>2, <2>3
<1>6. Less(list, away) \in List /\ Less(list, away).held = list.held \ away BY DEF Less, List, IsWhole
<1>7. ASSUME NEW i \in DOMAIN said, Asked(i), NEW j \in ResultsOf(i)
      PROVE  i \in list.held \ away <=> j \in list.held \ away
  <2>1. i \in list.held <=> j \in list.held BY <1>7 DEF IsWhole
  <2> QED BY <1>5, <1>7, <2>1
<1> QED BY <1>1, <1>6, <1>7 DEF IsWhole

\* What matters is what is held: texts may go to files.
LEMMA HoldsWhole ==
  ASSUME NEW list, IsWhole(list), NEW other \in List, other.held = list.held
  PROVE  IsWhole(other)
BY DEF IsWhole

LEMMA CompactsWhole ==
  ASSUME said \in Seq(Spoken), Paired, NEW list, IsWhole(list), NEW carried, NEW target
  PROVE  IsWhole(Compacted(list, carried, target).chat)
<1> DEFINE ready  == SaveEnds(SavePastes(SaveTools(list, target), target), 0, target, target)
           ends   == {First(ready), Latest(ready)}
           spared == RemoveOldest(ready, Spared(ready, ends), Len(carried), target)
           gone   == ready.held \ spared.held
           all    == RemoveOldest(spared, ends, Len(carried) + Cardinality(gone), target)
           lines  == carried \o InOrder(ready.held \ all.held)
           most   == LastOr(0, {n \in 0..Min({Len(lines), MaxLines}) : Count(all, n) <= target})
           left   == SaveEnds(all, most, target, Small)
<1>1. Compacted(list, carried, target).chat = left BY DEF Compacted
<1>2. list \in List BY DEF IsWhole
<1>3. ready \in List /\ ready.held = list.held BY <1>2, SavesToolsAndPastes, SavesTheEnds
<1>4. IsWhole(ready) BY <1>3, HoldsWhole
<1> HIDE DEF ready
<1>5. IsWhole(spared) BY <1>4, RemovesWhole
<1> HIDE DEF spared
<1>6. IsWhole(all) BY <1>5, RemovesWhole
<1> HIDE DEF all
<1>7. left \in List /\ left.held = all.held BY <1>6, SavesTheEnds DEF IsWhole
<1> HIDE DEF left
<1> QED BY <1>1, <1>6, <1>7, HoldsWhole

LEMMA WholeMeansWhole == WholeInv => ExchangesAreWhole
<1> SUFFICES ASSUME WholeInv PROVE ExchangesAreWhole OBVIOUS
<1>1. ASSUME NEW i \in By(chat, "tool")
      PROVE  said[LastOr(1, {j \in chat.held : j < i})].role \in {"assistant", "tool"}
  <2> DEFINE earlier == {j \in chat.held : j < i}
  <2>1. i \in chat.held /\ i \in DOMAIN said /\ i \in Nat /\ said[i].role = "tool" /\ chat.held \subseteq Nat
    BY <1>1 DEF By, WholeInv, IsWhole
  <2>2. PICK k \in DOMAIN said : Asked(k) /\ i \in ResultsOf(k) BY <2>1 DEF WholeInv, Paired
  <2>3. k \in Nat /\ k \in chat.held /\ said[k].calls \in Nat
    BY <2>1, <2>2, SaidIs DEF WholeInv, IsWhole
  <2>4. k < i /\ i <= k + said[k].calls BY <2>1, <2>2, <2>3 DEF ResultsOf
  <2>5. i - 1 \in Nat /\ (i - 1 = k \/ i - 1 \in ResultsOf(k)) BY <2>1, <2>3, <2>4 DEF ResultsOf
  <2>6. i - 1 \in chat.held BY <2>2, <2>3, <2>5 DEF WholeInv, IsWhole
  <2>7. said[i - 1].role \in {"assistant", "tool"} BY <2>2, <2>5 DEF WholeInv, Paired, Asked
  <2>8. i - 1 \in earlier /\ \A j \in earlier : j <= i - 1 /\ j \in Nat BY <2>1, <2>5, <2>6
  <2>9. LastOr(1, earlier) = i - 1
    <3>1. LastOr(1, earlier) = CHOOSE x \in earlier : \A y \in earlier : x >= y
      BY <2>8 DEF LastOr, Max
    <3>2. \A x \in earlier : (\A y \in earlier : x >= y) <=> x = i - 1 BY <2>5, <2>8
    <3> HIDE DEF earlier
    <3> QED BY <2>8, <3>1, <3>2
  <2> QED BY <2>7, <2>9
<1>2. ASSUME NEW i \in By(chat, "assistant") PROVE Cardinality(Exchange(chat, i)) = 1 + said[i].calls
  <2>1. i \in chat.held /\ Asked(i) BY <1>2 DEF By, Asked
  <2>2. i \in Nat /\ said[i].calls \in Nat BY <2>1, SaidIs DEF WholeInv, IsWhole
  <2>3. Exchange(chat, i) = {i} \cup ResultsOf(i) BY <2>1, ExchangeIs DEF WholeInv
  <2>4. {i} \cup ResultsOf(i) = i..(i + said[i].calls) BY <2>2 DEF ResultsOf
  <2>5. i \in Int /\ i + said[i].calls \in Int /\ ~(i > i + said[i].calls) BY <2>2
  <2>6. PICK last : last = i + said[i].calls OBVIOUS
  <2>7. Cardinality(i..last) = last - i + 1 BY <2>5, <2>6, FS_Interval
  <2>8. Cardinality(Exchange(chat, i)) = last - i + 1 BY <2>3, <2>4, <2>6, <2>7
  <2>9. last - i + 1 = 1 + said[i].calls BY <2>2, <2>6
  <2> QED BY <2>8, <2>9
<1> QED BY <1>1, <1>2 DEF ExchangesAreWhole

\* Messages that are said together: one, or an answer with all its results.
IsTurn(messages) ==
  /\ messages \in Seq(Spoken) /\ Len(messages) >= 1 /\ messages[1].role # "tool"
  /\ messages[1].role = "assistant" => messages[1].calls = Len(messages) - 1
  /\ Len(messages) > 1 => messages[1].role = "assistant"
  /\ \A k \in 2..Len(messages) : messages[k].role = "tool"

LEMMA SayWhole ==
  ASSUME WholeInv, NEW messages, IsTurn(messages), NEW next, Say(messages, next)
  PROVE  WholeInv'
<1>1. /\ said' = said \o messages
      /\ chat' = [chat EXCEPT !.held = @ \cup (Len(said) + 1)..Len(said \o messages)]
  BY DEF Say
<1>2. PICK n \in Nat : n = Len(said) BY DEF WholeInv
<1>3. PICK m \in Nat : m = Len(messages) /\ m >= 1 BY DEF IsTurn
<1>4. said' \in Seq(Spoken) /\ Len(said') = n + m BY <1>1, <1>2, <1>3 DEF WholeInv, IsTurn
<1>5. DOMAIN said = 1..n /\ DOMAIN said' = 1..(n + m) BY <1>2, <1>4 DEF WholeInv
<1>6. \A i \in 1..n : said'[i] = said[i] BY <1>1, <1>2, <1>3 DEF WholeInv, IsTurn
<1>7. \A k \in 1..m : said'[n + k] = messages[k] BY <1>1, <1>2, <1>3 DEF WholeInv, IsTurn
<1>8. chat' \in List /\ chat'.held = chat.held \cup (n + 1)..(n + m)
  <2>1. (Len(said) + 1)..Len(said \o messages) = (n + 1)..(n + m) BY <1>1, <1>2, <1>4
  <2>2. (n + 1)..(n + m) \subseteq Nat /\ chat \in List BY DEF WholeInv, IsWhole
  <2> QED BY <1>1, <2>1, <2>2 DEF List
<1>9. said'[n + 1] = messages[1] /\ \A j \in (n + 2)..(n + m) : said'[j].role = "tool"
  <2>1. \A j \in (n + 2)..(n + m) : j - n \in 2..m /\ said'[j] = messages[j - n]
    <3> SUFFICES ASSUME NEW j \in (n + 2)..(n + m) PROVE j - n \in 2..m /\ said'[j] = messages[j - n] OBVIOUS
    <3>1. j - n \in 2..m /\ j - n \in 1..m /\ n + (j - n) = j BY <1>3
    <3> QED BY <1>7, <3>1
  <2>2. 1 \in 1..m BY <1>3
  <2> QED BY <1>3, <1>7, <2>1, <2>2 DEF IsTurn
<1>10. \A i \in 1..n : Asked(i)' = Asked(i) /\ ResultsOf(i)' = ResultsOf(i) BY <1>6 DEF Asked, ResultsOf
<1>11. Asked(n + 1)' => ResultsOf(n + 1)' = (n + 2)..(n + m)
  <2> SUFFICES ASSUME Asked(n + 1)' PROVE ResultsOf(n + 1)' = (n + 2)..(n + m) OBVIOUS
  <2>1. said'[n + 1].calls = m - 1 BY <1>3, <1>9 DEF Asked, IsTurn
  <2> QED BY <1>3, <2>1 DEF ResultsOf
<1>12. \A i \in (n + 1)..(n + m) : Asked(i)' => i = n + 1 BY <1>3, <1>9 DEF Asked
<1>13. \A i \in 1..(n + m) : i \in 1..n \/ i \in (n + 1)..(n + m) BY <1>3
<1>14. ASSUME NEW i \in 1..(n + m), Asked(i)', NEW j \in ResultsOf(i)'
       PROVE  /\ j \in 1..(n + m) /\ said'[j].role = "tool" /\ (i \in chat'.held <=> j \in chat'.held)
  <2>1. CASE i \in 1..n
    <3>1. Asked(i) /\ j \in ResultsOf(i) BY <1>10, <1>14, <2>1
    <3>2. j \in 1..n /\ said[j].role = "tool" /\ (i \in chat.held <=> j \in chat.held)
      BY <1>5, <2>1, <3>1 DEF WholeInv, Paired, IsWhole
    <3>3. i \notin (n + 1)..(n + m) /\ j \notin (n + 1)..(n + m) BY <2>1, <3>2
    <3> QED BY <1>3, <1>6, <1>8, <3>2, <3>3
  <2>2. CASE i \in (n + 1)..(n + m)
    <3>1. j \in (n + 2)..(n + m) BY <1>11, <1>12, <1>14, <2>2
    <3>2. j \in 1..(n + m) /\ j \in (n + 1)..(n + m) BY <1>3, <3>1
    <3> QED BY <1>8, <1>9, <2>2, <3>1, <3>2
  <2> QED BY <1>13, <2>1, <2>2
<1>15. ASSUME NEW j \in 1..(n + m), said'[j].role = "tool"
       PROVE  \E i \in 1..(n + m) : Asked(i)' /\ j \in ResultsOf(i)'
  <2>1. CASE j \in 1..n
    <3>1. PICK i \in 1..n : Asked(i) /\ j \in ResultsOf(i)
      BY <1>5, <1>6, <1>15, <2>1 DEF WholeInv, Paired
    <3>2. i \in 1..(n + m) BY <1>3
    <3> QED BY <1>10, <3>1, <3>2
  <2>2. CASE j \in (n + 1)..(n + m)
    <3>1. j # n + 1 BY <1>9, <1>15 DEF IsTurn
    <3>2. j \in (n + 2)..(n + m) /\ m > 1 BY <1>3, <2>2, <3>1
    <3>3. Asked(n + 1)' BY <1>3, <1>9, <3>2 DEF Asked, IsTurn
    <3>4. n + 1 \in 1..(n + m) BY <1>3
    <3> QED BY <1>11, <3>2, <3>3, <3>4
  <2> QED BY <1>13, <2>1, <2>2
<1>16. chat'.held \subseteq 1..(n + m) BY <1>3, <1>5, <1>8 DEF WholeInv, IsWhole
<1>17. Paired' BY <1>5, <1>14, <1>15 DEF Paired
<1>18. IsWhole(chat)' BY <1>5, <1>8, <1>14, <1>16 DEF IsWhole
<1> QED BY <1>4, <1>17, <1>18 DEF WholeInv

LEMMA WholeStarts == ChatInit => WholeInv
<1> SUFFICES ASSUME ChatInit PROVE WholeInv OBVIOUS
<1>1. said \in Seq(Spoken) /\ Sound(chat) BY ChatStarts DEF ChatInv
<1>2. PICK size \in Sizes :
        said = <<Message("system", Small, 0), Message("user", size, 0)>> BY DEF ChatInit
<1>3. DOMAIN said = {1, 2} /\ said[1].role = "system" /\ said[2].role = "user" BY <1>2 DEF Message
<1> QED BY <1>1, <1>3 DEF WholeInv, Paired, IsWhole, Sound, Asked

LEMMA WholeKeeps == WholeInv /\ [ChatNext]_chatVars => WholeInv'
<1> SUFFICES ASSUME WholeInv, [ChatNext]_chatVars PROVE WholeInv' OBVIOUS
<1>1. ASSUME UNCHANGED said, IsWhole(chat') PROVE WholeInv'
  BY <1>1 DEF WholeInv, Paired, IsWhole, Asked, ResultsOf
<1>2. ASSUME UNCHANGED <<said, chat>> PROVE WholeInv' BY <1>1, <1>2 DEF WholeInv
<1>3. CASE UNCHANGED chatVars BY <1>2, <1>3 DEF chatVars
<1>4. ASSUME NEW cost, Keep(cost) \/ Refused PROVE WholeInv' BY <1>2, <1>4 DEF Keep, Refused
<1>5. ASSUME NEW cost, Compact(cost) PROVE WholeInv'
  <2> DEFINE made == Compacted(chat, pointer.lines, Goal(Trigger(cost)))
  <2>1. IsWhole(made.chat) BY CompactsWhole DEF WholeInv
  <2>2. UNCHANGED said /\ (chat' = chat \/ chat' = made.chat) BY <1>5 DEF Compact
  <2> HIDE DEF made
  <2> QED BY <1>1, <1>2, <2>1, <2>2
<1>6. \A role \in Roles, size \in Nat, calls \in Nat : Message(role, size, calls) \in Spoken
  BY DEF Message, Spoken
<1>7. ASSUME NEW n \in 1..2, NEW size \in Sizes, CallTools(n, size) PROVE WholeInv'
  <2> DEFINE messages == [k \in 1..(n + 1) |-> IF k = 1 THEN Message("assistant", Small, n)
                                                 ELSE Message("tool", size, 0)]
  <2>1. Message("assistant", Small, n) \in Spoken /\ Message("tool", size, 0) \in Spoken
    BY <1>6, CompactionAssumption DEF Roles
  <2>2. messages \in Seq(Spoken) /\ Len(messages) = n + 1 BY <2>1
  <2>3. /\ messages[1] = Message("assistant", Small, n)
        /\ \A k \in 2..(n + 1) : messages[k] = Message("tool", size, 0)
    OBVIOUS
  <2>4. IsTurn(messages) BY <2>2, <2>3 DEF IsTurn, Message
  <2> HIDE DEF messages
  <2>5. Say(messages, "prepare") BY <1>7 DEF CallTools, messages
  <2> QED BY <2>4, <2>5, SayWhole
<1>8. ASSUME NEW size \in Sizes, Reply(size) \/ Ask(size) PROVE WholeInv'
  <2>1. Message("assistant", size, 0) \in Spoken /\ Message("user", size, 0) \in Spoken
    BY <1>6, CompactionAssumption DEF Roles
  <2>2. IsTurn(<<Message("assistant", size, 0)>>) /\ IsTurn(<<Message("user", size, 0)>>)
    BY <2>1 DEF IsTurn, Message
  <2>3. CASE Reply(size) BY <2>2, <2>3, SayWhole DEF Reply
  <2>4. CASE Ask(size) BY <2>2, <2>4, SayWhole DEF Ask
  <2> QED BY <1>8, <2>3, <2>4
<1> QED BY <1>3, <1>4, <1>5, <1>7, <1>8 DEF ChatNext

\* However often a chat is compacted, a model is sent whole exchanges: no tool result
\* without the call it answers, no call without its results (context.ts:207-411).
THEOREM ExchangesStayWhole == ChatSpec => []ExchangesAreWhole
<1> QED BY WholeMeansWhole, WholeStarts, WholeKeeps, PTL DEF ChatSpec

-----------------------------------------------------------------------------
(***************************************************************************)
(* The terminal.  At most one of its runs works at a time, and `running'   *)
(* says whether one does.  forceQuit stands only where the user has read   *)
(* of a missing review since the session on the screen was opened.         *)
(***************************************************************************)
LeaveInv == forceQuit => told # "nothing"
\* The next session is there to be opened, and what is in a file was typed.
TermTyped ==
  /\ TypeOK
  /\ opening => session + 1 \in Sessions
  /\ pushing \subseteq typed \X Sessions /\ \A s \in Sessions : inbox[s] \subseteq typed
TermInv == TermTyped /\ OneRun /\ LeaveInv

LEMMA TermStarts == Init => TermInv
<1> SUFFICES ASSUME Init PROVE TermInv OBVIOUS
<1>1. 1 \in Sessions BY TerminalAssumption DEF Sessions
<1>2. NoTask \in Task /\ NoTask.pc = "none" BY <1>1 DEF NoTask, Task
<1>3. TermTyped BY <1>1, <1>2, TerminalNames DEF Init, TermTyped, TypeOK, Screens, Tidings
<1>4. OneRun BY <1>2 DEF Init, OneRun
<1>5. LeaveInv BY DEF Init, LeaveInv
<1> QED BY <1>3, <1>4, <1>5 DEF TermInv

\* What the screen, the keys and the files of messages do to none of this.
LEMMA RestKeeps ==
  ASSUME TermInv, TermTyped', UNCHANGED <<task, running, forceQuit, told>>
  PROVE  TermInv'
<1>1. OneRun' BY DEF TermInv, OneRun
<1>2. LeaveInv' BY DEF TermInv, LeaveInv
<1> QED BY <1>1, <1>2 DEF TermInv

\* The only ways in which runs come and go.
LEMMA StartKeeps ==
  ASSUME TermInv, NEW prompt \in BOOLEAN, SubmitTask(prompt),
         UNCHANGED <<forceQuit, told>>
  PROVE  /\ task' \in [Slots -> Task] /\ running' \in BOOLEAN /\ paused' \in BOOLEAN
         /\ OneRun' /\ LeaveInv'
<1>1. CASE running BY <1>1 DEF SubmitTask, TermInv, TermTyped, TypeOK, OneRun, LeaveInv
<1>2. CASE ~running
  <2>1. PICK t \in Slots :
          /\ task' = [task EXCEPT ![t] = [pc |-> "admit", on |-> session, prompt |-> prompt]]
          /\ running' = TRUE /\ paused' = FALSE
    BY <1>2 DEF SubmitTask, Start
  <2>2. [pc |-> "admit", on |-> session, prompt |-> prompt] \in Task BY DEF Task, TermInv, TermTyped, TypeOK
  <2>3. /\ task' \in [Slots -> Task] /\ task'[t].pc = "admit"
        /\ \A u \in Slots \ {t} : task'[u] = task[u]
    BY <2>1, <2>2 DEF TermInv, TermTyped, TypeOK
  <2>4. \A u \in Slots : task[u].pc = "none" BY <1>2 DEF TermInv, OneRun
  <2>5. OneRun' BY <2>1, <2>3, <2>4 DEF OneRun
  <2>7. LeaveInv' BY DEF TermInv, LeaveInv
  <2> QED BY <2>1, <2>3, <2>5, <2>7
<1> QED BY <1>1, <1>2 DEF TermInv, TermTyped, TypeOK

LEMMA EndKeeps ==
  ASSUME TermInv, NEW t \in Slots, NEW failed \in BOOLEAN, task[t].pc # "none", Ends(t, failed),
         UNCHANGED <<forceQuit, told>>
  PROVE  /\ task' \in [Slots -> Task] /\ running' \in BOOLEAN /\ paused' \in BOOLEAN
         /\ OneRun' /\ LeaveInv'
<1>1. 1 \in Sessions BY TerminalAssumption DEF Sessions
<1>2. NoTask \in Task /\ NoTask.pc = "none" BY <1>1 DEF NoTask, Task
<1>3. /\ task' \in [Slots -> Task] /\ task'[t] = NoTask /\ \A u \in Slots \ {t} : task'[u] = task[u]
      /\ running' = FALSE /\ paused' \in BOOLEAN
  BY <1>2 DEF Ends, TermInv, TermTyped, TypeOK
<1>4. \A u \in Slots \ {t} : task[u].pc = "none" BY DEF TermInv, OneRun
<1>5. OneRun' BY <1>2, <1>3, <1>4 DEF OneRun
<1>7. LeaveInv' BY DEF TermInv, LeaveInv
<1> QED BY <1>3, <1>5, <1>7

LEMMA GotoKeeps ==
  ASSUME TermInv, NEW t \in Slots, NEW pc \in {"turn", "model"}, task[t].pc # "none", Goto(t, pc),
         UNCHANGED running
  PROVE  task' \in [Slots -> Task] /\ OneRun'
<1>1. task[t] \in Task BY DEF TermInv, TermTyped, TypeOK
<1>2. [task[t] EXCEPT !.pc = pc] \in Task BY <1>1 DEF Task
<1>3. /\ task' \in [Slots -> Task] /\ task'[t].pc = pc
      /\ \A u \in Slots \ {t} : task'[u] = task[u]
  BY <1>1, <1>2 DEF Goto, TermInv, TermTyped, TypeOK, Task
<1>4. \A u \in Slots : (task'[u].pc = "none") = (task[u].pc = "none") BY <1>3
<1>5. OneRun' BY <1>4 DEF TermInv, OneRun
<1> QED BY <1>3, <1>5

-----------------------------------------------------------------------------
LEMMA KeysKeep ==
  ASSUME TermInv,
         \/ Submit \/ New \/ Wallet \/ CloseWallet \/ SaveLimits \/ SkipPanel
         \/ \E m \in Messages : Queue(m)
  PROVE  TermInv'
<1> USE DEF screen, runs, mail, leaving, exits
<1>1. CASE Submit
  <2>1. /\ task' \in [Slots -> Task] /\ running' \in BOOLEAN /\ paused' \in BOOLEAN
        /\ OneRun' /\ LeaveInv'
    BY <1>1, StartKeeps DEF Submit
  <2>2. TermTyped' BY <1>1, <2>1 DEF Submit, TermInv, TermTyped, TypeOK
  <2> QED BY <2>1, <2>2 DEF TermInv
<1>2. CASE New
  <2>1. TermTyped' BY <1>2 DEF New, TermInv, TermTyped, TypeOK
  <2> QED BY <1>2, <2>1, RestKeeps DEF New
<1>3. CASE Wallet
  <2>1. TermTyped' BY <1>3, TerminalNames DEF Wallet, Rerender, Screens, TermInv, TermTyped, TypeOK
  <2> QED BY <1>3, <2>1, RestKeeps DEF Wallet
<1>4. CASE CloseWallet
  <2>1. TermTyped' BY <1>4, TerminalNames DEF CloseWallet, Rerender, Screens, TermInv, TermTyped, TypeOK
  <2> QED BY <1>4, <2>1, RestKeeps DEF CloseWallet
<1>5. CASE SaveLimits
  <2>1. TermTyped' BY <1>5 DEF SaveLimits, TermInv, TermTyped, TypeOK
  <2> QED BY <1>5, <2>1, RestKeeps DEF SaveLimits
<1>6. CASE SkipPanel
  <2>1. TermTyped' BY <1>6 DEF SkipPanel, Rerender, TermInv, TermTyped, TypeOK
  <2> QED BY <1>6, <2>1, RestKeeps DEF SkipPanel
<1>7. ASSUME NEW m \in Messages, Queue(m) PROVE TermInv'
  <2>1. TermTyped' BY <1>7 DEF Queue, TermInv, TermTyped, TypeOK
  <2> QED BY <1>7, <2>1, RestKeeps DEF Queue
<1> QED BY <1>1, <1>2, <1>3, <1>4, <1>5, <1>6, <1>7

LEMMA LeavingKeeps ==
  ASSUME TermInv, Quit \/ CtrlC \/ Opened \/ \E s \in Sessions : Checked(s)
  PROVE  TermInv'
<1> USE DEF screen, runs, mail, leaving, exits
<1>1. CASE Quit \/ CtrlC
  <2>1. TermTyped'
    <3>1. /\ checking \subseteq Sessions /\ session \in Sessions /\ exiting \in BOOLEAN
          /\ Finalize
      BY <1>1 DEF Quit, CtrlC, TermInv, TermTyped, TypeOK
    <3>2. checking' \subseteq Sessions /\ exiting' \in BOOLEAN BY <3>1 DEF Finalize
    <3>3. look' = (look /\ ~exiting') /\ look' \in BOOLEAN BY <1>1 DEF Quit, CtrlC
    <3>4. UNCHANGED <<session, opening, screen, runs, busy, mail, due, forceQuit, told, unread>>
      BY <1>1 DEF Quit, CtrlC
    <3> QED BY <3>2, <3>3, <3>4 DEF TermInv, TermTyped, TypeOK
  <2>2. OneRun' BY <1>1 DEF Quit, CtrlC, TermInv, OneRun
  <2>5. LeaveInv' BY <1>1 DEF Quit, CtrlC, TermInv, LeaveInv
  <2> QED BY <2>1, <2>2, <2>5 DEF TermInv
<1>2. CASE Opened
  <2>2. TermTyped'
    <3>1. session' \in Sessions BY <1>2 DEF Opened, TermInv, TermTyped, TypeOK
    <3>2. look' \in BOOLEAN BY <1>2 DEF Opened, Rerender
    <3>3. /\ opening' = FALSE /\ forceQuit' = FALSE /\ told' = "nothing"
          /\ UNCHANGED <<screen, runs, busy, mail, due, checking, exiting, unread>>
      BY <1>2 DEF Opened
    <3> QED BY <3>1, <3>2, <3>3 DEF TermInv, TermTyped, TypeOK, Tidings
  <2>3. OneRun' BY <1>2 DEF Opened, TermInv, OneRun
  <2>4. LeaveInv' BY <1>2 DEF Opened, LeaveInv
  <2> QED BY <2>2, <2>3, <2>4 DEF TermInv
<1>3. ASSUME NEW s \in Sessions, Checked(s) PROVE TermInv'
  <2>1. TermTyped' BY <1>3 DEF Checked, Tidings, TermInv, TermTyped, TypeOK
  <2>2. OneRun' BY <1>3 DEF Checked, TermInv, OneRun
  <2>3. LeaveInv' BY <1>3 DEF Checked, TermInv, LeaveInv
  <2> QED BY <2>1, <2>2, <2>3 DEF TermInv
<1> QED BY <1>1, <1>2, <1>3

LEMMA EffectsKeep ==
  ASSUME TermInv,
         \/ Look \/ Render \/ LimitsSaved \/ Balance \/ Funded
         \/ \E m \in Messages, s \in Sessions : Pushed(m, s)
  PROVE  TermInv'
<1> USE DEF screen, runs, mail, leaving, exits
<1>1. CASE Look
  <2>1. CASE SubmitTask(FALSE)
    <3>1. /\ task' \in [Slots -> Task] /\ running' \in BOOLEAN /\ paused' \in BOOLEAN
          /\ OneRun' /\ LeaveInv'
      BY <1>1, <2>1, StartKeeps DEF Look
    <3>2. TermTyped' BY <1>1, <3>1 DEF Look, TermInv, TermTyped, TypeOK
    <3> QED BY <3>1, <3>2 DEF TermInv
  <2>2. CASE UNCHANGED <<task, running, paused>>
    <3>1. TermTyped' BY <1>1, <2>2 DEF Look, TermInv, TermTyped, TypeOK
    <3> QED BY <1>1, <2>2, <3>1, RestKeeps DEF Look
  <2> QED BY <1>1, <2>1, <2>2 DEF Look
<1>2. CASE Render
  <2>1. TermTyped' BY <1>2 DEF Render, Rerender, TermInv, TermTyped, TypeOK
  <2> QED BY <1>2, <2>1, RestKeeps DEF Render
<1>3. CASE LimitsSaved
  <2>1. TermTyped' BY <1>3, TerminalNames DEF LimitsSaved, Rerender, Screens, TermInv, TermTyped, TypeOK
  <2> QED BY <1>3, <2>1, RestKeeps DEF LimitsSaved
<1>4. CASE Balance
  <2>1. TermTyped' BY <1>4 DEF Balance, Rerender, TermInv, TermTyped, TypeOK
  <2> QED BY <1>4, <2>1, RestKeeps DEF Balance
<1>5. CASE Funded
  <2>1. TermTyped' BY <1>5 DEF Funded, Rerender, TermInv, TermTyped, TypeOK
  <2> QED BY <1>5, <2>1, RestKeeps DEF Funded
<1>6. ASSUME NEW m \in Messages, NEW s \in Sessions, Pushed(m, s) PROVE TermInv'
  <2>1. TermTyped' BY <1>6 DEF Pushed, Rerender, TermInv, TermTyped, TypeOK
  <2> QED BY <1>6, <2>1, RestKeeps DEF Pushed
<1> QED BY <1>1, <1>2, <1>3, <1>4, <1>5, <1>6

LEMMA RunsKeep ==
  ASSUME TermInv, NEW t \in Slots, Run(t)
  PROVE  TermInv'
<1> USE DEF screen, runs, mail, leaving, exits
<1>0. /\ On(t) \in Sessions
      /\ NoLongerDue(On(t)) =>
           due' \in [Sessions -> BOOLEAN] /\ told' \in Tidings /\ (told # "nothing" => told' # "nothing")
  BY DEF On, NoLongerDue, Tidings, TermInv, TermTyped, TypeOK, Task
<1>1. CASE Admit(t)
  <2>1. CASE Declined(t)
    <3>1. /\ task' \in [Slots -> Task] /\ running' \in BOOLEAN /\ paused' \in BOOLEAN
          /\ OneRun' /\ LeaveInv'
      BY <2>1, EndKeeps DEF Declined, At, exits
    <3>2. TermTyped' BY <2>1, <3>1 DEF Declined, exits, TermInv, TermTyped, TypeOK
    <3> QED BY <3>1, <3>2 DEF TermInv
  <2>2. CASE Begins(t)
    <3>1. task' \in [Slots -> Task] /\ OneRun' BY <2>2, GotoKeeps DEF Begins, At
    <3>2. /\ due' \in [Sessions -> BOOLEAN] /\ told' \in Tidings
          /\ told # "nothing" => told' # "nothing"
      <4>1. CASE unfinished[On(t)]
        BY <2>2, <4>1 DEF Begins, TermInv, TermTyped, TypeOK
      <4>2. CASE ~unfinished[On(t)]
        BY <1>0, <2>2, <4>2 DEF Begins
      <4> QED BY <4>1, <4>2
    <3>3. TermTyped'
      <4>1. unfinished' \in [Sessions -> BOOLEAN]
        BY <1>0, <2>2 DEF Begins, TermInv, TermTyped, TypeOK
      <4>2. UNCHANGED <<session, opening, screen, running, paused, busy, look, mail, exits>>
        BY <2>2 DEF Begins
      <4> QED BY <3>1, <3>2, <4>1, <4>2 DEF exits, TermInv, TermTyped, TypeOK
    <3>4. LeaveInv' BY <2>2, <3>2 DEF Begins, exits, TermInv, LeaveInv
    <3> QED BY <3>1, <3>3, <3>4 DEF TermInv
  <2> QED BY <1>1, <2>1, <2>2 DEF Admit
<1>2. CASE Turn(t)
  <2>1. task' \in [Slots -> Task] /\ OneRun' BY <1>2, GotoKeeps DEF Turn, At
  <2>3. TermTyped'
    <3>1. /\ inbox' \in [Sessions -> SUBSET Messages] /\ got' \subseteq typed
          /\ \A s \in Sessions : inbox'[s] \subseteq typed
      BY <1>0, <1>2 DEF Turn, TermInv, TermTyped, TypeOK
    <3>2. UNCHANGED <<session, opening, screen, running, paused, unfinished, busy, look,
                      pushing, typed, due, leaving>>
      BY <1>2 DEF Turn
    <3> QED BY <2>1, <3>1, <3>2 DEF exits, TermInv, TermTyped, TypeOK
  <2>4. LeaveInv' BY <1>2 DEF Turn, exits, TermInv, LeaveInv
  <2> QED BY <2>1, <2>3, <2>4 DEF TermInv
<1>3. CASE NextTurn(t)
  <2>1. task' \in [Slots -> Task] /\ OneRun' BY <1>3, GotoKeeps DEF NextTurn, At
  <2>2. TermTyped' BY <1>3, <2>1 DEF NextTurn, exits, TermInv, TermTyped, TypeOK
  <2>3. LeaveInv' BY <1>3 DEF NextTurn, exits, TermInv, LeaveInv
  <2> QED BY <2>1, <2>2, <2>3 DEF TermInv
<1>4. CASE Finish(t)
  <2>1. /\ task' \in [Slots -> Task] /\ running' \in BOOLEAN /\ paused' \in BOOLEAN
        /\ OneRun' /\ LeaveInv'
    BY <1>4, EndKeeps DEF Finish, At
  <2>2. TermTyped' BY <1>4, <2>1 DEF Finish, TermInv, TermTyped, TypeOK
  <2> QED BY <2>1, <2>2 DEF TermInv
<1>5. CASE Fail(t)
  <2>1. /\ task' \in [Slots -> Task] /\ running' \in BOOLEAN /\ paused' \in BOOLEAN
        /\ OneRun' /\ LeaveInv'
    BY <1>5, EndKeeps DEF Fail
  <2>2. TermTyped' BY <1>5, <2>1 DEF Fail, TermInv, TermTyped, TypeOK
  <2> QED BY <2>1, <2>2 DEF TermInv
<1>6. ASSUME NEW a \in Askers, AskUser(t, a) PROVE TermInv'
  <2>1. TermTyped' BY <1>6 DEF AskUser, Rerender, Screens, TermInv, TermTyped, TypeOK
  <2> QED BY <1>6, <2>1, RestKeeps DEF AskUser
<1>7. CASE Buy(t)
  <2>1. TermTyped' BY <1>0, <1>7 DEF Buy, exits, TermInv, TermTyped, TypeOK
  <2> QED BY <1>7, <2>1, RestKeeps DEF Buy, exits
<1>8. CASE Review(t)
  <2>1. TermTyped' BY <1>0, <1>8 DEF Review, exits, TermInv, TermTyped, TypeOK
  <2>2. OneRun' BY <1>8 DEF Review, TermInv, OneRun
  <2>3. LeaveInv' BY <1>0, <1>8 DEF Review, exits, TermInv, LeaveInv
  <2> QED BY <2>1, <2>2, <2>3 DEF TermInv
<1> QED BY <1>1, <1>2, <1>3, <1>4, <1>5, <1>6, <1>7, <1>8 DEF Run

LEMMA AnswersKeep ==
  ASSUME TermInv, NEW a \in Askers, Answer(a)
  PROVE  TermInv'
<1> USE DEF screen, runs, mail, leaving, exits
<1>1. CASE UNCHANGED runs
  <2>1. TermTyped' BY <1>1, TerminalNames DEF Answer, Rerender, Screens, TermInv, TermTyped, TypeOK
  <2> QED BY <1>1, <2>1, RestKeeps DEF Answer
<1>2. ASSUME NEW t \in Slots, At(t, "model"), Ends(t, FALSE),
             unfinished' = [unfinished EXCEPT ![On(t)] = FALSE]
      PROVE  TermInv'
  <2>1. /\ task' \in [Slots -> Task] /\ running' \in BOOLEAN /\ paused' \in BOOLEAN
        /\ OneRun' /\ LeaveInv'
    BY <1>2, EndKeeps DEF Answer, At
  <2>2. TermTyped' BY <1>2, <2>1, TerminalNames DEF Answer, Rerender, Screens, TermInv, TermTyped, TypeOK
  <2> QED BY <2>1, <2>2 DEF TermInv
<1> QED BY <1>1, <1>2 DEF Answer

LEMMA TermKeeps == TermInv /\ [Next]_vars => TermInv'
<1> SUFFICES ASSUME TermInv, [Next]_vars PROVE TermInv' OBVIOUS
<1>1. CASE UNCHANGED vars BY <1>1 DEF vars, TermInv, TermTyped, TypeOK, OneRun, LeaveInv
<1>2. CASE Next
  BY <1>2, KeysKeep, LeavingKeeps, EffectsKeep, RunsKeep, AnswersKeep DEF Next, Key
<1> QED BY <1>1, <1>2

LEMMA OnlyLeavingExits ==
  ASSUME TermInv, [Next]_vars, Leaves, due[session]
  PROVE  told # "nothing" \/ ChecksAnother \/ unread'
<1> USE DEF screen, runs, mail, leaving, exits, Leaves
<1>1. CASE Quit \/ CtrlC BY <1>1 DEF Quit, CtrlC, Finalize, TermInv, LeaveInv
<1>2. ASSUME NEW s \in Sessions, Checked(s) PROVE ChecksAnother \/ unread'
  <2>1. s \in checking /\ s \notin checking' /\ unread' = due[s] BY <1>2 DEF Checked
  <2> QED BY <2>1 DEF ChecksAnother
<1>3. ASSUME \/ Submit \/ New \/ Wallet \/ CloseWallet \/ SaveLimits \/ SkipPanel \/ Opened
             \/ \E m \in Messages : Queue(m)
             \/ \E a \in Askers : Answer(a)
      PROVE  FALSE
  BY <1>3 DEF Submit, New, Wallet, CloseWallet, SaveLimits, SkipPanel, Opened, Queue, Answer
<1>4. ASSUME \/ Look \/ Render \/ LimitsSaved \/ Balance \/ Funded
             \/ \E m \in Messages, s \in Sessions : Pushed(m, s)
      PROVE  FALSE
  BY <1>4 DEF Look, Render, LimitsSaved, Balance, Funded, Pushed
<1>5. ASSUME NEW t \in Slots, Run(t) PROVE FALSE
  BY <1>5 DEF Run, Admit, Declined, Begins, Turn, NextTurn, Finish, Fail, AskUser, Buy, Review
<1>6. CASE UNCHANGED vars BY <1>6 DEF vars
<1> QED BY <1>1, <1>2, <1>3, <1>4, <1>5, <1>6 DEF Next, Key

\* Two runs never work on the files of one terminal, whoever starts them and however late
\* `busy' is rendered (app.tsx, runningRef).
THEOREM OneRunAtATime == Spec => []OneRun
<1>1. TermInv => OneRun BY DEF TermInv
<1> QED BY <1>1, TermStarts, TermKeeps, PTL DEF Spec

\* Nobody leaves the session on the screen, which lacks a review, without having been
\* told of a review there, however keys, checks, purchases, tasks and /new fall: the
\* exceptions are purchases that could not be read and a check of an earlier session
\* that ends in this one (app.tsx, finalize and forceQuitRef).
THEOREM QuittersAreTold == Spec => QuitSaysSo
<1>1. TermInv /\ [Next]_vars =>
        [Leaves /\ due[session] => told # "nothing" \/ ChecksAnother \/ unread']_vars
  BY OnlyLeavingExits
<1> QED BY <1>1, TermStarts, TermKeeps, PTL DEF Spec, QuitSaysSo
===============================================================================
