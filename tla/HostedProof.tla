------------------------------ MODULE HostedProof ------------------------------
(***************************************************************************)
(* Proof that Hosted implements PaidOnce, for any run of model calls,      *)
(* purchases and moves of funds, any losses, crashes and deadlines: the    *)
(* money for a purchase moves at most once, and what a result says about   *)
(* it stays true.                                                          *)
(*                                                                         *)
(* The invariant follows a purchase from both ends.  The gateway's record  *)
(* says what may still be paid; the queue of the supervisor is first in,   *)
(* first out, so the answer a call reads is the last that any request of   *)
(* its job will get: once it says "refused", nothing is on its way.        *)
(*                                                                         *)
(* Then two more facts: one identity is one request, byte for byte, and a  *)
(* run that waits waits for something that can come.                       *)
(***************************************************************************)
EXTENDS Hosted, SequenceTheorems, FiniteSetTheorems, TLAPS

USE HostedAssumption

-----------------------------------------------------------------------------
(***************************************************************************)
(* The invariant.                                                          *)
(***************************************************************************)
\* No request for p is on its way.
NoRequest(p) == \A i \in 1..Len(socket) : socket[i].for # p

\* Nothing was paid for p, and unless it is asked for again nothing will be.
Safe(p) == paid[p] = 0 /\ ledger[p] # "working" /\ NoRequest(p)

Typed ==
  /\ kind \in [Jobs -> Kinds] /\ mem \in Request /\ disk \in Request
  /\ saved \in [Jobs -> {"none", "started", "approval"}] /\ told \in [Purchases -> Told]
  /\ ledger \in [Purchases -> Ledger] /\ paid \in [Purchases -> {0, 1}]
  /\ socket \in Seq(Post) /\ \A i \in 1..Len(socket) : socket[i].id = socket[i].for

LedgerInv ==
  \A p \in Purchases :
    /\ paid[p] = 1 => ledger[p] \in {"paid", "context"}
    /\ ledger[p] = "paid" => paid[p] = 1
    /\ ledger[p] = "context" => kind[p[1]] = "model"

\* A request somebody waits for is that of a call, and the last of its job.
SocketInv ==
  \A i \in 1..Len(socket) :
    LET j == socket[i].for[1] IN
    socket[i].live =>
      /\ At(j, "posted") /\ socket[i].for = For(j)
      /\ \A k \in 1..Len(socket) : k > i => socket[k].for[1] # j

Active(c)  == c.pc \notin {"todo", "over"}
Replied(c, replies) == c.pc = "replied" /\ c.reply \in replies
ACall == [pc : PCs, n : Nat, reply : Replies, since : Nat, elapsed : Nat]

\* The call has read that nothing was paid, or has not asked yet.
IsSafe(j, c) == \/ Replied(c, {"refused", "declined", "approval"}) \/ c.pc = "pausing"
                \/ c.pc = "ready" /\ kind[j] = "pay"

CallOK(j, c) ==
  /\ c \in ACall
  /\ c.pc = "todo" => ~Answered(j)
  /\ Active(c) /\ ~Tool(j) => Listening(j)
  /\ ~Tool(j) => c.pc \notin {"again", "follow", "pausing"}
  /\ Tool(j)  => /\ c.pc \notin {"freeze", "thaw"} /\ ~Replied(c, {"context"})
                 /\ c.pc = "ready" => c.n = 0
                 /\ c.pc = "again" => c.n \in {0, 1}
                 /\ c.pc = "posted" => c.n \in {1, 2}
  /\ Replied(c, {"paid"}) \/ c.pc = "follow" => paid[For(j)] = 1
  /\ IsSafe(j, c) => Safe(For(j))
  /\ kind[j] = "pay" /\ saved[j] # "started" => Safe(<<j, 0>>) /\ ~Active(c)

CallsInv == /\ call = [j \in Jobs |-> call[j]]
            /\ \A j \in Jobs : CallOK(j, call[j])

ToldInv == \A p \in Purchases : told[p] = "not paid" => Safe(p) /\ At(p[1], "over")

Inv == Typed /\ LedgerInv /\ SocketInv /\ CallsInv /\ ToldInv

\* What PaidOnce allows of a step: the money of a purchase moves, or a result tells of
\* one that no result told of.
Moves(p) == /\ paid[p] = 0 /\ told[p] # "not paid"
            /\ paid' = [paid EXCEPT ![p] = 1] /\ told' = told
Tells(p, what) ==
  /\ told[p] = "none" /\ told' = [told EXCEPT ![p] = what] /\ paid' = paid
  /\ what = "paid" => paid[p] = 1
  /\ what = "not paid" => paid[p] = 0
Claims == Told \ {"none"}
Faithful == \/ paid' = paid /\ told' = told
            \/ \E p \in Purchases : Moves(p)
            \/ \E p \in Purchases, what \in Claims : Tells(p, what)

-----------------------------------------------------------------------------
(***************************************************************************)
(* Facts the steps share.                                                  *)
(***************************************************************************)
LEMMA Retries == 0 \in 0..MaxRetry /\ Fresh \in Request
BY DEF Fresh, Request, Bodies

LEMMA KindsOf == ASSUME Typed, NEW j \in Jobs
                 PROVE  kind[j] \in {"pay", "move", "model"} /\ (Tool(j) <=> kind[j] # "model")
BY DEF Typed, Kinds, Tools, Tool

LEMMA ForIs == ASSUME Typed, NEW j \in Jobs
               PROVE  /\ For(j) \in Purchases /\ For(j)[1] = j
                      /\ Tool(j) => For(j) = <<j, 0>>
                      /\ ~Tool(j) => For(j) = <<j, mem.retry>>
BY Retries DEF Typed, For, Purchases, Request

LEMMA CallIs == ASSUME Inv, NEW j \in Jobs PROVE CallOK(j, call[j]) /\ call[j] \in ACall
BY DEF Inv, CallsInv, CallOK, IsSafe

LEMMA IdleIs == /\ Idle \in ACall /\ Idle.pc = "todo" /\ Idle.n = 0
                /\ Over \in ACall /\ Over.pc = "over"
BY DEF Idle, Over, ACall, PCs, Replies

LEMMA NotTold == ASSUME Inv, NEW j \in Jobs, Listening(j) PROVE told[For(j)] = "none"
<1>1. For(j) = <<j, For(j)[2]>> /\ For(j)[2] \in 0..MaxRetry
  BY Retries DEF Inv, Typed, For, Request
<1> QED BY <1>1 DEF Listening, Answered

LEMMA Queued ==
  ASSUME Inv, NEW i \in 1..Len(socket)
  PROVE  /\ socket[i] \in Post /\ socket[i].for \in Purchases /\ socket[i].for[1] \in Jobs
         /\ socket[i].id = socket[i].for
<1>1. socket[i] \in Post BY DEF Inv, Typed
<1> QED BY <1>1 DEF Inv, Typed, Post, Purchases

\* A request that somebody waits for is that of a posted call.
LEMMA LiveIs ==
  ASSUME Inv, NEW i \in 1..Len(socket), socket[i].live
  PROVE  At(socket[i].for[1], "posted") /\ socket[i].for[1] \in Jobs
<1>1. socket[i] \in Post BY DEF Inv, Typed
<1> QED BY <1>1 DEF Inv, SocketInv, Post, Purchases

\* A call that waits for no answer has no request that anybody waits for.
LEMMA NoLive ==
  ASSUME Inv, NEW j \in Jobs, ~At(j, "posted"), NEW i \in 1..Len(socket), socket[i].live
  PROVE  socket[i].for[1] # j
BY LiveIs

\* There is at most one active model call, the one the run is at.
LEMMA OneModel ==
  ASSUME Inv, NEW o \in Jobs, Active(call[o]), ~Tool(o) PROVE Listening(o) /\ o = job /\ run = "running"
BY CallIs DEF CallOK, IsSafe, Listening, Current

-----------------------------------------------------------------------------
(***************************************************************************)
(* Steps of the worker: the queue loses at most what j waits for, and one  *)
(* call changes.                                                           *)
(***************************************************************************)
Quieter(j) ==
  /\ socket' \in Seq(Post)
  /\ \A k \in 1..Len(socket') : \E i \in 1..Len(socket) :
       socket'[k].for = socket[i].for /\ socket'[k].id = socket[i].id
  /\ \A k \in 1..Len(socket') : LET o == socket'[k].for[1] IN
       socket'[k].live => /\ o # j /\ At(o, "posted") /\ socket'[k].for = For(o)
                          /\ \A m \in 1..Len(socket') : m > k => socket'[m].for[1] # o

LEMMA SameQueue ==
  ASSUME Inv, NEW j \in Jobs, ~At(j, "posted"), UNCHANGED socket PROVE Quieter(j)
BY NoLive DEF Inv, Typed, SocketInv, Quieter

LEMMA StaysSafe ==
  ASSUME Inv, NEW j \in Jobs, Quieter(j), UNCHANGED <<paid, ledger>>, NEW p, Safe(p)
  PROVE  Safe(p)'
BY DEF Quieter, Safe, NoRequest

\* Nothing but the call of j, and what only concerns the job the run is at, changes.
Steps(j, new) ==
  /\ call' = [call EXCEPT ![j] = new] /\ Quieter(j)
  /\ UNCHANGED <<kind, paid, ledger>>
  /\ mem' \in Request /\ disk' \in Request
  /\ saved' \in [Jobs -> {"none", "started", "approval"}]
  /\ \A o \in Jobs : o # j => saved'[o] = saved[o]
  /\ ~Listening(j) => run' = run /\ job' = job /\ mem'.retry = mem.retry

\* What a step leaves of the calls of other jobs.
LEMMA OthersStay ==
  ASSUME Inv, NEW j \in Jobs, NEW new, Steps(j, new),
         \A p \in Purchases : p[1] # j => told'[p] = told[p],
         NEW o \in Jobs, o # j
  PROVE  /\ CallOK(o, call[o])' /\ call'[o] = call[o]
         /\ Active(call[o]) => For(o)' = For(o)
<1>1. call'[o] = call[o] /\ saved'[o] = saved[o] /\ kind' = kind /\ paid' = paid /\ ledger' = ledger
  BY DEF Steps, Inv, CallsInv
<1>2. Tool(o)' <=> Tool(o) BY <1>1 DEF Tool
<1>3. ASSUME Active(call[o]), ~Tool(o)
      PROVE  run' = run /\ job' = job /\ mem'.retry = mem.retry
  <2>1. o = job BY <1>3, OneModel
  <2>2. ~Listening(j) BY <2>1 DEF Listening, Current
  <2> QED BY <2>2 DEF Steps
<1>4. Active(call[o]) => For(o)' = For(o) BY <1>2, <1>3 DEF For
<1>5. Answered(o)' <=> Answered(o)
  <2>1. \A r \in 0..MaxRetry : <<o, r>> \in Purchases /\ <<o, r>>[1] # j BY DEF Purchases
  <2> QED BY <2>1 DEF Answered
<1>6. Active(call[o]) /\ ~Tool(o) => Listening(o)'
  BY <1>3, <1>5, OneModel DEF Listening, Current
<1>7. \A p : Safe(p) => Safe(p)' BY StaysSafe DEF Steps
<1>8. CallOK(o, call[o]) BY CallIs
<1>9. Replied(call[o], {"paid"}) \/ call[o].pc = "follow" => paid'[For(o)'] = 1
  BY <1>1, <1>4, <1>8 DEF CallOK, IsSafe, Replied, Active
<1>10. IsSafe(o, call[o]) => Safe(For(o))'
  <2>1. IsSafe(o, call[o]) => Active(call[o]) /\ Safe(For(o))
    BY <1>8 DEF CallOK, IsSafe, Replied, Active
  <2>2. ASSUME Active(call[o]), Safe(For(o)) PROVE Safe(For(o))'
    <3>1. For(o)' = For(o) BY <1>4, <2>2
    <3>2. paid[For(o)] = 0 /\ ledger[For(o)] # "working" /\ NoRequest(For(o)) BY <2>2 DEF Safe
    <3>3. \A i \in 1..Len(socket') : socket'[i].for # For(o) 
      BY <3>2 DEF NoRequest, Steps, Quieter
    <3> QED BY <1>1, <3>1, <3>2, <3>3 DEF Safe, NoRequest
  <2> QED BY <2>1, <2>2
<1>11. kind[o] = "pay" /\ saved[o] # "started" => Safe(<<o, 0>>)' /\ ~Active(call[o])
  BY <1>7, <1>8 DEF CallOK, IsSafe
<1>12. CallOK(o, call[o])'
  BY <1>1, <1>2, <1>5, <1>6, <1>8, <1>9, <1>10, <1>11 DEF CallOK, IsSafe, Replied, Active
<1> QED BY <1>1, <1>4, <1>12

\* What a step may say of the payments: nothing, or of j's purchase something that is so.
Says(j, new) ==
  \/ told' = told
  \/ \E what \in Claims : /\ told' = [told EXCEPT ![For(j)] = what]
                          /\ what = "not paid" => Safe(For(j)) /\ new.pc = "over"

LEMMA StepKeeps ==
  ASSUME Inv, NEW j \in Jobs, NEW new, Steps(j, new), CallOK(j, call[j])', ~At(j, "over"),
         Says(j, new)
  PROVE  Inv'
<1>1. For(j) \in Purchases /\ For(j)[1] = j BY ForIs DEF Inv
<1>2. \A p \in Purchases : p[1] # j => told'[p] = told[p]
  BY <1>1 DEF Says, Inv, Typed
<1>3. \A o \in Jobs : o # j => /\ CallOK(o, call[o])' /\ call'[o] = call[o]
                               /\ Active(call[o]) => For(o)' = For(o)
  BY <1>2, OthersStay
<1>4. call'[j] = new /\ kind' = kind /\ paid' = paid /\ ledger' = ledger
  BY DEF Steps, Inv, CallsInv
<1>5. Typed'
  <2>1. told' \in [Purchases -> Told]
    BY <1>1 DEF Says, Inv, Typed, Claims
  <2>2. socket' \in Seq(Post) /\ \A i \in 1..Len(socket') : socket'[i].id = socket'[i].for
    BY DEF Steps, Quieter, Inv, Typed
  <2> QED BY <1>4, <2>1, <2>2 DEF Steps, Inv, Typed
<1>6. LedgerInv' BY <1>4 DEF Inv, LedgerInv
<1>7. SocketInv'
  <2> SUFFICES ASSUME NEW i \in 1..Len(socket'), socket'[i].live,
                      NEW o, o = socket'[i].for[1]
               PROVE  /\ At(o, "posted")' /\ socket'[i].for = For(o)'
                      /\ \A k \in 1..Len(socket') : k > i => socket'[k].for[1] # o
    BY DEF SocketInv, At, For, Tool
  <2>1. /\ o # j /\ At(o, "posted") /\ socket'[i].for = For(o)
        /\ \A m \in 1..Len(socket') : m > i => socket'[m].for[1] # o
    BY DEF Steps, Quieter
  <2>2. o \in Jobs
    <3>1. socket'[i] \in Post BY <1>5 DEF Typed
    <3> QED BY <3>1 DEF Post, Purchases
  <2>3. Active(call[o]) BY <2>1 DEF Active, At
  <2>4. call'[o] = call[o] /\ For(o)' = For(o) BY <1>3, <2>1, <2>2, <2>3
  <2> QED BY <2>1, <2>4 DEF At
<1>8. CallsInv'
  <2>1. call' = [o \in Jobs |-> call'[o]] BY DEF Steps, Inv, CallsInv
  <2>2. \A o \in Jobs : CallOK(o, call[o])' BY <1>3
  <2> QED BY <2>1, <2>2 DEF CallsInv
<1>9. ToldInv'
  <2> SUFFICES ASSUME NEW p \in Purchases, told'[p] = "not paid"
               PROVE  Safe(p)' /\ At(p[1], "over")'
    BY DEF ToldInv
  <2>1. p[1] \in Jobs BY DEF Purchases
  <2>2. CASE told[p] = "not paid"
    <3>1. Safe(p) /\ At(p[1], "over") BY <2>2 DEF Inv, ToldInv
    <3>2. p[1] # j BY <3>1
    <3>3. call'[p[1]] = call[p[1]] BY <1>3, <2>1, <3>2
    <3>4. Safe(p)' BY <3>1, StaysSafe DEF Steps
    <3> QED BY <3>1, <3>3, <3>4 DEF At
  <2>3. CASE told[p] # "not paid"
    <3>1. p = For(j) /\ Safe(For(j)) /\ new.pc = "over"
      BY <1>1, <2>3 DEF Says, Inv, Typed
    <3>2. Safe(p)' BY <3>1, StaysSafe DEF Steps
    <3> QED BY <1>1, <1>4, <3>1, <3>2 DEF At
  <2> QED BY <2>2, <2>3
<1> QED BY <1>5, <1>6, <1>7, <1>8, <1>9 DEF Inv

-----------------------------------------------------------------------------
(***************************************************************************)
(* The end of a job.                                                       *)
(***************************************************************************)
\* A call that is over is sound, if nothing is on its way for a purchase to be made again.
LEMMA OverIsOK ==
  ASSUME Inv, NEW j \in Jobs, Active(call[j]), Quieter(j), UNCHANGED <<kind, paid, ledger>>,
         saved'[j] = saved[j], call'[j] = Over
  PROVE  CallOK(j, call[j])'
<1>1. CallOK(j, call[j]) BY CallIs
<1>2. ~(kind[j] = "pay" /\ saved[j] # "started") BY <1>1 DEF CallOK, IsSafe
<1>3. ~Active(Over) /\ ~Replied(Over, {"paid"}) /\ ~Replied(Over, {"context"})
      /\ ~Replied(Over, {"refused", "declined", "approval"})
      /\ Over.pc = "over" /\ Over \in ACall
  BY IdleIs DEF Active, Replied
<1> QED BY <1>2, <1>3 DEF CallOK, IsSafe, Active, Replied

\* A call that begins anew is sound, when a paid call begins only if it is safe.
LEMMA IdleIsOK ==
  ASSUME NEW j \in Jobs, call'[j] = Idle, ~Answered(j)',
         kind'[j] = "pay" /\ saved'[j] # "started" => Safe(<<j, 0>>)'
  PROVE  CallOK(j, call[j])'
<1>1. ~Active(Idle) /\ ~Replied(Idle, {"paid"}) /\ ~Replied(Idle, {"context"})
      /\ ~Replied(Idle, {"refused", "declined", "approval"})
      /\ Idle.pc = "todo" /\ Idle \in ACall
  BY IdleIs DEF Active, Replied
<1> QED BY <1>1 DEF CallOK, IsSafe, Active, Replied

LEMMA TellKeeps ==
  ASSUME Inv, NEW j \in Jobs, NEW what \in Claims, Active(call[j]), Tell(j, what),
         Quieter(j), UNCHANGED <<kind, paid, ledger>>,
         what = "paid" => paid[For(j)] = 1,
         what = "not paid" => Safe(For(j))
  PROVE  Inv' /\ Faithful
<1>1. /\ call' = [call EXCEPT ![j] = Over] /\ saved' = saved
      /\ \/ /\ Listening(j) /\ told' = [told EXCEPT ![For(j)] = what]
            /\ mem' = Fresh /\ disk' = Fresh
         \/ ~Listening(j) /\ UNCHANGED <<told, run, job, wait, mem, disk>>
  BY DEF Tell, Become, Next1
<1>2. mem' \in Request /\ disk' \in Request BY <1>1, Retries DEF Inv, Typed
<1>3. Steps(j, Over) BY <1>1, <1>2 DEF Steps, Inv, Typed
<1>4. CallOK(j, call[j])'
  <2>1. call'[j] = Over BY <1>1 DEF Inv, CallsInv
  <2> QED BY <1>1, <2>1, OverIsOK
<1>5. Says(j, Over) BY <1>1, IdleIs DEF Says
<1>6. Inv' BY <1>3, <1>4, <1>5, StepKeeps DEF At, Active
<1>7. Faithful
  <2>1. For(j) \in Purchases BY ForIs DEF Inv
  <2>2. Listening(j) => Tells(For(j), what) BY <1>1, NotTold DEF Tells, Safe
  <2> QED BY <1>1, <2>1, <2>2 DEF Faithful
<1> QED BY <1>6, <1>7

LEMMA EndRunKeeps ==
  ASSUME Inv, NEW j \in Jobs, NEW what \in Claims, Active(call[j]) \/ call[j].pc = "todo",
         EndRun(j, what), Quieter(j), UNCHANGED <<kind, paid, ledger>>, CallOK(j, call[j])',
         what = "paid" => paid[For(j)] = 1,
         what = "not paid" => Safe(For(j))
  PROVE  Inv' /\ Faithful
<1>1. /\ call' = [call EXCEPT ![j] = Over] /\ saved' = saved /\ mem' = mem /\ disk' = disk
      /\ job' = job
      /\ \/ Listening(j) /\ told' = [told EXCEPT ![For(j)] = what]
         \/ ~Listening(j) /\ UNCHANGED <<told, run>>
  BY DEF EndRun, Become
<1>2. Steps(j, Over) BY <1>1 DEF Steps, Inv, Typed
<1>3. Says(j, Over) BY <1>1, IdleIs DEF Says
<1>4. Inv' BY <1>2, <1>3, StepKeeps DEF At, Active
<1>5. Faithful
  <2>1. For(j) \in Purchases BY ForIs DEF Inv
  <2>2. Listening(j) => Tells(For(j), what) BY <1>1, NotTold DEF Tells, Safe
  <2> QED BY <1>1, <2>1, <2>2 DEF Faithful
<1> QED BY <1>4, <1>5

\* A tool call only pauses when nothing is on its way for it.
LEMMA PauseKeeps ==
  ASSUME Inv, NEW j \in Jobs, NEW cause, Active(call[j]), Pause(j, cause),
         Quieter(j), UNCHANGED <<kind, paid, ledger>>,
         Tool(j) => Safe(For(j))
  PROVE  Inv' /\ Faithful
<1>1. /\ told' = told /\ job' = job /\ mem' = mem /\ disk' = disk
      /\ \/ /\ Listening(j) /\ call' = [call EXCEPT ![j] = Idle]
            /\ saved' = [saved EXCEPT ![j] = IF Tool(j) THEN "approval" ELSE @]
         \/ /\ ~Listening(j) /\ call' = [call EXCEPT ![j] = Over]
            /\ run' = run /\ saved' = saved
  BY DEF Pause, Become
<1>2. saved' \in [Jobs -> {"none", "started", "approval"}]
      /\ \A o \in Jobs : o # j => saved'[o] = saved[o]
  BY <1>1 DEF Inv, Typed
<1>3. CASE Listening(j)
  <2>1. Steps(j, Idle) BY <1>1, <1>2, <1>3 DEF Steps, Inv, Typed
  <2>2. Tool(j) => For(j) = <<j, 0>> BY ForIs DEF Inv
  <2>3. kind[j] = "pay" => Tool(j) BY DEF Tool, Tools
  <2>4. kind[j] = "pay" => Safe(<<j, 0>>)' BY <2>2, <2>3, StaysSafe
  <2>5. call'[j] = Idle BY <1>1, <1>3 DEF Inv, CallsInv
  <2>6. CallOK(j, call[j])' BY <1>1, <1>3, <2>4, <2>5, IdleIsOK DEF Listening, Answered
  <2> QED BY <1>1, <2>1, <2>6, StepKeeps DEF At, Active, Says, Faithful
<1>4. CASE ~Listening(j)
  <2>1. Steps(j, Over) BY <1>1, <1>2, <1>4 DEF Steps, Inv, Typed
  <2>2. call'[j] = Over BY <1>1, <1>4 DEF Inv, CallsInv
  <2>3. CallOK(j, call[j])' BY <1>1, <1>4, <2>2, OverIsOK
  <2> QED BY <1>1, <2>1, <2>3, StepKeeps DEF At, Active, Says, Faithful
<1> QED BY <1>3, <1>4

-----------------------------------------------------------------------------
(***************************************************************************)
(* Steps of a call that say nothing and leave the run where it is.         *)
(***************************************************************************)
LEMMA GoKeeps ==
  ASSUME Inv, NEW j \in Jobs, NEW new, ~At(j, "over"), CallOK(j, new),
         call' = [call EXCEPT ![j] = new], Quieter(j),
         UNCHANGED <<kind, paid, ledger, told, run, job, saved>>,
         mem' \in Request, disk' \in Request, mem'.retry = mem.retry
  PROVE  Inv' /\ Faithful
<1>1. Steps(j, new) BY DEF Steps, Inv, Typed
<1>2. call'[j] = new BY DEF Inv, CallsInv
<1>3. Tool(j)' = Tool(j) /\ For(j)' = For(j) BY DEF Tool, For
<1>4. Answered(j)' = Answered(j) /\ Listening(j)' = Listening(j)
  BY DEF Listening, Answered, Current
<1>5. Safe(For(j)) => Safe(For(j))'
  <2>1. ASSUME Safe(For(j)) PROVE Safe(For(j))'
    <3>1. paid[For(j)] = 0 /\ ledger[For(j)] # "working" /\ NoRequest(For(j)) BY <2>1 DEF Safe
    <3>2. \A i \in 1..Len(socket') : socket'[i].for # For(j)
      BY <3>1 DEF NoRequest, Quieter
    <3> QED BY <1>3, <3>1, <3>2 DEF Safe, NoRequest
  <2> QED BY <2>1
<1>6. Safe(<<j, 0>>) => Safe(<<j, 0>>)' BY StaysSafe
<1>7. CallOK(j, call[j])' BY <1>2, <1>3, <1>4, <1>5, <1>6 DEF CallOK, IsSafe
<1>8. Inv' BY <1>1, <1>7, StepKeeps DEF Says
<1> QED BY <1>8 DEF Faithful

LEMMA GotoIs ==
  ASSUME Inv, NEW j \in Jobs, NEW pc \in PCs, Goto(j, pc)
  PROVE  LET new == [It(j) EXCEPT !.pc = pc, !.reply = "none", !.since = 0] IN
         /\ call' = [call EXCEPT ![j] = new] /\ new \in ACall /\ new.pc = pc
         /\ new.reply = "none" /\ new.n = call[j].n
BY CallIs DEF Goto, Become, It, ACall, Replies

LEMMA PrepareKeeps ==
  ASSUME Inv, NEW j \in Jobs, Prepare(j) PROVE Inv' /\ Faithful
<1> DEFINE new == [It(j) EXCEPT !.pc = "freeze", !.reply = "none", !.since = 0]
<1>1. /\ Current(j) /\ ~Tool(j) /\ At(j, "todo") /\ Goto(j, "freeze")
      /\ UNCHANGED <<kind, paid, ledger, told, run, job, saved, socket, disk>>
  BY DEF Prepare, outside
<1>2. mem' \in Request /\ mem'.retry = mem.retry /\ disk' \in Request
  BY <1>1 DEF Prepare, Prepares, Inv, Typed, Request
<1>3. "freeze" \in PCs BY DEF PCs
<1>4. call' = [call EXCEPT ![j] = new] /\ new \in ACall /\ new.pc = "freeze"
  BY <1>1, <1>3, GotoIs
<1>5. CallOK(j, call[j]) BY CallIs
<1>6. Listening(j) BY <1>1, <1>5 DEF Listening, CallOK, IsSafe, At
<1> HIDE DEF new
<1>7. kind[j] # "pay" BY <1>1 DEF Tool, Tools
<1>8. CallOK(j, new) BY <1>1, <1>4, <1>6, <1>7 DEF CallOK, IsSafe, Active, Replied
<1>9. Quieter(j) BY <1>1, SameQueue DEF At
<1> QED BY <1>1, <1>2, <1>4, <1>8, <1>9, GoKeeps DEF At

LEMMA FreezeKeeps ==
  ASSUME Inv, NEW j \in Jobs, Freeze(j) PROVE Inv' /\ Faithful
<1> DEFINE new == [It(j) EXCEPT !.pc = "ready", !.reply = "none", !.since = 0]
<1>1. /\ At(j, "freeze") /\ Goto(j, "ready") /\ disk' = mem
      /\ UNCHANGED <<kind, paid, ledger, told, run, job, saved, socket, mem>>
  BY DEF Freeze, outside
<1>2. mem \in Request BY DEF Inv, Typed
<1>3. "ready" \in PCs BY DEF PCs
<1>4. call' = [call EXCEPT ![j] = new] /\ new \in ACall /\ new.pc = "ready"
  BY <1>1, <1>3, GotoIs
<1>5. CallOK(j, call[j]) BY CallIs
<1>6. Listening(j) /\ ~Tool(j) BY <1>1, <1>5 DEF CallOK, IsSafe, At, Active
<1> HIDE DEF new
<1>7. kind[j] # "pay" BY <1>6 DEF Tool, Tools
<1>8. CallOK(j, new) BY <1>4, <1>6, <1>7 DEF CallOK, IsSafe, Active, Replied
<1>9. Quieter(j) BY <1>1, SameQueue DEF At
<1> QED BY <1>1, <1>2, <1>4, <1>8, <1>9, GoKeeps DEF At

LEMMA ThawKeeps ==
  ASSUME Inv, NEW j \in Jobs, Thaw(j) PROVE Inv' /\ Faithful
<1>1. /\ At(j, "thaw") /\ call' = [call EXCEPT ![j] = Idle] /\ disk' = mem
      /\ UNCHANGED <<kind, paid, ledger, told, run, job, saved, socket, mem>>
  BY DEF Thaw, outside, Become
<1>2. mem \in Request BY DEF Inv, Typed
<1>3. CallOK(j, call[j]) BY CallIs
<1>4. Listening(j) /\ ~Tool(j) BY <1>1, <1>3 DEF CallOK, IsSafe, At, Active
<1>5. kind[j] # "pay" BY <1>4 DEF Tool, Tools
<1>6. CallOK(j, Idle) BY <1>4, <1>5, IdleIs DEF CallOK, IsSafe, Active, Replied, Listening
<1>7. Quieter(j) BY <1>1, SameQueue DEF At
<1> QED BY <1>1, <1>2, <1>6, <1>7, GoKeeps DEF At

\* Time, the run or what was told changes, and no call nor any request does.
LEMMA StillKeeps ==
  ASSUME Inv, UNCHANGED <<kind, socket, paid, ledger, saved>>,
         call' = [o \in Jobs |-> call'[o]],
         \A o \in Jobs : /\ call'[o] \in ACall /\ call'[o].pc = call[o].pc
                         /\ call'[o].n = call[o].n /\ call'[o].reply = call[o].reply,
         mem' \in Request, disk' \in Request, told' \in [Purchases -> Told],
         \A p \in Purchases : told'[p] = "not paid" => told[p] = "not paid",
         \A o \in Jobs : At(o, "todo") => ~Answered(o)',
         \A o \in Jobs : Active(call[o]) /\ ~Tool(o) => Listening(o)' /\ mem'.retry = mem.retry
  PROVE  Inv'
<1>1. \A o : Tool(o)' = Tool(o) BY DEF Tool
<1>2. \A o \in Jobs : Active(call[o]) => For(o)' = For(o) BY <1>1 DEF For
<1>3. \A p : Safe(p)' = Safe(p) BY DEF Safe, NoRequest
<1>4. Typed' /\ LedgerInv' BY DEF Inv, Typed, LedgerInv
<1>5. SocketInv'
  <2>1. \A i \in 1..Len(socket) : socket[i].for[1] \in Jobs BY Queued
  <2>2. \A o \in Jobs : At(o, "posted") => At(o, "posted")' /\ For(o)' = For(o)
    BY <1>2 DEF At, Active
  <2> QED BY <2>1, <2>2 DEF Inv, SocketInv
<1>6. CallsInv'
  <2>1. ASSUME NEW o \in Jobs PROVE CallOK(o, call[o])'
    <3>1. CallOK(o, call[o]) BY CallIs
    <3>2. Replied(call[o], {"paid"}) \/ call[o].pc = "follow" => paid'[For(o)'] = 1
      BY <1>2, <3>1 DEF CallOK, Replied, Active
    <3>3. IsSafe(o, call[o]) => Safe(For(o))'
      <4>1. IsSafe(o, call[o]) => Active(call[o]) /\ Safe(For(o))
        BY <3>1 DEF CallOK, IsSafe, Replied, Active
      <4>2. ASSUME Active(call[o]), Safe(For(o)) PROVE Safe(For(o))'
        <5>1. For(o)' = For(o) BY <1>2, <4>2
        <5> QED BY <4>2, <5>1 DEF Safe, NoRequest
      <4> QED BY <4>1, <4>2
    <3>4. At(o, "todo") => ~Answered(o)' OBVIOUS
    <3>5. Active(call[o]) /\ ~Tool(o) => Listening(o)' OBVIOUS
    <3> QED BY <1>1, <1>3, <3>1, <3>2, <3>3, <3>4, <3>5
           DEF CallOK, IsSafe, Active, Replied, At
  <2> QED BY <2>1 DEF CallsInv
<1>7. ToldInv'
  <2>1. \A p \in Purchases : p[1] \in Jobs BY DEF Purchases
  <2> QED BY <1>3, <2>1 DEF Inv, ToldInv, At
<1> QED BY <1>4, <1>5, <1>6, <1>7 DEF Inv

LEMMA TickKeeps ==
  ASSUME Inv, NEW j \in Jobs, Tick(j) PROVE Inv' /\ Faithful
<1> DEFINE more == IF Listening(j) THEN 1 ELSE 0
           new  == [It(j) EXCEPT !.since = @ + 1, !.elapsed = @ + more]
<1>1. /\ call' = [call EXCEPT ![j] = new]
      /\ UNCHANGED <<kind, paid, ledger, told, run, job, saved, socket, mem, disk>>
  BY DEF Tick, outside, Become
<1>2. call[j] \in ACall BY CallIs
<1>3. more \in Nat OBVIOUS
<1> HIDE DEF more
<1>4. /\ new \in ACall /\ new.pc = call[j].pc /\ new.n = call[j].n
      /\ new.reply = call[j].reply
  <2>1. call[j].since + 1 \in Nat /\ call[j].elapsed + more \in Nat
    BY <1>2, <1>3 DEF ACall
  <2> DEFINE since == call[j].since + 1
             elapsed == call[j].elapsed + more
  <2>2. new = [call[j] EXCEPT !.since = since, !.elapsed = elapsed] BY DEF It
  <2> HIDE DEF since, elapsed, new
  <2>3. since \in Nat /\ elapsed \in Nat BY <2>1 DEF since, elapsed
  <2> QED BY <1>2, <2>2, <2>3 DEF ACall
<1> HIDE DEF new
<1>5. \A o \in Jobs : /\ call'[o] \in ACall /\ call'[o].pc = call[o].pc
                       /\ call'[o].n = call[o].n /\ call'[o].reply = call[o].reply
  BY <1>1, <1>4, CallIs DEF Inv, CallsInv
<1>6. \A o \in Jobs : At(o, "todo") => ~Answered(o)' BY <1>1, CallIs DEF CallOK, At, Answered
<1>7. \A o \in Jobs : Active(call[o]) /\ ~Tool(o) => Listening(o)' /\ mem'.retry = mem.retry
  BY <1>1, OneModel DEF Listening, Current, Answered
<1>8. call' = [o \in Jobs |-> call'[o]] BY <1>1 DEF Inv, CallsInv
<1>9. mem' \in Request /\ disk' \in Request /\ told' \in [Purchases -> Told]
  BY <1>1 DEF Inv, Typed
<1>10. Inv' BY <1>1, <1>5, <1>6, <1>7, <1>8, <1>9, StillKeeps
<1> QED BY <1>1, <1>10 DEF Faithful

\* withinDeadline answers for a tool that goes on.
LEMMA ExpireKeeps ==
  ASSUME Inv, NEW j \in Jobs, Expire(j) PROVE Inv' /\ Faithful
<1> DEFINE what == IF kind[j] = "pay" THEN "no claim" ELSE "nothing charged"
<1>1. /\ Tool(j) /\ Listening(j) /\ ~At(j, "todo")
      /\ told' = [told EXCEPT ![For(j)] = what] /\ mem' = Fresh /\ disk' = Fresh
      /\ UNCHANGED <<kind, paid, ledger, call, saved, socket>>
  BY DEF Expire, DeadlineDue, Next1, outside, At
<1>2. what \in Claims /\ what \notin {"paid", "not paid"} BY DEF Claims, Told
<1> HIDE DEF what
<1>3. For(j) \in Purchases /\ For(j)[1] = j BY ForIs DEF Inv
<1>4. told' \in [Purchases -> Told] /\ \A p \in Purchases :
        /\ told'[p] = "not paid" => told[p] = "not paid"
        /\ p[1] # j => told'[p] = told[p]
  BY <1>1, <1>2, <1>3 DEF Inv, Typed, Claims
<1>5. \A o \in Jobs : At(o, "todo") => ~Answered(o)'
  <2> SUFFICES ASSUME NEW o \in Jobs, At(o, "todo") PROVE ~Answered(o)' OBVIOUS
  <2>1. o # j /\ ~Answered(o) BY <1>1, CallIs DEF CallOK, At
  <2>2. \A r \in 0..MaxRetry : <<o, r>> \in Purchases /\ <<o, r>>[1] # j
    BY <2>1 DEF Purchases
  <2> QED BY <1>4, <2>1, <2>2 DEF Answered
<1>6. \A o \in Jobs : ~(Active(call[o]) /\ ~Tool(o))
  BY <1>1, OneModel DEF Listening, Current
<1>7. \A o \in Jobs : /\ call'[o] \in ACall /\ call'[o].pc = call[o].pc
                       /\ call'[o].n = call[o].n /\ call'[o].reply = call[o].reply
  BY <1>1, CallIs
<1>8. call' = [o \in Jobs |-> call'[o]] BY <1>1 DEF Inv, CallsInv
<1>9. Inv' BY <1>1, <1>4, <1>5, <1>6, <1>7, <1>8, Retries, StillKeeps
<1>10. Tells(For(j), what) BY <1>1, <1>2, NotTold DEF Tells
<1> QED BY <1>2, <1>3, <1>9, <1>10 DEF Faithful

\* A paid call that starts does so with nothing on its way.
LEMMA StartToolKeeps ==
  ASSUME Inv, NEW j \in Jobs, StartTool(j) PROVE Inv' /\ Faithful
<1>1. /\ Tool(j) /\ At(j, "todo")
      /\ UNCHANGED <<kind, paid, ledger, socket>>
  BY DEF StartTool, outside
<1>2. CallOK(j, call[j]) BY CallIs
<1>3. Quieter(j) BY <1>1, SameQueue DEF At
<1>4. CASE kind[j] = "pay" /\ saved[j] = "started"
  <2>1. EndRun(j, "no claim") BY <1>4 DEF StartTool
  <2>2. call'[j] = Over /\ saved' = saved BY <2>1 DEF EndRun, Become, Inv, CallsInv
  <2>3. CallOK(j, call[j])'
    BY <1>1, <1>4, <2>2, IdleIs DEF CallOK, IsSafe, Active, Replied
  <2>4. "no claim" \in Claims BY DEF Claims, Told
  <2> QED BY <1>1, <1>3, <2>1, <2>3, <2>4, EndRunKeeps DEF At
<1>5. CASE ~(kind[j] = "pay" /\ saved[j] = "started")
  <2> DEFINE new == [Idle EXCEPT !.pc = "ready"]
  <2>1. /\ saved' = [saved EXCEPT ![j] = "started"] /\ call' = [call EXCEPT ![j] = new]
        /\ UNCHANGED <<run, job, wait, mem, disk, told>>
    BY <1>5 DEF StartTool, Become
  <2>2. new \in ACall /\ new.pc = "ready" /\ new.n = 0
    BY IdleIs DEF ACall, PCs
  <2> HIDE DEF new
  <2>3. call'[j] = new BY <2>1 DEF Inv, CallsInv
  <2>4. For(j)' = <<j, 0>> /\ Tool(j)' BY <1>1, ForIs DEF Inv, For, Tool
  <2>5. kind[j] = "pay" => Safe(<<j, 0>>)' BY <1>2, <1>3, <1>5, <1>1, StaysSafe DEF CallOK, IsSafe
  <2>6. kind[j] = "pay" => Safe(For(j))' BY <2>4, <2>5 DEF Safe, NoRequest
  <2>7. saved'[j] = "started" BY <2>1 DEF Inv, Typed
  <2>8. CallOK(j, call[j])' BY <1>1, <2>2, <2>3, <2>4, <2>6, <2>7 DEF CallOK, IsSafe, Active, Replied
  <2>9. Steps(j, new) BY <1>1, <1>3, <2>1 DEF Steps, Inv, Typed
  <2> QED BY <1>1, <2>1, <2>8, <2>9, StepKeeps DEF At, Says, Faithful
<1> QED BY <1>4, <1>5

LEMMA RefuseLocallyKeeps ==
  ASSUME Inv, NEW j \in Jobs, RefuseLocally(j) PROVE Inv' /\ Faithful
<1>1. /\ kind[j] = "pay" /\ At(j, "ready") /\ Tell(j, "not paid")
      /\ UNCHANGED <<kind, paid, ledger, socket>>
  BY DEF RefuseLocally, outside
<1>2. Safe(For(j)) BY <1>1, CallIs DEF CallOK, IsSafe, At
<1>3. Quieter(j) BY <1>1, SameQueue DEF At
<1>4. "not paid" \in Claims BY DEF Claims, Told
<1> QED BY <1>1, <1>2, <1>3, <1>4, TellKeeps DEF At, Active

LEMMA NotSentKeeps ==
  ASSUME Inv, NEW j \in Jobs, NotSent(j) PROVE Inv' /\ Faithful
<1>1. /\ At(j, "ready") /\ UNCHANGED <<kind, paid, ledger, socket>>
  BY DEF NotSent, outside
<1>2. CallOK(j, call[j]) BY CallIs
<1>3. Quieter(j) BY <1>1, SameQueue DEF At
<1>4. CASE kind[j] = "pay" /\ Tell(j, "no claim")
  <2>1. "no claim" \in Claims BY DEF Claims, Told
  <2> QED BY <1>1, <1>3, <1>4, <2>1, TellKeeps DEF At, Active
<1>5. CASE kind[j] = "move" /\ Goto(j, "again") /\ UNCHANGED <<run, job, wait, mem, disk, saved, told>>
  <2> DEFINE new == [It(j) EXCEPT !.pc = "again", !.reply = "none", !.since = 0]
  <2>1. "again" \in PCs /\ Goto(j, "again") BY <1>5 DEF PCs
  <2>2. call' = [call EXCEPT ![j] = new] /\ new \in ACall /\ new.pc = "again" /\ new.n = call[j].n
    BY <2>1, GotoIs
  <2>3. Tool(j) BY <1>5 DEF Tool, Tools
  <2> HIDE DEF new
  <2>4. CallOK(j, new) BY <1>1, <1>2, <1>5, <2>2, <2>3 DEF CallOK, IsSafe, Active, Replied, At
  <2> QED BY <1>1, <1>3, <1>5, <2>2, <2>4, GoKeeps DEF At, Inv, Typed
<1>6. CASE kind[j] = "model" /\ Pause(j, "reconcile")
  <2>1. ~Tool(j) BY <1>6 DEF Tool, Tools
  <2> QED BY <1>1, <1>3, <1>6, <2>1, PauseKeeps DEF At, Active
<1> QED BY <1>4, <1>5, <1>6 DEF NotSent

-----------------------------------------------------------------------------
(***************************************************************************)
(* The worker lets go of a connection.                                     *)
(***************************************************************************)
LEMMA RemoveAtIs ==
  ASSUME NEW S, NEW s \in Seq(S), NEW i \in 1..Len(s)
  PROVE  /\ RemoveAt(s, i) \in Seq(S) /\ Len(RemoveAt(s, i)) = Len(s) - 1
         /\ \A k \in 1..(Len(s) - 1) : RemoveAt(s, i)[k] = IF k < i THEN s[k] ELSE s[k + 1]
<1> DEFINE a == SubSeq(s, 1, i - 1)
           b == SubSeq(s, i + 1, Len(s))
<1>1. Len(s) \in Nat /\ \A k \in 1..Len(s) : s[k] \in S OBVIOUS
<1>2. /\ a \in Seq(S) /\ Len(a) = i - 1 /\ \A k \in 1..(i - 1) : a[k] = s[k]
  BY <1>1, SubSeqProperties
<1>3. /\ b \in Seq(S) /\ Len(b) = Len(s) - i /\ \A k \in 1..(Len(s) - i) : b[k] = s[i + k]
  BY <1>1, SubSeqProperties
<1> HIDE DEF a, b
<1>4. RemoveAt(s, i) = a \o b BY DEF RemoveAt, a, b
<1>5. /\ a \o b \in Seq(S) /\ Len(a \o b) = Len(s) - 1
      /\ \A k \in 1..(Len(s) - 1) : (a \o b)[k] = IF k < i THEN a[k] ELSE b[k - (i - 1)]
  BY <1>1, <1>2, <1>3, ConcatProperties
<1>6. ASSUME NEW k \in 1..(Len(s) - 1), ~(k < i) PROVE b[k - (i - 1)] = s[k + 1]
  <2>1. k - (i - 1) \in 1..(Len(s) - i) /\ i + (k - (i - 1)) = k + 1 BY <1>1, <1>6
  <2> QED BY <1>3, <2>1
<1> QED BY <1>1, <1>2, <1>4, <1>5, <1>6

LEMMA HangUpIs ==
  ASSUME Inv, NEW j \in Jobs, HangUp(j) PROVE Quieter(j)
<1>1. socket \in Seq(Post) BY DEF Inv, Typed
<1>2. CASE socket' = Dead(socket, j)
  <2>1. /\ Len(socket') = Len(socket)
        /\ \A i \in 1..Len(socket) :
             /\ socket'[i] = IF Mine(j, socket[i]) THEN [socket[i] EXCEPT !.live = FALSE]
                             ELSE socket[i]
             /\ socket[i] \in Post
    BY <1>1, <1>2 DEF Dead
  <2>2. \A i \in 1..Len(socket) :
          /\ socket'[i] \in Post /\ socket'[i].for = socket[i].for /\ socket'[i].id = socket[i].id
          /\ socket'[i].live => socket[i].live /\ socket[i].for[1] # j
    <3> SUFFICES ASSUME NEW i \in 1..Len(socket)
                 PROVE  /\ socket'[i] \in Post /\ socket'[i].for = socket[i].for
                        /\ socket'[i].id = socket[i].id
                        /\ socket'[i].live => socket[i].live /\ socket[i].for[1] # j
      OBVIOUS
    <3>1. socket[i] \in Post BY <2>1
    <3>2. CASE Mine(j, socket[i])
      <4>1. socket'[i] = [socket[i] EXCEPT !.live = FALSE] BY <2>1, <3>2
      <4> QED BY <3>1, <4>1 DEF Post
    <3>3. CASE ~Mine(j, socket[i])
      <4>1. socket'[i] = socket[i] BY <2>1, <3>3
      <4> QED BY <3>1, <3>3, <4>1 DEF Mine
    <3> QED BY <3>2, <3>3
  <2>3. socket' \in Seq(Post)
    <3>1. socket' = [i \in 1..Len(socket) |-> socket'[i]] BY <1>2 DEF Dead
    <3>2. Len(socket) \in Nat BY <1>1
    <3> QED BY <2>2, <3>1, <3>2, IsASeq
  <2> QED BY <2>1, <2>2, <2>3 DEF Quieter, Inv, SocketInv
<1>3. ASSUME NEW i \in 1..Len(socket), Mine(j, socket[i]), socket' = RemoveAt(socket, i)
      PROVE  Quieter(j)
  <2>1. /\ socket' \in Seq(Post) /\ Len(socket') = Len(socket) - 1
        /\ \A k \in 1..Len(socket') : socket'[k] = IF k < i THEN socket[k] ELSE socket[k + 1]
    BY <1>1, <1>3, RemoveAtIs
  <2>2. Len(socket) \in Nat BY <1>1
  <2>3. socket[i].live /\ socket[i].for[1] = j BY <1>3 DEF Mine
  <2>4. \A k \in 1..Len(socket) : socket[k].live /\ socket[k].for[1] = j => k = i
    BY <2>2, <2>3 DEF Inv, SocketInv
  <2>5. \A k \in 1..Len(socket') : \E n \in 1..Len(socket) :
          n # i /\ socket'[k] = socket[n] /\ \A m \in 1..Len(socket') : m > k =>
             \E l \in 1..Len(socket) : l > n /\ socket'[m] = socket[l]
    <3> SUFFICES ASSUME NEW k \in 1..Len(socket')
                 PROVE  \E n \in 1..Len(socket) :
                   n # i /\ socket'[k] = socket[n] /\ \A m \in 1..Len(socket') : m > k =>
                      \E l \in 1..Len(socket) : l > n /\ socket'[m] = socket[l]
      OBVIOUS
    <3> DEFINE n == IF k < i THEN k ELSE k + 1
    <3>1. n \in 1..Len(socket) /\ n # i /\ socket'[k] = socket[n] BY <2>1, <2>2
    <3>2. ASSUME NEW m \in 1..Len(socket'), m > k
          PROVE  \E l \in 1..Len(socket) : l > n /\ socket'[m] = socket[l]
      <4> DEFINE l == IF m < i THEN m ELSE m + 1
      <4>1. l \in 1..Len(socket) /\ l > n /\ socket'[m] = socket[l] BY <2>1, <2>2, <3>2
      <4> QED BY <4>1
    <3> QED BY <3>1, <3>2
  <2>6. ASSUME NEW k \in 1..Len(socket'), socket'[k].live, NEW o, o = socket'[k].for[1]
        PROVE  /\ o # j /\ At(o, "posted") /\ socket'[k].for = For(o)
               /\ \A m \in 1..Len(socket') : m > k => socket'[m].for[1] # o
    <3>1. PICK n \in 1..Len(socket) :
            n # i /\ socket'[k] = socket[n] /\ \A m \in 1..Len(socket') : m > k =>
               \E l \in 1..Len(socket) : l > n /\ socket'[m] = socket[l]
      BY <2>5
    <3>2. socket[n].live /\ o = socket[n].for[1] BY <2>6, <3>1
    <3>3. /\ At(o, "posted") /\ socket[n].for = For(o)
          /\ \A l \in 1..Len(socket) : l > n => socket[l].for[1] # o
      BY <3>2 DEF Inv, SocketInv
    <3>4. o # j BY <2>4, <3>1, <3>2
    <3>5. socket'[k].for = For(o) BY <3>1, <3>3
    <3>6. \A m \in 1..Len(socket') : m > k => socket'[m].for[1] # o BY <3>1, <3>3
    <3> QED BY <3>3, <3>4, <3>5, <3>6
  <2>7. \A k \in 1..Len(socket') : \E n \in 1..Len(socket) :
          socket'[k].for = socket[n].for /\ socket'[k].id = socket[n].id
    BY <2>5
  <2> QED BY <2>1, <2>6, <2>7 DEF Quieter
<1> QED BY <1>2, <1>3 DEF HangUp

LEMMA GivesUpKeeps ==
  ASSUME Inv, NEW j \in Jobs, At(j, "posted"), Quieter(j), UNCHANGED <<kind, paid, ledger>>,
         GivesUp(j)
  PROVE  Inv' /\ Faithful
<1>1. CallOK(j, call[j]) BY CallIs
<1>2. kind[j] \in {"pay", "move", "model"} /\ (Tool(j) <=> kind[j] # "model")
  BY KindsOf DEF Inv
<1>3. CASE kind[j] = "model"
  <2>1. Pause(j, "reconcile") BY <1>2, <1>3 DEF GivesUp
  <2> QED BY <1>2, <1>3, <2>1, PauseKeeps DEF At, Active
<1>4. CASE Tool(j) /\ call[j].n = 1
  <2> DEFINE new == [It(j) EXCEPT !.pc = "again", !.reply = "none", !.since = 0]
  <2>1. Goto(j, "again") /\ UNCHANGED <<run, job, wait, mem, disk, saved, told>>
    BY <1>2, <1>4 DEF GivesUp, It
  <2>2. "again" \in PCs /\ Goto(j, "again") BY <2>1 DEF PCs
  <2>3. call' = [call EXCEPT ![j] = new] /\ new \in ACall /\ new.pc = "again" /\ new.n = call[j].n
    BY <2>2, GotoIs
  <2> HIDE DEF new
  <2>4. CallOK(j, new) BY <1>1, <1>4, <2>3 DEF CallOK, IsSafe, Active, Replied, At
  <2> QED BY <2>1, <2>3, <2>4, GoKeeps DEF At, Inv, Typed
<1>5. CASE Tool(j) /\ call[j].n = 2
  <2>1. kind[j] # "model" /\ ~(Tool(j) /\ It(j).n = 1) /\ (Tool(j) /\ It(j).n = 2)
    BY <1>2, <1>5 DEF It
  <2>3. Tell(j, "no claim") BY <2>1, Zenon DEF GivesUp
  <2>2. "no claim" \in Claims BY DEF Claims, Told
  <2> QED BY <2>2, <2>3, TellKeeps DEF At, Active
<1>6. Tool(j) => call[j].n \in {1, 2} BY <1>1 DEF CallOK, At
<1> QED BY <1>2, <1>3, <1>4, <1>5, <1>6

LEMMA UnansweredKeeps ==
  ASSUME Inv, NEW j \in Jobs, Timeout(j) \/ Lost(j) PROVE Inv' /\ Faithful
<1>1. At(j, "posted") /\ HangUp(j) /\ GivesUp(j) /\ UNCHANGED <<kind, paid, ledger>>
  BY DEF Timeout, Lost
<1> QED BY <1>1, HangUpIs, GivesUpKeeps

-----------------------------------------------------------------------------
(***************************************************************************)
(* The answers.                                                            *)
(***************************************************************************)
LEMMA AnswerPaidKeeps ==
  ASSUME Inv, NEW j \in Jobs, AnswerPaid(j) \/ Followed(j) PROVE Inv' /\ Faithful
<1>1. /\ Replied(call[j], {"paid"}) \/ At(j, "follow")
      /\ \/ Tell(j, "paid")
         \/ /\ kind[j] = "move" /\ At(j, "replied") /\ Goto(j, "follow")
            /\ UNCHANGED <<run, job, wait, mem, disk, saved, told>>
      /\ UNCHANGED <<kind, paid, ledger, socket>>
  BY DEF AnswerPaid, Followed, Said, Replied, At, It, outside
<1>2. CallOK(j, call[j]) BY CallIs
<1>3. paid[For(j)] = 1 BY <1>1, <1>2 DEF CallOK, At
<1>4. Active(call[j]) /\ Quieter(j) BY <1>1, SameQueue DEF Active, At, Replied
<1>5. CASE Tell(j, "paid")
  <2>1. "paid" \in Claims BY DEF Claims, Told
  <2> QED BY <1>1, <1>3, <1>4, <1>5, <2>1, TellKeeps
<1>6. CASE /\ kind[j] = "move" /\ At(j, "replied") /\ Goto(j, "follow")
           /\ UNCHANGED <<run, job, wait, mem, disk, saved, told>>
  <2> DEFINE new == [It(j) EXCEPT !.pc = "follow", !.reply = "none", !.since = 0]
  <2>1. "follow" \in PCs /\ Goto(j, "follow") BY <1>6 DEF PCs
  <2>2. call' = [call EXCEPT ![j] = new] /\ new \in ACall /\ new.pc = "follow"
    BY <2>1, GotoIs
  <2>3. Tool(j) BY <1>6 DEF Tool, Tools
  <2> HIDE DEF new
  <2>4. CallOK(j, new) BY <1>2, <1>3, <1>6, <2>2, <2>3 DEF CallOK, IsSafe, Active, Replied
  <2> QED BY <1>1, <1>4, <1>6, <2>2, <2>4, GoKeeps DEF At, Active, Inv, Typed
<1> QED BY <1>1, <1>5, <1>6

LEMMA AnswerRefusedKeeps ==
  ASSUME Inv, NEW j \in Jobs, AnswerRefused(j) PROVE Inv' /\ Faithful
<1>1. /\ Replied(call[j], {"refused", "declined"})
      /\ Tell(j, "not paid") \/ EndRun(j, "not paid")
      /\ UNCHANGED <<kind, paid, ledger, socket>>
  BY DEF AnswerRefused, Said, Replied, At, It, outside
<1>2. CallOK(j, call[j]) BY CallIs
<1>3. Safe(For(j)) BY <1>1, <1>2 DEF CallOK, IsSafe, Replied
<1>4. Active(call[j]) /\ Quieter(j) BY <1>1, SameQueue DEF Active, At, Replied
<1>5. "not paid" \in Claims BY DEF Claims, Told
<1>6. CASE Tell(j, "not paid")
  BY <1>1, <1>3, <1>4, <1>5, <1>6, TellKeeps
<1>7. CASE EndRun(j, "not paid")
  <2>1. call'[j] = Over /\ saved' = saved BY <1>7 DEF EndRun, Become, Inv, CallsInv
  <2>2. CallOK(j, call[j])' BY <1>1, <1>4, <2>1, OverIsOK
  <2> QED BY <1>1, <1>3, <1>4, <1>5, <1>7, <2>2, EndRunKeeps
<1> QED BY <1>1, <1>6, <1>7

LEMMA AnswerUnknownKeeps ==
  ASSUME Inv, NEW j \in Jobs, AnswerUnknown(j) PROVE Inv' /\ Faithful
<1>1. /\ Replied(call[j], {"unknown"})
      /\ IF kind[j] = "model" THEN Pause(j, "reconcile") ELSE Tell(j, "no claim")
      /\ UNCHANGED <<kind, paid, ledger, socket>>
  BY DEF AnswerUnknown, Said, Replied, At, It, outside
<1>2. Active(call[j]) /\ Quieter(j) BY <1>1, SameQueue DEF Active, At, Replied
<1>3. CASE kind[j] = "model"
  <2>1. ~Tool(j) BY <1>3 DEF Tool, Tools
  <2> QED BY <1>1, <1>2, <1>3, <2>1, PauseKeeps
<1>4. CASE kind[j] # "model"
  <2>1. "no claim" \in Claims BY DEF Claims, Told
  <2> QED BY <1>1, <1>2, <1>4, <2>1, TellKeeps
<1> QED BY <1>3, <1>4

LEMMA AnswerApprovalKeeps ==
  ASSUME Inv, NEW j \in Jobs, AnswerApproval(j) \/ Paused(j) PROVE Inv' /\ Faithful
<1>1. /\ Replied(call[j], {"approval"}) \/ At(j, "pausing")
      /\ \/ Pause(j, "approval")
         \/ /\ Tool(j) /\ Replied(call[j], {"approval"}) /\ Goto(j, "pausing")
            /\ UNCHANGED <<run, job, wait, mem, disk, saved, told>>
      /\ UNCHANGED <<kind, paid, ledger, socket>>
  BY DEF AnswerApproval, Paused, Said, Replied, At, It, outside
<1>2. CallOK(j, call[j]) BY CallIs
<1>3. Safe(For(j)) BY <1>1, <1>2 DEF CallOK, IsSafe, Replied, At
<1>4. Active(call[j]) /\ Quieter(j) BY <1>1, SameQueue DEF Active, At, Replied
<1>5. CASE Pause(j, "approval") BY <1>1, <1>3, <1>4, <1>5, PauseKeeps
<1>6. CASE /\ Tool(j) /\ Replied(call[j], {"approval"}) /\ Goto(j, "pausing")
           /\ UNCHANGED <<run, job, wait, mem, disk, saved, told>>
  <2> DEFINE new == [It(j) EXCEPT !.pc = "pausing", !.reply = "none", !.since = 0]
  <2>1. "pausing" \in PCs /\ Goto(j, "pausing") BY <1>6 DEF PCs
  <2>2. call' = [call EXCEPT ![j] = new] /\ new \in ACall /\ new.pc = "pausing"
    BY <2>1, GotoIs
  <2> HIDE DEF new
  <2>3. CallOK(j, new) BY <1>2, <1>3, <1>4, <1>6, <2>2 DEF CallOK, IsSafe, Active, Replied
  <2> QED BY <1>1, <1>4, <1>6, <2>2, <2>3, GoKeeps DEF At, Active, Inv, Typed
<1> QED BY <1>1, <1>5, <1>6

LEMMA AnswerContextKeeps ==
  ASSUME Inv, NEW j \in Jobs, AnswerContext(j) PROVE Inv' /\ Faithful
<1>1. /\ Replied(call[j], {"context"})
      /\ \/ /\ mem.retry < MaxRetry
            /\ mem' = [mem EXCEPT !.retry = @ + 1, !.prepared = FALSE, !.body = 0]
            /\ Goto(j, "thaw")
            /\ UNCHANGED <<run, job, wait, disk, saved, told>>
         \/ EndRun(j, "no claim")
      /\ UNCHANGED <<kind, paid, ledger, socket>>
  BY DEF AnswerContext, Said, Replied, At, It, outside
<1>2. CallOK(j, call[j]) BY CallIs
<1>3. Active(call[j]) /\ Quieter(j) BY <1>1, SameQueue DEF Active, At, Replied
<1>4. ~Tool(j) /\ Listening(j) BY <1>1, <1>2, <1>3 DEF CallOK, Replied
<1>5. CASE EndRun(j, "no claim")
  <2>1. call'[j] = Over /\ saved' = saved BY <1>5 DEF EndRun, Become, Inv, CallsInv
  <2>2. CallOK(j, call[j])' BY <1>1, <1>3, <2>1, OverIsOK
  <2>3. "no claim" \in Claims BY DEF Claims, Told
  <2> QED BY <1>1, <1>3, <1>5, <2>2, <2>3, EndRunKeeps
<1>6. CASE /\ mem.retry < MaxRetry
           /\ mem' = [mem EXCEPT !.retry = @ + 1, !.prepared = FALSE, !.body = 0]
           /\ Goto(j, "thaw")
           /\ UNCHANGED <<run, job, wait, disk, saved, told>>
  <2> DEFINE new == [It(j) EXCEPT !.pc = "thaw", !.reply = "none", !.since = 0]
  <2>1. "thaw" \in PCs /\ Goto(j, "thaw") BY <1>6 DEF PCs
  <2>2. call' = [call EXCEPT ![j] = new] /\ new \in ACall /\ new.pc = "thaw"
    BY <2>1, GotoIs
  <2> HIDE DEF new
  <2>3. mem' \in Request
    <3>1. mem \in Request /\ mem.retry + 1 \in 0..MaxRetry BY <1>6 DEF Inv, Typed, Request
    <3> QED BY <1>6, <3>1 DEF Request, Bodies
  <2>4. Steps(j, new) BY <1>1, <1>3, <1>4, <1>6, <2>2, <2>3 DEF Steps, Inv, Typed
  <2>5. call'[j] = new BY <2>2 DEF Inv, CallsInv
  <2>6. ~Tool(j)' /\ Listening(j)' BY <1>1, <1>4, <1>6 DEF Tool, Listening, Current, Answered
  <2>7. kind'[j] # "pay" BY <1>1, <1>4 DEF Tool, Tools
  <2>8. CallOK(j, call[j])' BY <2>2, <2>5, <2>6, <2>7 DEF CallOK, IsSafe, Active, Replied
  <2>9. ~At(j, "over") /\ Says(j, new) BY <1>3, <1>6 DEF Active, At, Says
  <2>10. Inv' BY <2>4, <2>8, <2>9, StepKeeps
  <2> QED BY <1>1, <1>6, <2>10 DEF Faithful
<1> QED BY <1>1, <1>5, <1>6

-----------------------------------------------------------------------------
(***************************************************************************)
(* A request enters the queue.                                             *)
(***************************************************************************)
LEMMA PostItKeeps ==
  ASSUME Inv, NEW j \in Jobs, PostIt(j) PROVE Inv' /\ Faithful
<1> DEFINE new == [It(j) EXCEPT !.pc = "posted", !.n = @ + 1, !.since = 0]
           m == [for |-> For(j), id |-> Id(j), live |-> TRUE]
<1>1. /\ call[j].pc \in {"ready", "again"} /\ call' = [call EXCEPT ![j] = new]
      /\ socket' = Append(socket, m)
      /\ UNCHANGED <<kind, run, job, mem, disk, saved, told, ledger, paid>>
  BY DEF PostIt, Become, At
<1>2. CallOK(j, call[j]) /\ call[j] \in ACall BY CallIs
<1>3. /\ new \in ACall /\ new.pc = "posted" /\ new.n = call[j].n + 1
  <2>1. call[j].n + 1 \in Nat /\ "posted" \in PCs BY <1>2 DEF ACall, PCs
  <2> QED BY <1>2, <2>1 DEF ACall, It
<1>4. For(j) \in Purchases /\ For(j)[1] = j BY ForIs DEF Inv
<1>5. m \in Post /\ m.for = For(j) /\ m.id = m.for BY <1>4 DEF Post, Id, Purchases
<1> HIDE DEF new, m
<1>6. /\ socket \in Seq(Post) /\ socket' \in Seq(Post) /\ Len(socket') = Len(socket) + 1
      /\ socket'[Len(socket) + 1] = m /\ \A i \in 1..Len(socket) : socket'[i] = socket[i]
      /\ Len(socket) \in Nat
  BY <1>1, <1>5, AppendProperties DEF Inv, Typed
<1>7. /\ call'[j] = new /\ \A o \in Jobs : o # j => call'[o] = call[o]
      /\ call' = [o \in Jobs |-> call'[o]]
  BY <1>1 DEF Inv, CallsInv
<1>8. \A o : For(o)' = For(o) /\ Tool(o)' = Tool(o) /\ Answered(o)' = Answered(o)
             /\ Listening(o)' = Listening(o)
  BY <1>1 DEF For, Tool, Answered, Listening, Current
<1>9. \A p : p # For(j) /\ Safe(p) => Safe(p)'
  BY <1>1, <1>5, <1>6 DEF Safe, NoRequest
<1>10. Typed' /\ LedgerInv'
  <2>1. ASSUME NEW i \in 1..Len(socket') PROVE socket'[i].id = socket'[i].for
    <3>1. CASE i = Len(socket) + 1 BY <1>5, <1>6, <3>1
    <3>2. CASE i # Len(socket) + 1
      <4>1. i \in 1..Len(socket) /\ socket'[i] = socket[i] BY <1>6, <3>2
      <4> QED BY <4>1 DEF Inv, Typed
    <3> QED BY <3>1, <3>2
  <2> QED BY <1>1, <1>6, <2>1 DEF Inv, Typed, LedgerInv
<1>11. SocketInv'
  <2> SUFFICES ASSUME NEW i \in 1..Len(socket'), socket'[i].live,
                      NEW o, o = socket'[i].for[1]
               PROVE  /\ At(o, "posted")' /\ socket'[i].for = For(o)'
                      /\ \A k \in 1..Len(socket') : k > i => socket'[k].for[1] # o
    BY DEF SocketInv, At, For, Tool
  <2>1. CASE i = Len(socket) + 1
    <3>1. o = j /\ socket'[i].for = For(j) BY <1>4, <1>5, <1>6, <2>1
    <3>2. \A k \in 1..Len(socket') : ~(k > i) BY <1>6, <2>1
    <3> QED BY <1>3, <1>7, <1>8, <3>1, <3>2 DEF At
  <2>2. CASE i # Len(socket) + 1
    <3>1. i \in 1..Len(socket) /\ socket'[i] = socket[i] BY <1>6, <2>2
    <3>2. At(o, "posted") /\ o \in Jobs BY <3>1, LiveIs
    <3>3. o # j BY <1>1, <3>2 DEF At
    <3>4. /\ socket[i].for = For(o)
          /\ \A k \in 1..Len(socket) : k > i => socket[k].for[1] # o
      BY <3>1 DEF Inv, SocketInv
    <3>5. \A k \in 1..Len(socket') : k > i => socket'[k].for[1] # o
      BY <1>4, <1>5, <1>6, <3>3, <3>4
    <3> QED BY <1>7, <1>8, <3>1, <3>2, <3>3, <3>4, <3>5 DEF At
  <2> QED BY <2>1, <2>2
<1>12. ASSUME NEW o \in Jobs, o # j PROVE CallOK(o, call[o])'
  <2>1. CallOK(o, call[o]) /\ call'[o] = call[o] BY <1>7, <1>12, CallIs
  <2>2. For(o) # For(j) /\ <<o, 0>> # For(j)
    <3>1. For(o)[1] = o /\ <<o, 0>>[1] = o BY ForIs DEF Inv
    <3> QED BY <1>4, <1>12, <3>1
  <2>3. Safe(<<o, 0>>) => Safe(<<o, 0>>)' BY <1>9, <2>2
  <2>4. Safe(For(o)) => Safe(For(o))'
    <3>1. ASSUME Safe(For(o)) PROVE Safe(For(o))'
      <4>1. \A i \in 1..Len(socket') : socket'[i].for # For(o)
        BY <1>5, <1>6, <2>2, <3>1 DEF Safe, NoRequest
      <4> QED BY <1>1, <1>8, <3>1, <4>1 DEF Safe, NoRequest
    <3> QED BY <3>1
  <2> QED BY <1>1, <1>8, <2>1, <2>3, <2>4 DEF CallOK, IsSafe, Active, Replied
<1>13. CallOK(j, call[j])'
  <2>1. Active(call[j]) BY <1>1 DEF Active
  <2>2. ~(kind[j] = "pay" /\ saved[j] # "started") BY <1>2, <2>1 DEF CallOK
  <2>3. Tool(j) => new.n \in {1, 2} BY <1>1, <1>2, <1>3 DEF CallOK
  <2>4. ~Tool(j) => Listening(j) BY <1>2, <2>1 DEF CallOK
  <2> QED BY <1>1, <1>3, <1>7, <1>8, <2>2, <2>3, <2>4 DEF CallOK, IsSafe, Active, Replied
<1>14. ToldInv'
  <2> SUFFICES ASSUME NEW p \in Purchases, told[p] = "not paid"
               PROVE  Safe(p)' /\ At(p[1], "over")'
    BY <1>1 DEF ToldInv
  <2>1. Safe(p) /\ At(p[1], "over") /\ p[1] \in Jobs BY DEF Inv, ToldInv, Purchases
  <2>2. p[1] # j BY <1>1, <2>1 DEF At
  <2> QED BY <1>4, <1>7, <1>9, <2>1, <2>2 DEF At
<1> QED BY <1>1, <1>7, <1>10, <1>11, <1>12, <1>13, <1>14 DEF Inv, CallsInv, Faithful

-----------------------------------------------------------------------------
(***************************************************************************)
(* Pauses, crashes and restarts.                                           *)
(***************************************************************************)
LEMMA ResumeKeeps ==
  ASSUME Inv, Resume PROVE Inv' /\ Faithful
<1>1. /\ run = "waiting" /\ mem' = disk
      /\ UNCHANGED <<kind, call, disk, saved, told, socket, ledger, paid>>
  BY DEF Resume, outside
<1>2. \A o \in Jobs : ~(Active(call[o]) /\ ~Tool(o)) BY <1>1, OneModel
<1>3. \A o \in Jobs : At(o, "todo") => ~Answered(o)'
  BY <1>1, CallIs DEF CallOK, At, Answered
<1>4. \A o \in Jobs : /\ call'[o] \in ACall /\ call'[o].pc = call[o].pc
                      /\ call'[o].n = call[o].n /\ call'[o].reply = call[o].reply
  BY <1>1, CallIs
<1>5. call' = [o \in Jobs |-> call'[o]] BY <1>1 DEF Inv, CallsInv
<1>6. mem' \in Request /\ disk' \in Request /\ told' \in [Purchases -> Told]
  BY <1>1 DEF Inv, Typed
<1>7. Inv' BY <1>1, <1>2, <1>3, <1>4, <1>5, <1>6, StillKeeps
<1> QED BY <1>1, <1>7 DEF Faithful

LEMMA CrashKeeps ==
  ASSUME Inv, Crash PROVE Inv' /\ Faithful
<1>1. /\ call' = [j \in Jobs |-> IF Answered(j) THEN Over ELSE Idle] /\ mem' = disk
      /\ socket' = [i \in 1..Len(socket) |-> [socket[i] EXCEPT !.live = FALSE]]
      /\ UNCHANGED <<kind, disk, saved, told, ledger, paid>>
  BY DEF Crash
<1>2. Len(socket) \in Nat BY DEF Inv, Typed
<1>3. \A i \in 1..Len(socket) : /\ socket'[i] \in Post /\ socket'[i].for = socket[i].for
                                /\ socket'[i].id = socket[i].id /\ ~socket'[i].live
  BY <1>1, Queued DEF Post
<1>4. socket' \in Seq(Post) /\ Len(socket') = Len(socket)
  <2>1. socket' = [i \in 1..Len(socket) |-> socket'[i]] BY <1>1
  <2> QED BY <1>2, <1>3, <2>1, IsASeq
<1>5. \A p : Safe(p)' = Safe(p) BY <1>1, <1>3, <1>4 DEF Safe, NoRequest
<1>6. Typed' /\ LedgerInv'
  BY <1>1, <1>3, <1>4 DEF Inv, Typed, LedgerInv
<1>7. SocketInv' BY <1>3, <1>4 DEF SocketInv
<1>8. CallsInv'
  <2>1. ASSUME NEW j \in Jobs PROVE CallOK(j, call[j])'
    <3>1. CallOK(j, call[j]) BY CallIs
    <3>2. kind'[j] = "pay" /\ saved'[j] # "started" => Safe(<<j, 0>>)'
      BY <1>1, <1>5, <3>1 DEF CallOK
    <3>3. CASE Answered(j)
      <4>1. call'[j] = Over BY <1>1, <3>3
      <4> QED BY <3>2, <4>1, IdleIs DEF CallOK, IsSafe, Active, Replied
    <3>4. CASE ~Answered(j)
      <4>1. call'[j] = Idle /\ ~Answered(j)' BY <1>1, <3>4 DEF Answered
      <4> QED BY <3>2, <4>1, IdleIsOK
    <3> QED BY <3>3, <3>4
  <2>2. call' = [j \in Jobs |-> call'[j]] BY <1>1
  <2> QED BY <2>1, <2>2 DEF CallsInv
<1>9. ToldInv'
  <2> SUFFICES ASSUME NEW p \in Purchases, told[p] = "not paid"
               PROVE  Safe(p)' /\ At(p[1], "over")'
    BY <1>1 DEF ToldInv
  <2>1. PICK j \in Jobs, r \in 0..MaxRetry : p = <<j, r>>
    <3>1. p \in Jobs \X (0..MaxRetry) BY DEF Purchases
    <3> QED BY ONLY <3>1
  <2>2. p[1] = j /\ Answered(j) BY <2>1 DEF Answered
  <2>3. Safe(p) BY DEF Inv, ToldInv
  <2> QED BY <1>1, <1>5, <2>1, <2>2, <2>3, IdleIs DEF At
<1> QED BY <1>1, <1>6, <1>7, <1>8, <1>9 DEF Inv, Faithful

-----------------------------------------------------------------------------
(***************************************************************************)
(* The supervisor and the gateway.                                         *)
(***************************************************************************)
LEMMA TailIs ==
  ASSUME Inv, socket # <<>>
  PROVE  /\ Len(socket) \in Nat /\ 1 \in 1..Len(socket) /\ First = socket[1]
         /\ Tail(socket) \in Seq(Post) /\ Len(Tail(socket)) = Len(socket) - 1
         /\ \A k \in 1..Len(Tail(socket)) :
              k + 1 \in 1..Len(socket) /\ Tail(socket)[k] = socket[k + 1]
<1>1. socket \in Seq(Post) /\ Len(socket) \in Nat BY DEF Inv, Typed
<1>2. Len(socket) # 0 BY <1>1, EmptySeq
<1> QED BY <1>1, <1>2, HeadTailProperties DEF First

\* An answer to a request for p is so.
Fits(p, r) ==
  /\ r = "paid" => paid'[p] = 1
  /\ r \in {"refused", "declined", "approval"} => paid'[p] = 0 /\ ledger'[p] # "working"
  /\ r = "context" => kind[p[1]] = "model"

\* The records of the gateway stay sound, and a purchase that is safe is not begun.
Books ==
  /\ ledger' \in [Purchases -> Ledger] /\ paid' \in [Purchases -> {0, 1}] /\ LedgerInv'
  /\ \A p \in Purchases : Safe(p) => paid'[p] = 0 /\ ledger'[p] # "working"
  /\ \A p \in Purchases : paid[p] = 1 => paid'[p] = 1

\* A purchase that is safe stays so, when the queue only loses requests.
LEMMA SafeInBooks ==
  ASSUME Books, NEW p \in Purchases, Safe(p),
         \A k \in 1..Len(socket') : \E i \in 1..Len(socket) : socket'[k] = socket[i]
  PROVE  Safe(p)'
BY DEF Books, Safe, NoRequest

\* What the gateway's step leaves of the calls it does not answer.
LEMMA UnservedStay ==
  ASSUME Inv, Books, UNCHANGED inside, NEW j \in Jobs, call'[j] = call[j],
         \A k \in 1..Len(socket') : \E i \in 1..Len(socket) : socket'[k] = socket[i]
  PROVE  CallOK(j, call[j])'
<1>1. CallOK(j, call[j]) BY CallIs
<1>2. For(j) \in Purchases /\ <<j, 0>> \in Purchases BY ForIs, Retries DEF Inv, Purchases
<1>3. /\ For(j)' = For(j) /\ Tool(j)' = Tool(j) /\ Answered(j)' = Answered(j)
      /\ Listening(j)' = Listening(j)
  BY DEF inside, For, Tool, Answered, Listening, Current
<1>4. Safe(For(j)) => Safe(For(j))'
  <2>1. ASSUME Safe(For(j)), NEW p, p = For(j) PROVE Safe(p)' BY <1>2, <2>1, SafeInBooks
  <2> QED BY <1>3, <2>1 DEF Safe, NoRequest
<1>5. Safe(<<j, 0>>) => Safe(<<j, 0>>)' BY <1>2, SafeInBooks
<1>6. paid[For(j)] = 1 => paid'[For(j)'] = 1 BY <1>2, <1>3 DEF Books
<1>7. kind' = kind /\ saved' = saved BY DEF inside
<1> QED BY <1>1, <1>3, <1>4, <1>5, <1>6, <1>7 DEF CallOK, IsSafe, Active, Replied

\* Steps that answer nobody.
LEMMA BooksKeep ==
  ASSUME Inv, Books, UNCHANGED inside, UNCHANGED <<socket, call>> PROVE Inv'
<1>1. \A k \in 1..Len(socket') : \E i \in 1..Len(socket) : socket'[k] = socket[i]
  OBVIOUS
<1>2. Typed' BY DEF Books, inside, Inv, Typed
<1>3. SocketInv' BY DEF inside, Inv, SocketInv, At, For, Tool
<1>4. CallsInv'
  <2>1. \A j \in Jobs : CallOK(j, call[j])' BY <1>1, UnservedStay
  <2>2. call' = [j \in Jobs |-> call'[j]] BY DEF Inv, CallsInv
  <2> QED BY <2>1, <2>2 DEF CallsInv
<1>5. ToldInv'
  <2>1. \A p \in Purchases : told'[p] = "not paid" => Safe(p) /\ At(p[1], "over")'
    BY DEF inside, Inv, ToldInv, At
  <2>2. \A p \in Purchases : Safe(p) => Safe(p)' BY <1>1, SafeInBooks
  <2> QED BY <2>1, <2>2 DEF ToldInv
<1> QED BY <1>2, <1>3, <1>4, <1>5 DEF Books, Inv

LEMMA ReplyKeeps ==
  ASSUME Inv, Books, UNCHANGED inside, socket # <<>>, NEW r \in Replies, Reply(r),
         Fits(First.for, r)
  PROVE  Inv'
<1> PICK o : o = First.for[1] OBVIOUS
<1> DEFINE new == [It(o) EXCEPT !.pc = "replied", !.reply = r]
<1>1. /\ socket' = Tail(socket)
      /\ First.live => call' = [call EXCEPT ![o] = new]
      /\ ~First.live => call' = call
      /\ UNCHANGED <<kind, run, job, mem, disk, saved, told>>
  BY DEF Reply, Become, inside
<1>2. /\ Len(socket) \in Nat /\ 1 \in 1..Len(socket) /\ First = socket[1]
      /\ socket' \in Seq(Post) /\ Len(socket') = Len(socket) - 1
      /\ \A k \in 1..Len(socket') : k + 1 \in 1..Len(socket) /\ socket'[k] = socket[k + 1]
  BY <1>1, TailIs
<1>3. \A k \in 1..Len(socket') : \E i \in 1..Len(socket) : socket'[k] = socket[i]
  BY <1>2
<1>4. First.for \in Purchases /\ o \in Jobs BY <1>2, Queued
<1>5. First.live =>
        /\ At(o, "posted") /\ First.for = For(o)
        /\ \A k \in 1..Len(socket) : k > 1 => socket[k].for[1] # o
  BY <1>2 DEF Inv, SocketInv
<1>6. It(o) = call[o] /\ call[o] \in ACall BY <1>4, CallIs DEF It
<1>7. /\ new \in ACall /\ new.pc = "replied" /\ new.reply = r
  <2>1. "replied" \in PCs BY DEF PCs
  <2> QED BY <1>6, <2>1 DEF ACall
<1> HIDE DEF new
<1>8. First.live => \A k \in 1..Len(socket') : socket'[k].for[1] # o
  <2> SUFFICES ASSUME First.live, NEW k \in 1..Len(socket') PROVE socket'[k].for[1] # o
    OBVIOUS
  <2>1. k + 1 \in 1..Len(socket) /\ socket'[k] = socket[k + 1] BY <1>2
  <2>2. k + 1 > 1 BY <2>1
  <2> QED BY <1>5, <2>1, <2>2
<1>9. /\ call' = [j \in Jobs |-> call'[j]]
      /\ First.live => call'[o] = new
      /\ \A j \in Jobs : j # o \/ ~First.live => call'[j] = call[j]
  BY <1>1, <1>4 DEF Inv, CallsInv
<1>10. \A j : /\ For(j)' = For(j) /\ Tool(j)' = Tool(j) /\ Answered(j)' = Answered(j)
              /\ Listening(j)' = Listening(j)
  BY <1>1 DEF For, Tool, Answered, Listening, Current
<1>11. Typed'
  <2>1. \A k \in 1..Len(socket') : socket'[k].id = socket'[k].for BY <1>2, Queued
  <2> QED BY <1>1, <1>2, <2>1 DEF Books, Inv, Typed
<1>12. SocketInv'
  <2> SUFFICES ASSUME NEW i \in 1..Len(socket'), socket'[i].live,
                      NEW q, q = socket'[i].for[1]
               PROVE  /\ At(q, "posted")' /\ socket'[i].for = For(q)'
                      /\ \A k \in 1..Len(socket') : k > i => socket'[k].for[1] # q
    BY DEF SocketInv, At, For, Tool
  <2>1. i + 1 \in 1..Len(socket) /\ socket'[i] = socket[i + 1] BY <1>2
  <2>2. /\ At(q, "posted") /\ socket[i + 1].for = For(q)
        /\ \A k \in 1..Len(socket) : k > i + 1 => socket[k].for[1] # q
    BY <2>1 DEF Inv, SocketInv
  <2>3. q \in Jobs BY <2>1, LiveIs
  <2>4. call'[q] = call[q] BY <1>8, <1>9, <2>3
  <2>5. ASSUME NEW k \in 1..Len(socket'), k > i PROVE socket'[k].for[1] # q
    <3>1. k + 1 \in 1..Len(socket) /\ socket'[k] = socket[k + 1] BY <1>2
    <3>2. k + 1 > i + 1 BY <1>2, <2>5
    <3> QED BY <2>2, <3>1, <3>2
  <2> QED BY <1>10, <2>1, <2>2, <2>4, <2>5 DEF At
<1>13. ASSUME First.live PROVE CallOK(o, call[o])'
  <2>1. CallOK(o, call[o]) /\ call[o].pc = "posted" /\ First.for = For(o)
    BY <1>4, <1>5, <1>13, CallIs DEF At
  <2>2. Active(call[o]) BY <2>1 DEF Active
  <2>3. ~(kind[o] = "pay" /\ saved[o] # "started") BY <2>1, <2>2 DEF CallOK
  <2>4. ~Tool(o) => Listening(o) BY <2>1, <2>2 DEF CallOK
  <2>5. r = "paid" => paid'[For(o)] = 1 BY <2>1 DEF Fits
  <2>6. r \in {"refused", "declined", "approval"} => Safe(For(o))'
    <3> SUFFICES ASSUME r \in {"refused", "declined", "approval"}, NEW p, p = For(o)
                 PROVE  Safe(p)'
      BY <1>10 DEF Safe, NoRequest
    <3>1. paid'[p] = 0 /\ ledger'[p] # "working" BY <2>1 DEF Fits
    <3>2. p[1] = o BY <1>4, ForIs DEF Inv
    <3>3. \A k \in 1..Len(socket') : socket'[k].for # p BY <1>8, <1>13, <3>2
    <3> QED BY <3>1, <3>3 DEF Safe, NoRequest
  <2>7. r = "context" => ~Tool(o)
    <3>1. For(o)[1] = o BY <1>4, ForIs DEF Inv
    <3>2. r = "context" => kind[o] = "model" BY <2>1, <3>1 DEF Fits
    <3> QED BY <3>2 DEF Tool, Tools
  <2>8. call'[o] = new BY <1>9, <1>13
  <2> QED BY <1>1, <1>7, <1>10, <2>3, <2>4, <2>5, <2>6, <2>7, <2>8
      DEF CallOK, IsSafe, Active, Replied
<1>14. CallsInv'
  <2>1. ASSUME NEW j \in Jobs PROVE CallOK(j, call[j])'
    <3>1. CASE j = o /\ First.live BY <1>13, <3>1
    <3>2. CASE ~(j = o /\ First.live)
      <4>1. call'[j] = call[j] BY <1>9, <3>2
      <4> QED BY <1>3, <4>1, UnservedStay
    <3> QED BY <3>1, <3>2
  <2> QED BY <1>9, <2>1 DEF CallsInv
<1>15. ToldInv'
  <2> SUFFICES ASSUME NEW p \in Purchases, told[p] = "not paid"
               PROVE  Safe(p)' /\ At(p[1], "over")'
    BY <1>1 DEF ToldInv
  <2>1. Safe(p) /\ At(p[1], "over") /\ p[1] \in Jobs BY DEF Inv, ToldInv, Purchases
  <2>2. Safe(p)' BY <1>3, <2>1, SafeInBooks
  <2>3. call'[p[1]] = call[p[1]] BY <1>5, <1>9, <2>1 DEF At
  <2> QED BY <2>1, <2>2, <2>3 DEF At
<1> QED BY <1>11, <1>12, <1>14, <1>15 DEF Books, Inv

\* One record changes, and with it at most the payment it stands for.
LEMMA RecordKeeps ==
  ASSUME Inv, UNCHANGED inside, NEW p \in Purchases, NEW record \in Ledger,
         ledger' = [ledger EXCEPT ![p] = record], UNCHANGED paid,
         record = "working" => ~Safe(p),
         record = "paid" => paid[p] = 1,
         paid[p] = 1 => record \in {"paid", "context"},
         record = "context" => kind[p[1]] = "model"
  PROVE  Books
<1>1. /\ ledger' \in [Purchases -> Ledger] /\ ledger'[p] = record
      /\ \A q \in Purchases : q # p => ledger'[q] = ledger[q]
  BY DEF Inv, Typed
<1>2. LedgerInv' BY <1>1 DEF Inv, LedgerInv, inside
<1>3. \A q \in Purchases : Safe(q) => paid'[q] = 0 /\ ledger'[q] # "working"
  BY <1>1 DEF Safe
<1> QED BY <1>1, <1>2, <1>3 DEF Books, Inv, Typed

\* No record changes.
LEMMA SameBooks ==
  ASSUME Inv, UNCHANGED inside, UNCHANGED <<ledger, paid>> PROVE Books
BY DEF Books, Inv, Typed, LedgerInv, Safe, inside

LEMMA NothingMoved ==
  ASSUME UNCHANGED inside, UNCHANGED paid PROVE Faithful
BY DEF Faithful, inside

LEMMA TakeKeeps ==
  ASSUME Inv, Take PROVE Inv' /\ Faithful
<1> DEFINE p == First.id
<1>1. UNCHANGED inside /\ UNCHANGED paid /\ socket # <<>> BY DEF Take
<1>2. /\ 1 \in 1..Len(socket) /\ First = socket[1] BY <1>1, TailIs
<1>3. p \in Purchases /\ First.for = p BY <1>2, Queued
<1>4. /\ paid[p] \in {0, 1} /\ ledger[p] \in Ledger
      /\ paid[p] = 1 => ledger[p] \in {"paid", "context"}
      /\ ledger[p] = "paid" => paid[p] = 1
      /\ ledger[p] = "context" => kind[p[1]] = "model"
  BY <1>3 DEF Inv, Typed, LedgerInv
<1>5. ~Safe(p) BY <1>2, <1>3 DEF Safe, NoRequest
<1>6. Faithful BY <1>1, NothingMoved
<1> HIDE DEF p
<1>7. CASE ledger[p] \in {"none", "granted"} /\ ledger' = [ledger EXCEPT ![p] = "working"]
           /\ UNCHANGED <<socket, call>>
  <2>1. Books
    <3>1. "working" \in Ledger /\ paid[p] # 1 BY <1>4, <1>7 DEF Ledger
    <3> QED BY <1>1, <1>3, <1>5, <1>7, <3>1, RecordKeeps
  <2> QED BY <1>1, <1>6, <1>7, <2>1, BooksKeep
<1>8. CASE ledger[p] \in {"none", "approval"} /\ ledger' = [ledger EXCEPT ![p] = "approval"]
           /\ Reply("approval")
  <2>1. "approval" \in Ledger /\ "approval" \in Replies /\ paid[p] = 0
    BY <1>4, <1>8 DEF Ledger, Replies
  <2>2. Books
    <3>1. ledger' = [ledger EXCEPT ![p] = "approval"] /\ paid[p] # 1 BY <1>8, <2>1
    <3>2. /\ "approval" # "working" /\ "approval" # "paid" /\ "approval" # "context"
      OBVIOUS
    <3> QED BY <1>1, <1>3, <2>1, <3>1, <3>2, RecordKeeps
  <2>3. ledger'[p] = "approval" /\ paid'[p] = 0 BY <1>1, <1>3, <1>8, <2>1 DEF Inv, Typed
  <2>4. Fits(First.for, "approval") BY <1>3, <2>3 DEF Fits
  <2> QED BY <1>1, <1>6, <1>8, <2>1, <2>2, <2>4, ReplyKeeps
<1>9. ASSUME UNCHANGED ledger, NEW r \in Replies, Reply(r),
             <<ledger[p], r>> \in {<<"none", "refused">>, <<"granted", "refused">>,
               <<"declined", "declined">>, <<"working", "unknown">>, <<"paid", "paid">>,
               <<"unpaid", "refused">>, <<"context", "context">>}
      PROVE  Inv'
  <2>1. Books BY <1>1, <1>9, SameBooks
  <2>2. Fits(First.for, r) BY <1>1, <1>3, <1>4, <1>9 DEF Fits
  <2> QED BY <1>1, <1>9, <2>1, <2>2, ReplyKeeps
<1>10. \/ ledger[p] \in {"none", "granted"} /\ Work
       \/ ledger[p] \in {"none", "granted"} /\ Reply("refused") /\ UNCHANGED ledger
       \/ /\ ledger[p] \in {"none", "approval"}
          /\ ledger' = [ledger EXCEPT ![p] = "approval"] /\ Reply("approval")
       \/ ledger[p] = "declined" /\ Reply("declined") /\ UNCHANGED ledger
       \/ ledger[p] = "working"  /\ Reply("unknown") /\ UNCHANGED ledger
       \/ ledger[p] = "paid"     /\ Reply("paid") /\ UNCHANGED ledger
       \/ ledger[p] = "unpaid"   /\ Reply("refused") /\ UNCHANGED ledger
       \/ ledger[p] = "context"  /\ Reply("context") /\ UNCHANGED ledger
  BY DEF Take, Record, p
<1>11. Work => ledger' = [ledger EXCEPT ![p] = "working"] /\ UNCHANGED <<socket, call>>
  BY DEF Work, p
<1>12. {"refused", "declined", "unknown", "paid", "context"} \subseteq Replies BY DEF Replies
<1> QED BY <1>6, <1>7, <1>8, <1>9, <1>10, <1>11, <1>12

\* The seller's answer for p: its record and its payment.
LEMMA SellsKeep ==
  ASSUME Inv, UNCHANGED inside, NEW p \in Purchases, NEW result \in {"paid", "unpaid", "context"},
         Outcome(p, result), Sells(p, result)
  PROVE  /\ Books /\ Faithful
         /\ Fits(p, IF result = "unpaid" THEN "refused" ELSE result)
<1>1. /\ ledger[p] = "working" /\ ledger' = [ledger EXCEPT ![p] = result]
      /\ result = "context" => kind[p[1]] = "model"
  BY DEF Outcome
<1>2. paid[p] = 0 /\ ~Safe(p) BY <1>1 DEF Inv, Typed, LedgerInv, Safe
<1>3. /\ ledger' \in [Purchases -> Ledger] /\ ledger'[p] = result
      /\ \A q \in Purchases : q # p => ledger'[q] = ledger[q]
  BY <1>1 DEF Inv, Typed, Ledger
<1>4. \/ result \in {"paid", "context"} /\ paid' = [paid EXCEPT ![p] = 1]
      \/ result \in {"unpaid", "context"} /\ paid' = paid
  <2>1. paid[p] + 1 = 1 BY <1>2
  <2> QED BY <2>1 DEF Sells
<1>5. /\ paid' \in [Purchases -> {0, 1}]
      /\ \A q \in Purchases : q # p => paid'[q] = paid[q]
      /\ result = "paid" => paid'[p] = 1
      /\ result = "unpaid" => paid'[p] = 0
  BY <1>2, <1>4 DEF Inv, Typed
<1>6. Books
  <2>1. LedgerInv'
    <3> SUFFICES ASSUME NEW q \in Purchases
                 PROVE  /\ paid'[q] = 1 => ledger'[q] \in {"paid", "context"}
                        /\ ledger'[q] = "paid" => paid'[q] = 1
                        /\ ledger'[q] = "context" => kind'[q[1]] = "model"
      BY DEF LedgerInv
    <3>1. CASE q = p BY <1>1, <1>3, <1>5, <3>1 DEF inside
    <3>2. CASE q # p BY <1>3, <1>5, <3>2 DEF Inv, LedgerInv, inside
    <3> QED BY <3>1, <3>2
  <2>2. \A q \in Purchases : Safe(q) => paid'[q] = 0 /\ ledger'[q] # "working"
    BY <1>2, <1>3, <1>5 DEF Safe
  <2>3. \A q \in Purchases : paid[q] = 1 => paid'[q] = 1 BY <1>2, <1>5
  <2> QED BY <1>3, <1>5, <2>1, <2>2, <2>3 DEF Books
<1>7. Faithful
  <2>1. told[p] # "not paid" BY <1>2 DEF Inv, ToldInv
  <2> QED BY <1>2, <1>4, <2>1 DEF Faithful, Moves, inside
<1>8. Fits(p, IF result = "unpaid" THEN "refused" ELSE result)
  BY <1>1, <1>3, <1>5 DEF Fits
<1> QED BY <1>6, <1>7, <1>8

LEMMA SellKeeps ==
  ASSUME Inv, Sell PROVE Inv' /\ Faithful
<1>1. UNCHANGED inside /\ socket # <<>> BY DEF Sell
<1>2. PICK result \in {"paid", "unpaid", "context"} :
        /\ Outcome(First.id, result) /\ Sells(First.for, result)
        /\ Reply(IF result = "unpaid" THEN "refused" ELSE result)
  BY DEF Sell
<1>3. First.id = First.for /\ First.for \in Purchases BY <1>1, TailIs, Queued
<1>4. Outcome(First.for, result) BY <1>2, <1>3
<1>5. PICK r : r = IF result = "unpaid" THEN "refused" ELSE result OBVIOUS
<1>6. r \in Replies /\ Reply(r) BY <1>2, <1>5 DEF Replies
<1>7. Books /\ Faithful /\ Fits(First.for, r) BY <1>1, <1>2, <1>3, <1>4, <1>5, SellsKeep
<1> QED BY <1>1, <1>6, <1>7, ReplyKeeps

LEMMA SellLateKeeps ==
  ASSUME Inv, SellLate PROVE Inv' /\ Faithful
<1>1. UNCHANGED inside /\ UNCHANGED <<socket, call>> BY DEF SellLate
<1>2. PICK p \in Purchases, result \in {"paid", "unpaid", "context"} :
        Outcome(p, result) /\ Sells(p, result)
  BY DEF SellLate
<1>3. Books /\ Faithful BY <1>1, <1>2, SellsKeep
<1> QED BY <1>1, <1>3, BooksKeep

LEMMA GiveUpKeeps ==
  ASSUME Inv, GiveUp PROVE Inv' /\ Faithful
<1>1. /\ UNCHANGED inside /\ UNCHANGED <<ledger, paid>> /\ socket # <<>>
      /\ Reply("unknown") /\ "unknown" \in Replies
  BY DEF GiveUp, Replies
<1>2. Books /\ Faithful BY <1>1, SameBooks, NothingMoved
<1>3. Fits(First.for, "unknown") BY DEF Fits
<1> QED BY <1>1, <1>2, <1>3, ReplyKeeps

LEMMA DecideKeeps ==
  ASSUME Inv, Decide PROVE Inv' /\ Faithful
<1>1. UNCHANGED inside /\ UNCHANGED <<socket, call>> /\ UNCHANGED paid BY DEF Decide
<1>2. PICK p \in Purchases, answer \in {"granted", "declined"} :
        ledger[p] = "approval" /\ ledger' = [ledger EXCEPT ![p] = answer]
  BY DEF Decide
<1>3. paid[p] # 1 BY <1>2 DEF Inv, LedgerInv
<1>4. answer \in Ledger BY <1>2 DEF Ledger
<1>5. Books BY <1>1, <1>2, <1>3, <1>4, RecordKeeps
<1> QED BY <1>1, <1>5, BooksKeep, NothingMoved

-----------------------------------------------------------------------------
(***************************************************************************)
(* The whole.                                                              *)
(***************************************************************************)
LEMMA InitHolds == ASSUME Init PROVE Inv
<1>2. /\ kind \in [Jobs -> Kinds] /\ mem = Fresh /\ disk = Fresh /\ socket = <<>>
      /\ call = [j \in Jobs |-> Idle] /\ saved = [j \in Jobs |-> "none"]
      /\ told = [p \in Purchases |-> "none"] /\ ledger = [p \in Purchases |-> "none"]
      /\ paid = [p \in Purchases |-> 0]
  BY DEF Init
<1>3. /\ saved \in [Jobs -> {"none", "started", "approval"}] /\ told \in [Purchases -> Told]
      /\ ledger \in [Purchases -> Ledger] /\ paid \in [Purchases -> {0, 1}]
  BY <1>2 DEF Told, Ledger
<1>4. socket \in Seq(Post) /\ Len(socket) = 0 BY <1>2
<1>5. Typed BY <1>2, <1>3, <1>4, Retries DEF Typed
<1>6. LedgerInv BY <1>2 DEF LedgerInv
<1>7. SocketInv BY <1>4 DEF SocketInv
<1>8. \A p \in Purchases : Safe(p) BY <1>2, <1>4 DEF Safe, NoRequest
<1>9. CallsInv
  <2>1. ASSUME NEW j \in Jobs PROVE CallOK(j, call[j])
    <3>1. call[j] = Idle BY <1>2
    <3>2. ~Answered(j) BY <1>2, Retries DEF Answered, Purchases
    <3>3. Safe(<<j, 0>>) BY <1>8, Retries DEF Purchases
    <3> QED BY <3>1, <3>2, <3>3, IdleIs DEF CallOK, IsSafe, Active, Replied
  <2>2. call = [j \in Jobs |-> call[j]] BY <1>2
  <2> QED BY <2>1, <2>2 DEF CallsInv
<1>10. ToldInv BY <1>2 DEF ToldInv
<1> QED BY <1>5, <1>6, <1>7, <1>9, <1>10 DEF Inv

LEMMA NextKeeps == ASSUME Inv, [Next]_vars PROVE Inv' /\ Faithful
<1>1. ASSUME NEW j \in Jobs, Worker(j) PROVE Inv' /\ Faithful
  BY <1>1, PrepareKeeps, FreezeKeeps, StartToolKeeps, RefuseLocallyKeeps, PostItKeeps,
     UnansweredKeeps, ExpireKeeps, AnswerPaidKeeps, AnswerRefusedKeeps, AnswerUnknownKeeps,
     AnswerApprovalKeeps, AnswerContextKeeps, ThawKeeps
  DEF Worker
<1>2. ASSUME NEW j \in Jobs, Tick(j) \/ NotSent(j) \/ Lost(j) PROVE Inv' /\ Faithful
  BY <1>2, TickKeeps, NotSentKeeps, UnansweredKeeps
<1>3. CASE UNCHANGED vars
  <2>1. /\ UNCHANGED inside /\ UNCHANGED <<ledger, paid>> /\ UNCHANGED <<socket, call>>
    BY <1>3 DEF vars, inside
  <2> QED BY <2>1, SameBooks, BooksKeep, NothingMoved
<1> QED BY <1>1, <1>2, <1>3, ResumeKeeps, CrashKeeps, TakeKeeps, SellKeeps, GiveUpKeeps,
     SellLateKeeps, DecideKeeps
  DEF Next

LEMMA Holds == Spec => []Inv
<1>1. Init => Inv BY InitHolds
<1>2. Inv /\ [Next]_vars => Inv' BY NextKeeps
<1> QED BY <1>1, <1>2, PTL DEF Spec

\* docs/worker.md:21, of every run of model calls, paid calls and moves of funds: with
\* answers lost, late or refused, with approvals, pauses, crashes and calls cut off by
\* their deadline, a purchase is paid at most once, and a result says "paid" or "not
\* paid" only if that is so and stays so.
THEOREM PurchasesArePaidOnce == Spec => PaysOnce
<1>1. Init => Once!Init BY DEF Init, Once!Init, ToldOf
<1>2. Inv /\ [Next]_vars => [Once!Next]_<<paid, ToldOf>>
  <2> SUFFICES ASSUME Inv, [Next]_vars PROVE [Once!Next]_<<paid, ToldOf>>
    OBVIOUS
  <2>1. CASE paid' = paid /\ told' = told BY <2>1 DEF ToldOf
  <2>2. ASSUME NEW p \in Purchases, Moves(p) PROVE Once!Move(p)
    <3>1. ToldOf' = ToldOf /\ ToldOf[p] # "not paid" BY <2>2 DEF Moves, ToldOf
    <3> QED BY <2>2, <3>1 DEF Moves, Once!Move
  <2>3. ASSUME NEW p \in Purchases, NEW what \in Claims, Tells(p, what) PROVE Once!Tell(p)
    <3> DEFINE said == IF what = "nothing charged" THEN "no claim" ELSE what
    <3>1. ToldOf[p] = "none" /\ paid[p] \in {0, 1} BY <2>3 DEF ToldOf, Tells, Inv, Typed
    <3>2. ToldOf' = [ToldOf EXCEPT ![p] = said] BY <2>3 DEF ToldOf, Tells, Inv, Typed
    <3>3. said \in {"paid", "not paid", "no claim"} BY DEF Claims, Told
    <3>4. said = "paid" => paid[p] = 1 BY <2>3 DEF Tells
    <3>5. said = "not paid" => paid[p] = 0 BY <2>3 DEF Tells
    <3>6. paid' = paid BY <2>3 DEF Tells
    <3> HIDE DEF said
    <3> QED BY <3>1, <3>2, <3>3, <3>4, <3>5, <3>6 DEF Once!Tell
  <2>4. Faithful BY NextKeeps
  <2> QED BY <2>1, <2>2, <2>3, <2>4 DEF Faithful, Once!Next
<1> QED BY <1>1, <1>2, Holds, PTL DEF Spec, PaysOnce, Once!Spec

-----------------------------------------------------------------------------
(***************************************************************************)
(* One identity, one request.  The request in memory and the frozen one    *)
(* differ only while a request is prepared or compacted, and what was      *)
(* asked already is the frozen request or an earlier attempt.              *)
(***************************************************************************)
Asked(p) == sent[p] # {}

SentInv ==
  /\ job \in Nat /\ sent \in [Purchases -> SUBSET Bodies]
  /\ \A p \in Purchases : Asked(p) => ~Tool(p[1]) /\ p[1] <= job
  /\ \A p \in Purchases : \A a, b \in sent[p] : a = b

\* What was asked is the frozen request, or an earlier attempt at it.
Replayable(p) ==
  /\ p[2] <= disk.retry
  /\ p[2] = disk.retry => disk.prepared /\ sent[p] \subseteq {disk.body}

\* How the request in memory stands to the frozen one while the job is at pc.
Stage(pc) ==
  /\ pc \notin {"freeze", "thaw"} => mem = disk
  /\ pc = "freeze" => /\ mem.prepared /\ mem.retry = disk.retry
                      /\ disk.prepared => mem.body = disk.body
  /\ pc = "thaw" => mem.retry > disk.retry
  /\ pc \in {"ready", "posted", "replied"} /\ ~Tool(job) => mem.prepared

FrozenInv ==
  run # "ended" =>
    /\ \A p \in Purchases : p[1] = job /\ Asked(p) => Replayable(p)
    /\ job \in Jobs => Stage(call[job].pc)

BodyInv == SentInv /\ FrozenInv

\* Of the purchases nothing changes but the run, which does not come back from its end.
LEMMA StaysFrozen ==
  ASSUME BodyInv, UNCHANGED <<kind, sent, job, mem, disk>>,
         run' # "ended" => run # "ended",
         run' # "ended" /\ run # "ended" /\ job \in Jobs => Stage(call'[job].pc)
  PROVE  BodyInv'
<1>1. SentInv' BY DEF BodyInv, SentInv, Asked, Tool
<1>2. FrozenInv'
  <2> SUFFICES ASSUME run' # "ended"
               PROVE  /\ \A p \in Purchases : p[1] = job' /\ Asked(p)' => Replayable(p)'
                      /\ job' \in Jobs => Stage(call[job].pc)'
    BY DEF FrozenInv
  <2>1. run # "ended" OBVIOUS
  <2>2. \A p \in Purchases : p[1] = job' /\ Asked(p)' => Replayable(p)'
    BY <2>1 DEF BodyInv, FrozenInv, Asked, Replayable
  <2>3. job' \in Jobs => Stage(call[job].pc)' BY <2>1 DEF Stage, Tool
  <2> QED BY <2>2, <2>3
<1> QED BY <1>1, <1>2 DEF BodyInv

\* One call moves, to where its request stands as it did.
LEMMA OneMoves ==
  ASSUME Inv, BodyInv, NEW j \in Jobs, NEW new, call' = [call EXCEPT ![j] = new],
         UNCHANGED <<kind, sent, job, mem, disk>>, run' # "ended" => run # "ended",
         j = job /\ Stage(call[j].pc) => Stage(new.pc)
  PROVE  BodyInv'
<1>1. \A o \in Jobs : call'[o] = IF o = j THEN new ELSE call[o] BY DEF Inv, CallsInv
<1>2. run # "ended" /\ job \in Jobs => Stage(call[job].pc) BY DEF BodyInv, FrozenInv
<1>3. run # "ended" /\ job \in Jobs => Stage(call'[job].pc)
  <2>1. CASE j = job BY <1>1, <1>2, <2>1
  <2>2. CASE j # job BY <1>1, <1>2, <2>2
  <2> QED BY <2>1, <2>2
<1> QED BY <1>3, StaysFrozen

\* Where memory and checkpoint agree and no model call is under way.
LEMMA AtRest ==
  ASSUME NEW pc \in {"todo", "over"}, mem = disk PROVE Stage(pc)
BY DEF Stage

\* The run goes on to its next job, of which nothing was asked yet.
LEMMA GoesOn ==
  ASSUME Inv, BodyInv, NEW j \in Jobs, Listening(j), Next1(j), UNCHANGED <<kind, sent>>,
         \A o \in Jobs : o # j => call'[o] = call[o]
  PROVE  BodyInv'
<1>1. j = job /\ run = "running" /\ mem' = Fresh /\ disk' = Fresh
  BY DEF Listening, Current, Next1
<1>2. CASE run' = "ended" /\ job' = job
  BY <1>2 DEF BodyInv, SentInv, FrozenInv, Asked, Tool
<1>3. CASE j + 1 \in Jobs /\ job' = j + 1
  <2>1. job \in Nat /\ job' \in Nat /\ j + 1 # j BY <1>1, <1>3 DEF BodyInv, SentInv
  <2>2. \A p \in Purchases : p[1] \in Nat
    <3>1. \A p \in Purchases : p[1] \in Jobs BY DEF Purchases
    <3> QED BY <3>1
  <2>3. SentInv' BY <1>1, <1>3, <2>1, <2>2 DEF BodyInv, SentInv, Asked, Tool
  <2>4. \A p \in Purchases : ~(p[1] = job' /\ Asked(p)')
    BY <1>1, <1>3, <2>1, <2>2 DEF BodyInv, SentInv, Asked
  <2>5. CallOK(j + 1, call[j + 1]) /\ call'[j + 1] = call[j + 1] BY <1>3, <2>1, CallIs
  <2>6. Active(call[j + 1]) => Tool(j + 1)
    BY <1>1, <1>3, <2>1, OneModel DEF Listening, Current
  <2>7. Stage(call[job].pc)'
    <3>1. Tool(j + 1) => call[j + 1].pc \notin {"freeze", "thaw"} BY <2>5 DEF CallOK
    <3>2. (job + 0)' = j + 1 BY <1>3
    <3> QED BY <1>1, <1>3, <2>5, <2>6, <3>1 DEF Stage, Active, Tool
  <2> QED BY <2>3, <2>4, <2>7 DEF BodyInv, FrozenInv
<1> QED BY <1>2, <1>3 DEF Next1

Calm(j) == ~At(j, "freeze") /\ ~At(j, "thaw")

LEMMA CalmRests ==
  ASSUME NEW j, Calm(j), Stage(call[j].pc), NEW pc \in {"todo", "over"} PROVE Stage(pc)
BY DEF Stage, Calm, At

LEMMA TellLeaves ==
  ASSUME Inv, BodyInv, NEW j \in Jobs, NEW what, Tell(j, what), Calm(j), UNCHANGED <<kind, sent>>
  PROVE  BodyInv'
<1>1. call' = [call EXCEPT ![j] = Over] BY DEF Tell, Become
<1>2. CASE Listening(j)
  <2>1. \A o \in Jobs : o # j => call'[o] = call[o] BY <1>1 DEF Inv, CallsInv
  <2> QED BY <1>2, <2>1, GoesOn DEF Tell
<1>3. CASE ~Listening(j)
  <2>1. UNCHANGED <<kind, sent, job, mem, disk>> /\ run' = run BY <1>3 DEF Tell
  <2>2. Stage(call[j].pc) => Stage(Over.pc) BY CalmRests, IdleIs
  <2> QED BY <1>1, <2>1, <2>2, OneMoves
<1> QED BY <1>2, <1>3

LEMMA EndRunLeaves ==
  ASSUME Inv, BodyInv, NEW j \in Jobs, NEW what, EndRun(j, what), Calm(j), UNCHANGED <<kind, sent>>
  PROVE  BodyInv'
<1>1. call' = [call EXCEPT ![j] = Over] /\ UNCHANGED <<kind, sent, job, mem, disk>>
      /\ (run' # "ended" => run # "ended")
  BY DEF EndRun, Become
<1>2. Stage(call[j].pc) => Stage(Over.pc) BY CalmRests, IdleIs
<1> QED BY <1>1, <1>2, OneMoves

LEMMA PauseLeaves ==
  ASSUME Inv, BodyInv, NEW j \in Jobs, NEW cause, Pause(j, cause), Calm(j), UNCHANGED <<kind, sent>>
  PROVE  BodyInv'
<1>1. PICK new \in {Idle, Over} : call' = [call EXCEPT ![j] = new] BY DEF Pause, Become
<1>2. UNCHANGED <<kind, sent, job, mem, disk>> /\ (run' # "ended" => run # "ended")
  BY DEF Pause, Listening, Current
<1>3. Stage(call[j].pc) => Stage(new.pc) BY <1>1, CalmRests, IdleIs
<1> QED BY <1>1, <1>2, <1>3, OneMoves

\* A call goes from one stage to another, and memory and checkpoint stay.
LEMMA GotoLeaves ==
  ASSUME Inv, BodyInv, NEW j \in Jobs, NEW pc \in PCs, Goto(j, pc),
         UNCHANGED <<kind, sent, run, job, mem, disk>>,
         j = job /\ Stage(call[j].pc) => Stage(pc)
  PROVE  BodyInv'
<1> DEFINE new == [It(j) EXCEPT !.pc = pc, !.reply = "none", !.since = 0]
<1>1. call' = [call EXCEPT ![j] = new] /\ new.pc = pc BY GotoIs
<1> HIDE DEF new
<1> QED BY <1>1, OneMoves

-----------------------------------------------------------------------------
(***************************************************************************)
(* The steps.                                                              *)
(***************************************************************************)
\* The call of the job the run is at, where that is a model call.
LEMMA ModelIsCurrent ==
  ASSUME Inv, BodyInv, NEW j \in Jobs, ~Tool(j), Active(call[j])
  PROVE  j = job /\ run = "running" /\ Stage(call[j].pc)
BY OneModel DEF BodyInv, FrozenInv

LEMMA CalmStages ==
  ASSUME NEW pc \in PCs \ {"freeze", "thaw", "ready", "posted", "replied"}, mem = disk
  PROVE  Stage(pc)
BY DEF Stage

LEMMA PrepareLeaves ==
  ASSUME Inv, BodyInv, NEW j \in Jobs, Prepare(j) PROVE BodyInv'
<1> DEFINE new == [It(j) EXCEPT !.pc = "freeze", !.reply = "none", !.since = 0]
<1>1. /\ j = job /\ run = "running" /\ ~Tool(j) /\ At(j, "todo")
      /\ UNCHANGED <<kind, run, job, disk, sent>> /\ Goto(j, "freeze") /\ Prepares(j)
  BY DEF Prepare, Current
<1>2. mem = disk BY <1>1 DEF BodyInv, FrozenInv, Stage, At
<1>3. mem \in Request BY DEF Inv, Typed
<1>4. mem'.prepared /\ mem'.retry = mem.retry /\ (mem.prepared => mem' = mem)
  BY <1>1, <1>3 DEF Prepares, Request
<1>5. "freeze" \in PCs /\ Goto(j, "freeze") BY <1>1 DEF PCs
<1>6. call' = [call EXCEPT ![j] = new] /\ new.pc = "freeze" BY <1>5, GotoIs
<1> HIDE DEF new
<1>7. call'[j].pc = "freeze" BY <1>6 DEF Inv, CallsInv
<1>8. SentInv' BY <1>1 DEF BodyInv, SentInv, Asked, Tool
<1>9. \A p \in Purchases : p[1] = job' /\ Asked(p)' => Replayable(p)'
  BY <1>1 DEF BodyInv, FrozenInv, Asked, Replayable
<1>10. Stage(call[job].pc)' BY <1>1, <1>2, <1>4, <1>7 DEF Stage
<1> QED BY <1>8, <1>9, <1>10 DEF BodyInv, FrozenInv

LEMMA FreezeLeaves ==
  ASSUME Inv, BodyInv, NEW j \in Jobs, Freeze(j) PROVE BodyInv'
<1> DEFINE new == [It(j) EXCEPT !.pc = "ready", !.reply = "none", !.since = 0]
<1>1. /\ j = job /\ run = "running" /\ At(j, "freeze") /\ disk' = mem
      /\ UNCHANGED <<kind, run, job, mem, sent>> /\ Goto(j, "ready")
  BY DEF Freeze, Current
<1>2. /\ mem.prepared /\ mem.retry = disk.retry /\ (disk.prepared => mem.body = disk.body)
  BY <1>1 DEF BodyInv, FrozenInv, Stage, At
<1>3. "ready" \in PCs /\ Goto(j, "ready") BY <1>1 DEF PCs
<1>4. call' = [call EXCEPT ![j] = new] /\ new.pc = "ready" BY <1>3, GotoIs
<1> HIDE DEF new
<1>5. call'[j].pc = "ready" BY <1>4 DEF Inv, CallsInv
<1>6. SentInv' BY <1>1 DEF BodyInv, SentInv, Asked, Tool
<1>7. \A p \in Purchases : p[1] = job' /\ Asked(p)' => Replayable(p)'
  BY <1>1, <1>2 DEF BodyInv, FrozenInv, Asked, Replayable
<1>8. Stage(call[job].pc)' BY <1>1, <1>2, <1>5 DEF Stage
<1> QED BY <1>6, <1>7, <1>8 DEF BodyInv, FrozenInv

LEMMA ThawLeaves ==
  ASSUME Inv, BodyInv, NEW j \in Jobs, Thaw(j) PROVE BodyInv'
<1>1. /\ j = job /\ run = "running" /\ At(j, "thaw") /\ disk' = mem
      /\ UNCHANGED <<kind, run, job, mem, sent>> /\ call' = [call EXCEPT ![j] = Idle]
  BY DEF Thaw, Current, Become
<1>2. mem.retry > disk.retry BY <1>1 DEF BodyInv, FrozenInv, Stage, At
<1>3. mem.retry \in Nat /\ disk.retry \in Nat BY DEF Inv, Typed, Request
<1>4. \A p \in Purchases : p[2] \in Nat
  <2>1. \A p \in Purchases : p[2] \in 0..MaxRetry BY DEF Purchases
  <2> QED BY <2>1
<1>5. call'[j].pc = "todo" BY <1>1, IdleIs DEF Inv, CallsInv
<1>6. SentInv' BY <1>1 DEF BodyInv, SentInv, Asked, Tool
<1>7. \A p \in Purchases : p[1] = job' /\ Asked(p)' => Replayable(p)'
  <2> SUFFICES ASSUME NEW p \in Purchases, p[1] = job', Asked(p)' PROVE Replayable(p)'
    OBVIOUS
  <2>1. p[2] <= disk.retry BY <1>1 DEF BodyInv, FrozenInv, Asked, Replayable
  <2>2. p[2] < mem.retry BY <1>2, <1>3, <1>4, <2>1
  <2> QED BY <1>1, <1>3, <1>4, <2>2 DEF Replayable
<1>8. Stage(call[job].pc)' BY <1>1, <1>5 DEF Stage
<1> QED BY <1>6, <1>7, <1>8 DEF BodyInv, FrozenInv

\* The request that leaves is the frozen one; if one left before under its identity, it
\* was the same.
LEMMA PostItLeaves ==
  ASSUME Inv, BodyInv, NEW j \in Jobs, PostIt(j) PROVE BodyInv'
<1> DEFINE new == [It(j) EXCEPT !.pc = "posted", !.n = @ + 1, !.since = 0]
<1>1. /\ call[j].pc \in {"ready", "again"} /\ call' = [call EXCEPT ![j] = new]
      /\ UNCHANGED <<kind, run, job, mem, disk>>
      /\ Tool(j) => sent' = sent
      /\ ~Tool(j) => sent' = [sent EXCEPT ![For(j)] = @ \cup {mem.body}]
  BY DEF PostIt, Become, At
<1>2. new.pc = "posted" BY CallIs DEF ACall, It
<1> HIDE DEF new
<1>3. CASE Tool(j)
  <2>1. j = job /\ Stage(call[j].pc) => Stage(new.pc) BY <1>1, <1>2, <1>3 DEF Stage
  <2> QED BY <1>1, <1>3, <2>1, OneMoves
<1>4. CASE ~Tool(j)
  <2>1. /\ j = job /\ run = "running" /\ Stage(call[j].pc) /\ call[j].pc = "ready"
    BY <1>1, <1>4, CallIs, ModelIsCurrent DEF CallOK, Active
  <2>2. mem = disk /\ mem.prepared BY <1>4, <2>1 DEF Stage
  <2>3. For(j) \in Purchases /\ For(j) = <<j, mem.retry>> BY <1>4, ForIs DEF Inv
  <2>4. mem.body \in Bodies /\ disk.retry \in Nat BY DEF Inv, Typed, Request
  <2>5. sent[For(j)] \subseteq {mem.body} /\ sent \in [Purchases -> SUBSET Bodies]
    <3>1. CASE Asked(For(j))
      BY <2>1, <2>2, <2>3, <3>1 DEF BodyInv, SentInv, FrozenInv, Replayable
    <3>2. CASE ~Asked(For(j)) BY <3>2 DEF Asked, BodyInv, SentInv
    <3> QED BY <3>1, <3>2 DEF BodyInv, SentInv
  <2>6. /\ sent'[For(j)] = {mem.body} /\ \A p \in Purchases \ {For(j)} : sent'[p] = sent[p]
        /\ sent' \in [Purchases -> SUBSET Bodies]
    BY <1>1, <1>4, <2>3, <2>4, <2>5
  <2>7. SentInv'
    <3>1. job' \in Nat BY <1>1 DEF BodyInv, SentInv
    <3>2. ASSUME NEW p \in Purchases, Asked(p)' PROVE ~Tool(p[1])' /\ p[1] <= job'
      <4>1. CASE p = For(j) BY <1>1, <1>4, <2>1, <2>3, <3>1, <4>1 DEF Tool
      <4>2. CASE p # For(j) BY <1>1, <2>6, <3>2, <4>2 DEF BodyInv, SentInv, Asked, Tool
      <4> QED BY <4>1, <4>2
    <3>3. ASSUME NEW p \in Purchases, NEW a \in sent'[p], NEW b \in sent'[p] PROVE a = b
      <4>1. CASE p = For(j) BY <2>6, <3>3, <4>1
      <4>2. CASE p # For(j) BY <2>6, <3>3, <4>2 DEF BodyInv, SentInv
      <4> QED BY <4>1, <4>2
    <3> QED BY <2>6, <3>1, <3>2, <3>3 DEF SentInv
  <2>8. ASSUME NEW p \in Purchases, p[1] = job', Asked(p)' PROVE Replayable(p)'
    <3>1. CASE p = For(j) BY <1>1, <2>2, <2>3, <2>4, <2>6, <3>1 DEF Replayable
    <3>2. CASE p # For(j)
      <4>1. Replayable(p) BY <1>1, <2>1, <2>6, <2>8, <3>2 DEF BodyInv, FrozenInv, Asked
      <4> QED BY <1>1, <2>6, <3>2, <4>1 DEF Replayable
    <3> QED BY <3>1, <3>2
  <2>9. call'[j].pc = "posted" BY <1>1, <1>2 DEF Inv, CallsInv
  <2>10. Stage(call[job].pc)' BY <1>1, <2>1, <2>2, <2>9 DEF Stage
  <2> QED BY <2>7, <2>8, <2>10 DEF BodyInv, FrozenInv
<1> QED BY <1>3, <1>4

LEMMA TickLeaves ==
  ASSUME Inv, BodyInv, NEW j \in Jobs, Tick(j) PROVE BodyInv'
<1>1. PICK new : /\ new = [It(j) EXCEPT !.since = @ + 1,
                                        !.elapsed = @ + (IF Listening(j) THEN 1 ELSE 0)]
                 /\ call' = [call EXCEPT ![j] = new]
  BY DEF Tick, Become
<1>2. new.pc = call[j].pc BY <1>1, CallIs DEF ACall, It
<1>3. UNCHANGED <<kind, sent, run, job, mem, disk>> BY DEF Tick
<1> QED BY <1>1, <1>2, <1>3, OneMoves

LEMMA ExpireLeaves ==
  ASSUME Inv, BodyInv, NEW j \in Jobs, Expire(j) PROVE BodyInv'
BY GoesOn DEF Expire, DeadlineDue

\* What a tool does next, or a call that has its answer.
LEMMA ToolLeaves ==
  ASSUME Inv, BodyInv, NEW j \in Jobs, NEW pc \in {"again", "follow", "pausing"}, Calm(j),
         Goto(j, pc), UNCHANGED <<kind, sent, run, job, wait, mem, disk, saved, told>>
  PROVE  BodyInv'
<1>1. pc \in PCs BY DEF PCs
<1>2. Stage(call[j].pc) => Stage(pc) BY DEF Stage, Calm, At
<1> QED BY <1>1, <1>2, GotoLeaves

LEMMA StartToolLeaves ==
  ASSUME Inv, BodyInv, NEW j \in Jobs, StartTool(j) PROVE BodyInv'
<1>1. Tool(j) /\ Calm(j) /\ UNCHANGED <<kind, sent>> BY DEF StartTool, Calm, At
<1>2. CASE EndRun(j, "no claim") BY <1>1, <1>2, EndRunLeaves
<1>3. CASE ~EndRun(j, "no claim")
  <2>1. PICK new : new = [Idle EXCEPT !.pc = "ready"] OBVIOUS
  <2>2. call' = [call EXCEPT ![j] = new] /\ UNCHANGED <<run, job, wait, mem, disk, told>>
    BY <1>3, <2>1 DEF StartTool, Become
  <2>3. new.pc = "ready" BY <2>1 DEF Idle
  <2>4. j = job /\ Stage(call[j].pc) => Stage(new.pc) BY <1>1, <2>3 DEF Stage, Calm, At
  <2> QED BY <1>1, <2>2, <2>4, OneMoves
<1> QED BY <1>2, <1>3

LEMMA NotSentLeaves ==
  ASSUME Inv, BodyInv, NEW j \in Jobs, NotSent(j) PROVE BodyInv'
<1>1. Calm(j) /\ UNCHANGED <<kind, sent>> BY DEF NotSent, Calm, At
<1>2. CASE Tell(j, "no claim") BY <1>1, <1>2, TellLeaves
<1>3. CASE Pause(j, "reconcile") BY <1>1, <1>3, PauseLeaves
<1>4. CASE Goto(j, "again") /\ UNCHANGED <<run, job, wait, mem, disk, saved, told>>
  BY <1>1, <1>4, ToolLeaves
<1> QED BY <1>2, <1>3, <1>4 DEF NotSent

LEMMA UnansweredLeaves ==
  ASSUME Inv, BodyInv, NEW j \in Jobs, Timeout(j) \/ Lost(j) PROVE BodyInv'
<1>1. Calm(j) /\ UNCHANGED <<kind, sent>> /\ GivesUp(j) /\ At(j, "posted")
  BY DEF Timeout, Lost, Calm, At
<1>2. \/ Pause(j, "reconcile") \/ Tell(j, "no claim")
      \/ Goto(j, "again") /\ UNCHANGED <<run, job, wait, mem, disk, saved, told>>
  BY <1>1, KindsOf, CallIs DEF GivesUp, Inv, CallOK, It, At
<1> QED BY <1>1, <1>2, PauseLeaves, TellLeaves, ToolLeaves

LEMMA AnswersLeave ==
  ASSUME Inv, BodyInv, NEW j \in Jobs,
         \/ AnswerPaid(j) \/ Followed(j) \/ AnswerRefused(j) \/ AnswerUnknown(j)
         \/ AnswerApproval(j) \/ Paused(j) \/ RefuseLocally(j)
  PROVE  BodyInv'
<1>1. Calm(j) /\ UNCHANGED <<kind, sent>>
  BY DEF AnswerPaid, Followed, AnswerRefused, AnswerUnknown, AnswerApproval, Paused,
         RefuseLocally, Said, Calm, At
<1>2. \/ \E what \in Claims : Tell(j, what) \/ EndRun(j, what)
      \/ \E cause \in {"reconcile", "approval"} : Pause(j, cause)
      \/ \E pc \in {"again", "follow", "pausing"} :
           Goto(j, pc) /\ UNCHANGED <<run, job, wait, mem, disk, saved, told>>
  BY DEF AnswerPaid, Followed, AnswerRefused, AnswerUnknown, AnswerApproval, Paused,
         RefuseLocally, Claims, Told
<1> QED BY <1>1, <1>2, TellLeaves, EndRunLeaves, PauseLeaves, ToolLeaves

LEMMA AnswerContextLeaves ==
  ASSUME Inv, BodyInv, NEW j \in Jobs, AnswerContext(j) PROVE BodyInv'
<1>1. Calm(j) /\ UNCHANGED <<kind, sent>> /\ Replied(call[j], {"context"})
  BY DEF AnswerContext, Said, Calm, At, Replied, It
<1>2. CASE EndRun(j, "no claim") BY <1>1, <1>2, EndRunLeaves
<1>3. CASE /\ mem' = [mem EXCEPT !.retry = @ + 1, !.prepared = FALSE, !.body = 0]
           /\ Goto(j, "thaw") /\ UNCHANGED <<run, job, wait, disk, saved, told>>
  <2> DEFINE new == [It(j) EXCEPT !.pc = "thaw", !.reply = "none", !.since = 0]
  <2>1. ~Tool(j) /\ Active(call[j]) /\ call[j].pc = "replied"
    BY <1>1, CallIs DEF CallOK, Replied, Active
  <2>2. j = job /\ run = "running" /\ Stage(call[j].pc) BY <2>1, ModelIsCurrent
  <2>3. mem = disk /\ mem \in Request BY <2>1, <2>2 DEF Stage, Inv, Typed
  <2>4. mem'.retry > disk.retry BY <1>3, <2>3 DEF Request
  <2>5. "thaw" \in PCs /\ Goto(j, "thaw") BY <1>3 DEF PCs
  <2>6. call' = [call EXCEPT ![j] = new] /\ new.pc = "thaw" BY <2>5, GotoIs
  <2> HIDE DEF new
  <2>7. call'[j].pc = "thaw" BY <2>6 DEF Inv, CallsInv
  <2>8. SentInv' BY <1>1, <1>3 DEF BodyInv, SentInv, Asked, Tool
  <2>9. \A p \in Purchases : p[1] = job' /\ Asked(p)' => Replayable(p)'
    BY <1>1, <1>3, <2>2 DEF BodyInv, FrozenInv, Asked, Replayable
  <2>10. Stage(call[job].pc)' BY <1>3, <2>2, <2>4, <2>7 DEF Stage
  <2> QED BY <2>8, <2>9, <2>10 DEF BodyInv, FrozenInv
<1> QED BY <1>2, <1>3 DEF AnswerContext

\* The run is read from its checkpoint.
LEMMA ResumeLeaves ==
  ASSUME Inv, BodyInv, Resume PROVE BodyInv'
<1>1. /\ run = "waiting" /\ mem' = disk /\ UNCHANGED <<kind, job, call, disk, sent>>
  BY DEF Resume
<1>2. job \in Jobs => mem = disk
  <2>1. ASSUME job \in Jobs PROVE call[job].pc \notin {"freeze", "thaw"}
    <3>1. Active(call[job]) => Tool(job) BY <1>1, <2>1, OneModel
    <3> QED BY <2>1, <3>1, CallIs DEF CallOK, Active
  <2> QED BY <1>1, <2>1 DEF BodyInv, FrozenInv, Stage
<1>3. SentInv' BY <1>1 DEF BodyInv, SentInv, Asked, Tool
<1>4. \A p \in Purchases : p[1] = job' /\ Asked(p)' => Replayable(p)'
  BY <1>1 DEF BodyInv, FrozenInv, Asked, Replayable
<1>5. job' \in Jobs => Stage(call[job].pc)'
  BY <1>1, <1>2 DEF BodyInv, FrozenInv, Stage, Tool
<1> QED BY <1>3, <1>4, <1>5 DEF BodyInv, FrozenInv

LEMMA CrashLeaves ==
  ASSUME Inv, BodyInv, Crash PROVE BodyInv'
<1>1. /\ run # "ended" /\ mem' = disk /\ UNCHANGED <<kind, run, job, disk, sent>>
      /\ call' = [j \in Jobs |-> IF Answered(j) THEN Over ELSE Idle]
  BY DEF Crash
<1>2. SentInv' BY <1>1 DEF BodyInv, SentInv, Asked, Tool
<1>3. \A p \in Purchases : p[1] = job' /\ Asked(p)' => Replayable(p)'
  BY <1>1 DEF BodyInv, FrozenInv, Asked, Replayable
<1>4. job' \in Jobs => call'[job'].pc \in {"todo", "over"} BY <1>1, IdleIs
<1>5. job' \in Jobs => Stage(call[job].pc)' BY <1>1, <1>4 DEF Stage
<1> QED BY <1>2, <1>3, <1>5 DEF BodyInv, FrozenInv

\* An answer arrives for a request that is waited for, or for nobody.
LEMMA ReplyLeaves ==
  ASSUME Inv, BodyInv, NEW r, Reply(r), UNCHANGED inside, socket # <<>> PROVE BodyInv'
<1>1. UNCHANGED <<kind, sent, run, job, mem, disk>> BY DEF inside
<1>2. CASE ~First.live
  <2>1. call' = call BY <1>2 DEF Reply
  <2> QED BY <1>1, <2>1, StaysFrozen DEF BodyInv, FrozenInv
<1>3. CASE First.live
  <2>1. PICK o : o = First.for[1] OBVIOUS
  <2>2. PICK new : new = [It(o) EXCEPT !.pc = "replied", !.reply = r] OBVIOUS
  <2>3. 1 \in 1..Len(socket) /\ First = socket[1] BY DEF First, Inv, Typed
  <2>4. o \in Jobs /\ At(o, "posted") BY <1>3, <2>1, <2>3, LiveIs
  <2>5. call' = [call EXCEPT ![o] = new] BY <1>3, <2>1, <2>2 DEF Reply, Become
  <2>6. new.pc = "replied" BY <2>2, <2>4, CallIs DEF ACall, It
  <2>7. o = job /\ Stage(call[o].pc) => Stage(new.pc) BY <2>4, <2>6 DEF Stage, At
  <2> QED BY <1>1, <2>4, <2>5, <2>7, OneMoves
<1> QED BY <1>2, <1>3

LEMMA OutsideLeaves ==
  ASSUME Inv, BodyInv, Take \/ Sell \/ GiveUp \/ SellLate \/ Decide PROVE BodyInv'
<1>1. UNCHANGED inside BY DEF Take, Sell, GiveUp, SellLate, Decide
<1>2. \/ call' = call
      \/ socket # <<>> /\ \E r : Reply(r)
  BY DEF Take, Sell, GiveUp, SellLate, Decide, Work
<1>3. CASE call' = call
  <2>1. UNCHANGED <<kind, sent, run, job, mem, disk>> BY <1>1 DEF inside
  <2> QED BY <1>3, <2>1, StaysFrozen DEF BodyInv, FrozenInv
<1> QED BY <1>1, <1>2, <1>3, ReplyLeaves

LEMMA NextLeaves == ASSUME Inv, BodyInv, [Next]_vars PROVE BodyInv'
<1>1. ASSUME NEW j \in Jobs, Worker(j) PROVE BodyInv'
  BY <1>1, PrepareLeaves, FreezeLeaves, StartToolLeaves, PostItLeaves, UnansweredLeaves,
     ExpireLeaves, AnswersLeave, AnswerContextLeaves, ThawLeaves
  DEF Worker
<1>2. ASSUME NEW j \in Jobs, Tick(j) \/ NotSent(j) \/ Lost(j) PROVE BodyInv'
  BY <1>2, TickLeaves, NotSentLeaves, UnansweredLeaves
<1>3. CASE UNCHANGED vars
  <2>1. UNCHANGED <<kind, sent, run, job, mem, disk, call>> BY <1>3 DEF vars
  <2> QED BY <2>1, StaysFrozen DEF BodyInv, FrozenInv
<1> QED BY <1>1, <1>2, <1>3, ResumeLeaves, CrashLeaves, OutsideLeaves DEF Next

LEMMA BodyInitially == ASSUME Init PROVE BodyInv
<1>1. /\ kind \in [Jobs -> Kinds] /\ job = 1 /\ mem = Fresh /\ disk = Fresh
      /\ call = [j \in Jobs |-> Idle] /\ sent = [p \in Purchases |-> {}]
  BY DEF Init
<1>2. SentInv BY <1>1 DEF SentInv, Asked
<1>3. job \in Jobs => Stage(call[job].pc) BY <1>1, IdleIs DEF Stage
<1> QED BY <1>1, <1>2, <1>3 DEF BodyInv, FrozenInv, Asked

\* context.ts:8, "an interrupted/paused request must be replayed byte-for-byte": whatever
\* is lost, compacted, paused or resumed and wherever the worker dies, all requests of a
\* model call that carry one identity are the same request.
THEOREM RequestsAreReplayed == Spec => []OneBodyPerIdentity
<1>1. BodyInv => OneBodyPerIdentity
  <2> SUFFICES ASSUME BodyInv, NEW p \in Purchases PROVE Cardinality(sent[p]) <= 1
    BY DEF OneBodyPerIdentity
  <2>1. \A a, b \in sent[p] : a = b BY DEF BodyInv, SentInv
  <2>2. CASE sent[p] = {} BY <2>2, FS_EmptySet
  <2>3. CASE sent[p] # {}
    <3>1. PICK a \in sent[p] : TRUE BY <2>3
    <3>2. sent[p] = {a} BY <2>1, <3>1
    <3>3. Cardinality({a}) = 1 BY FS_Singleton
    <3> QED BY <3>2, <3>3
  <2> QED BY <2>2, <2>3
<1>2. Init => Inv /\ BodyInv BY InitHolds, BodyInitially
<1>3. Inv /\ BodyInv /\ [Next]_vars => Inv' /\ BodyInv' BY NextKeeps, NextLeaves
<1> QED BY <1>1, <1>2, <1>3, PTL DEF Spec

-----------------------------------------------------------------------------
(***************************************************************************)
(* A run that waits.                                                       *)
(***************************************************************************)
\* What the gateway says of a purchase that went to the owner.
ByOwner == {"approval", "granted", "declined"}
ToOwner(c) == Replied(c, {"approval"}) \/ c.pc = "pausing"

OwnerInv == \A j \in Jobs : ToOwner(call[j]) => ledger[For(j)] \in ByOwner

WaitInv ==
  run = "waiting" =>
    /\ job \in Jobs /\ job = wait.for[1] /\ ~Answered(job) /\ ~Active(call[job])
    /\ wait.cause # "none" /\ wait.for \in Purchases
    /\ wait.cause = "approval" => ledger[wait.for] \in ByOwner /\ NoRequest(wait.for)

PauseInv == OwnerInv /\ WaitInv

\* What a step of the worker does for j: no request for another job joins the queue, and
\* who is told to wait was told before.
Leads(j, new) ==
  /\ call' = [call EXCEPT ![j] = new] /\ UNCHANGED <<kind, ledger>>
  /\ Active(call[j]) \/ Current(j)
  /\ ToOwner(new) => ToOwner(call[j]) /\ mem' = mem
  /\ Current(j) \/ mem' = mem
  /\ \A p \in Purchases : p[1] # j /\ NoRequest(p) => NoRequest(p)'

\* How a run comes to wait.
Stops(j) ==
  \E cause \in {"reconcile", "approval"} :
    /\ Pause(j, cause) /\ Listening(j)
    /\ cause = "approval" => ToOwner(call[j]) /\ UNCHANGED socket
GoesWaiting(j) ==
  \/ run' # "waiting"
  \/ run = "waiting" /\ UNCHANGED <<wait, job, told>>
  \/ Stops(j)

LEMMA LeadsKeep ==
  ASSUME Inv, PauseInv, NEW j \in Jobs, NEW new, Leads(j, new), GoesWaiting(j)
  PROVE  PauseInv'
<1>1. \A o \in Jobs : call'[o] = IF o = j THEN new ELSE call[o]
  BY DEF Leads, Inv, CallsInv
<1>2. kind' = kind /\ ledger' = ledger BY DEF Leads
<1>3. \A o \in Jobs : o # j /\ Active(call[o]) => For(o)' = For(o)
  <2> SUFFICES ASSUME NEW o \in Jobs, o # j, Active(call[o]) PROVE For(o)' = For(o) OBVIOUS
  <2>1. CASE Tool(o) BY <1>2, <2>1 DEF For, Tool
  <2>2. CASE ~Tool(o)
    <3>1. mem' = mem BY <2>2, OneModel DEF Leads, Current
    <3> QED BY <1>2, <3>1 DEF For, Tool
  <2> QED BY <2>1, <2>2
<1>4. \A o \in Jobs : ToOwner(call[o]) => Active(call[o]) BY DEF ToOwner, Replied, Active
<1>5. OwnerInv'
  <2> SUFFICES ASSUME NEW o \in Jobs, ToOwner(call'[o]) PROVE ledger'[For(o)'] \in ByOwner
    BY DEF OwnerInv, ToOwner, Replied
  <2>1. CASE o = j
    <3>1. ToOwner(call[j]) /\ mem' = mem BY <1>1, <2>1 DEF Leads
    <3>2. For(j)' = For(j) BY <1>2, <3>1 DEF For, Tool
    <3> QED BY <1>2, <2>1, <3>1, <3>2 DEF PauseInv, OwnerInv
  <2>2. CASE o # j
    <3>1. ToOwner(call[o]) BY <1>1, <2>2
    <3> QED BY <1>2, <1>3, <1>4, <2>2, <3>1 DEF PauseInv, OwnerInv
  <2> QED BY <2>1, <2>2
<1>6. WaitInv'
  <2>1. CASE run' # "waiting" BY <2>1 DEF WaitInv
  <2>2. CASE run = "waiting" /\ UNCHANGED <<wait, job, told>>
    <3>1. /\ job \in Jobs /\ job = wait.for[1] /\ ~Answered(job) /\ ~Active(call[job])
          /\ wait.cause # "none" /\ wait.for \in Purchases
          /\ wait.cause = "approval" => ledger[wait.for] \in ByOwner /\ NoRequest(wait.for)
      BY <2>2 DEF PauseInv, WaitInv
    <3>2. j # job BY <2>2, <3>1 DEF Leads, Current
    <3>3. call'[job] = call[job] BY <1>1, <3>1, <3>2
    <3>4. wait.cause = "approval" => \A i \in 1..Len(socket') : socket'[i].for # wait.for
      BY <3>1, <3>2 DEF Leads, NoRequest
    <3>5. wait'.cause = "approval" => NoRequest(wait.for)' BY <2>2, <3>4 DEF NoRequest
    <3> QED BY <1>2, <2>2, <3>1, <3>3, <3>5 DEF WaitInv, Answered, Active
  <2>3. CASE Stops(j)
    <3>1. PICK cause \in {"reconcile", "approval"} :
            /\ Pause(j, cause) /\ Listening(j)
            /\ cause = "approval" => ToOwner(call[j]) /\ UNCHANGED socket
      BY <2>3 DEF Stops
    <3>2. /\ call' = [call EXCEPT ![j] = Idle] /\ wait' = [for |-> For(j), cause |-> cause]
          /\ UNCHANGED <<told, job>> /\ j = job
      BY <3>1 DEF Pause, Become, Listening, Current
    <3>3. call'[j] = Idle BY <3>2 DEF Inv, CallsInv
    <3>4. For(j) \in Purchases /\ For(j)[1] = j BY ForIs DEF Inv
    <3>5. wait'.for = For(j) /\ wait'.cause = cause BY <3>2
    <3>6. ~Answered(job)' BY <3>1, <3>2 DEF Listening, Answered
    <3>7. ~Active(call[job])' BY <3>2, <3>3, IdleIs DEF Active
    <3>8. ASSUME cause = "approval" PROVE ledger'[wait'.for] \in ByOwner /\ NoRequest(wait.for)'
      <4>1. ToOwner(call[j]) /\ socket' = socket BY <3>1, <3>8
      <4>2. Safe(For(j)) BY <4>1, CallIs DEF CallOK, IsSafe, ToOwner, Replied
      <4>3. ledger[For(j)] \in ByOwner BY <4>1 DEF PauseInv, OwnerInv
      <4> QED BY <1>2, <3>5, <4>1, <4>2, <4>3 DEF Safe, NoRequest
    <3> QED BY <3>2, <3>4, <3>5, <3>6, <3>7, <3>8 DEF WaitInv
  <2> QED BY <2>1, <2>2, <2>3 DEF GoesWaiting
<1> QED BY <1>5, <1>6 DEF PauseInv

\* The ways in which a call goes on, each with what it does to a run that waits.
LEMMA QuietLeads ==
  ASSUME NEW j \in Jobs, Quieter(j), NEW p, NoRequest(p) PROVE NoRequest(p)'
BY DEF Quieter, NoRequest

LEMMA NotToOwner ==
  /\ ~ToOwner(Idle) /\ ~ToOwner(Over) /\ "none" \notin {"approval"}
BY DEF ToOwner, Replied, Idle, Over

LEMMA EndsLead ==
  ASSUME Inv, PauseInv, NEW j \in Jobs, NEW what, Tell(j, what) \/ EndRun(j, what),
         Quieter(j), UNCHANGED <<kind, ledger>>, Active(call[j]) \/ Current(j)
  PROVE  PauseInv'
<1>1. call' = [call EXCEPT ![j] = Over] BY DEF Tell, EndRun, Become
<1>2. Leads(j, Over)
  <2>1. Current(j) \/ mem' = mem BY DEF Tell, EndRun, Listening
  <2> QED BY <1>1, <2>1, QuietLeads, NotToOwner DEF Leads
<1>3. GoesWaiting(j)
  <2>1. CASE Listening(j) BY <2>1 DEF Tell, EndRun, Next1, Listening, Current, GoesWaiting
  <2>2. CASE ~Listening(j) BY <2>2 DEF Tell, EndRun, GoesWaiting
  <2> QED BY <2>1, <2>2
<1> QED BY <1>2, <1>3, LeadsKeep

LEMMA PausesLead ==
  ASSUME Inv, PauseInv, NEW j \in Jobs, NEW cause \in {"reconcile", "approval"},
         Pause(j, cause), Quieter(j), UNCHANGED <<kind, ledger>>, Active(call[j]),
         cause = "approval" => ToOwner(call[j]) /\ UNCHANGED socket
  PROVE  PauseInv'
<1>1. PICK new \in {Idle, Over} : call' = [call EXCEPT ![j] = new] BY DEF Pause, Become
<1>2. Leads(j, new)
  <2>1. mem' = mem BY DEF Pause
  <2> QED BY <1>1, <2>1, QuietLeads, NotToOwner DEF Leads
<1>3. GoesWaiting(j)
  <2>1. CASE Listening(j) BY <2>1 DEF GoesWaiting, Stops
  <2>2. CASE ~Listening(j) BY <2>2 DEF Pause, GoesWaiting
  <2> QED BY <2>1, <2>2
<1> QED BY <1>2, <1>3, LeadsKeep

\* A call goes on, and the run stays where it is.
LEMMA MovesLead ==
  ASSUME Inv, PauseInv, NEW j \in Jobs, NEW new, call' = [call EXCEPT ![j] = new],
         UNCHANGED <<kind, ledger, run, wait, job, told>>, Active(call[j]) \/ Current(j),
         ToOwner(new) => ToOwner(call[j]) /\ mem' = mem, Current(j) \/ mem' = mem,
         \A p \in Purchases : p[1] # j /\ NoRequest(p) => NoRequest(p)'
  PROVE  PauseInv'
<1>1. Leads(j, new) BY DEF Leads
<1>2. GoesWaiting(j) BY DEF GoesWaiting
<1> QED BY <1>1, <1>2, LeadsKeep

LEMMA GotoLeads ==
  ASSUME Inv, PauseInv, NEW j \in Jobs, NEW pc \in PCs, Goto(j, pc), Quieter(j),
         UNCHANGED <<kind, ledger, run, wait, job, told>>, Active(call[j]) \/ Current(j),
         pc = "pausing" => ToOwner(call[j]) /\ mem' = mem, Current(j) \/ mem' = mem
  PROVE  PauseInv'
<1> DEFINE new == [It(j) EXCEPT !.pc = pc, !.reply = "none", !.since = 0]
<1>1. call' = [call EXCEPT ![j] = new] /\ new.pc = pc /\ new.reply = "none" BY GotoIs
<1> HIDE DEF new
<1>2. ToOwner(new) => ToOwner(call[j]) /\ mem' = mem BY <1>1 DEF ToOwner, Replied
<1> QED BY <1>1, <1>2, QuietLeads, MovesLead

LEMMA WorkersLead ==
  ASSUME Inv, PauseInv, NEW j \in Jobs,
         Prepare(j) \/ Freeze(j) \/ Thaw(j) \/ StartTool(j) \/ Expire(j) \/ Tick(j)
  PROVE  PauseInv'
<1>1. ASSUME Quieter(j), Prepare(j) PROVE PauseInv'
  <2>1. "freeze" \in PCs /\ Goto(j, "freeze") BY <1>1 DEF Prepare, PCs
  <2>2. UNCHANGED <<kind, ledger, run, wait, job, told>> /\ Current(j)
    BY <1>1 DEF Prepare, outside
  <2> QED BY <1>1, <2>1, <2>2, GotoLeads
<1>2. ASSUME Quieter(j), Freeze(j) PROVE PauseInv'
  <2>1. "ready" \in PCs /\ Goto(j, "ready") BY <1>2 DEF Freeze, PCs
  <2>2. UNCHANGED <<kind, ledger, run, wait, job, told>> /\ Current(j)
    BY <1>2 DEF Freeze, outside
  <2> QED BY <1>2, <2>1, <2>2, GotoLeads
<1>3. ASSUME Quieter(j), Thaw(j) PROVE PauseInv'
  <2>1. call' = [call EXCEPT ![j] = Idle] BY <1>3 DEF Thaw, Become
  <2>2. UNCHANGED <<kind, ledger, run, wait, job, told>> /\ Current(j)
    BY <1>3 DEF Thaw, outside
  <2> QED BY <1>3, <2>1, <2>2, QuietLeads, NotToOwner, MovesLead
<1>4. ASSUME Quieter(j), StartTool(j) PROVE PauseInv'
  <2>1. UNCHANGED <<kind, ledger>> /\ Current(j) BY <1>4 DEF StartTool, outside
  <2>2. CASE EndRun(j, "no claim") BY <1>4, <2>1, <2>2, EndsLead
  <2>3. CASE ~EndRun(j, "no claim")
    <3>1. PICK new : new = [Idle EXCEPT !.pc = "ready"] OBVIOUS
    <3>2. call' = [call EXCEPT ![j] = new] /\ UNCHANGED <<run, job, wait, mem, told>>
      BY <1>4, <2>3, <3>1 DEF StartTool, Become
    <3>3. ~ToOwner(new) BY <3>1 DEF ToOwner, Replied, Idle
    <3> QED BY <1>4, <2>1, <3>2, <3>3, QuietLeads, MovesLead
  <2> QED BY <2>2, <2>3
<1>5. ASSUME Expire(j) PROVE PauseInv'
  <2>1. /\ call' = [call EXCEPT ![j] = call[j]] /\ UNCHANGED <<kind, ledger, socket>>
        /\ Tool(j) /\ Current(j) /\ (At(j, "posted") \/ At(j, "follow"))
    BY <1>5 DEF Expire, DeadlineDue, Listening, outside, Inv, CallsInv
  <2>2. ~ToOwner(call[j]) BY <2>1 DEF ToOwner, Replied, At
  <2>3. \A p \in Purchases : p[1] # j /\ NoRequest(p) => NoRequest(p)' BY <2>1 DEF NoRequest
  <2>4. Leads(j, call[j]) BY <2>1, <2>2, <2>3 DEF Leads
  <2>5. GoesWaiting(j) BY <1>5, <2>1 DEF Expire, Next1, GoesWaiting, Current
  <2> QED BY <2>4, <2>5, LeadsKeep
<1>6. ASSUME Tick(j) PROVE PauseInv'
  <2>1. PICK new : /\ new = [It(j) EXCEPT !.since = @ + 1,
                                          !.elapsed = @ + (IF Listening(j) THEN 1 ELSE 0)]
                   /\ call' = [call EXCEPT ![j] = new]
    BY <1>6 DEF Tick, Become
  <2>2. /\ UNCHANGED <<kind, ledger, run, wait, job, told, mem, socket>>
        /\ At(j, "posted") \/ At(j, "follow")
    BY <1>6 DEF Tick, outside
  <2>3. new.pc = call[j].pc BY <2>1, CallIs DEF ACall, It
  <2>4. ~ToOwner(new) BY <2>2, <2>3 DEF ToOwner, Replied, At
  <2>5. \A p \in Purchases : p[1] # j /\ NoRequest(p) => NoRequest(p)' BY <2>2 DEF NoRequest
  <2> QED BY <2>1, <2>2, <2>4, <2>5, MovesLead DEF At, Active
<1>7. Prepare(j) \/ Freeze(j) \/ Thaw(j) \/ StartTool(j) => Quieter(j)
  BY SameQueue DEF Prepare, Freeze, Thaw, StartTool, At, outside
<1> QED BY <1>1, <1>2, <1>3, <1>4, <1>5, <1>6, <1>7

\* Answers, and answers that do not come: the owner is named where the gateway did.
LEMMA AnswersLead ==
  ASSUME Inv, PauseInv, NEW j \in Jobs,
         \/ AnswerPaid(j) \/ Followed(j) \/ AnswerRefused(j) \/ AnswerUnknown(j)
         \/ AnswerApproval(j) \/ Paused(j) \/ RefuseLocally(j) \/ AnswerContext(j)
         \/ NotSent(j) \/ Timeout(j) \/ Lost(j)
  PROVE  PauseInv'
<1>1. Active(call[j]) /\ UNCHANGED <<kind, ledger>>
  BY DEF AnswerPaid, Followed, AnswerRefused, AnswerUnknown, AnswerApproval, Paused,
         RefuseLocally, AnswerContext, NotSent, Timeout, Lost, Said, At, Active, outside
<1>2. Quieter(j)
  <2>1. CASE Timeout(j) \/ Lost(j) BY <2>1, HangUpIs DEF Timeout, Lost
  <2>2. CASE ~(Timeout(j) \/ Lost(j))
    <3>1. ~At(j, "posted") /\ UNCHANGED socket
      BY <2>2 DEF AnswerPaid, Followed, AnswerRefused, AnswerUnknown, AnswerApproval, Paused,
         RefuseLocally, AnswerContext, NotSent, Said, At, outside
    <3> QED BY <3>1, SameQueue
  <2> QED BY <2>1, <2>2
<1>3. CASE Timeout(j) \/ Lost(j)
  <2>1. GivesUp(j) /\ At(j, "posted") BY <1>3 DEF Timeout, Lost
  <2>2. \/ Pause(j, "reconcile") \/ Tell(j, "no claim")
        \/ Goto(j, "again") /\ UNCHANGED <<run, job, wait, mem, disk, saved, told>>
    BY <2>1, KindsOf, CallIs DEF GivesUp, Inv, CallOK, It, At
  <2>3. CASE Goto(j, "again") /\ UNCHANGED <<run, job, wait, mem, disk, saved, told>>
    <3>1. "again" \in PCs /\ Goto(j, "again") BY <2>3 DEF PCs
    <3> QED BY <1>1, <1>2, <2>3, <3>1, GotoLeads
  <2> QED BY <1>1, <1>2, <2>2, <2>3, PausesLead, EndsLead
<1>4. CASE AnswerContext(j)
  <2>1. CASE EndRun(j, "no claim") BY <1>1, <1>2, <2>1, EndsLead
  <2>2. CASE Goto(j, "thaw") /\ UNCHANGED <<run, job, wait, disk, saved, told>>
    <3>1. Replied(call[j], {"context"}) BY <1>4 DEF AnswerContext, Said, At, Replied, It
    <3>2. ~Tool(j) BY <3>1, CallIs DEF CallOK, Replied
    <3>3. Current(j) BY <1>1, <3>2, OneModel DEF Listening
    <3>4. "thaw" \in PCs /\ Goto(j, "thaw") BY <2>2 DEF PCs
    <3> QED BY <1>1, <1>2, <2>2, <3>3, <3>4, GotoLeads
  <2> QED BY <1>4, <2>1, <2>2 DEF AnswerContext
<1>5. CASE AnswerApproval(j) \/ Paused(j)
  <2>1. ToOwner(call[j]) /\ UNCHANGED socket
    BY <1>5 DEF AnswerApproval, Paused, Said, At, ToOwner, Replied, It, outside
  <2>2. \/ Pause(j, "approval")
        \/ Goto(j, "pausing") /\ UNCHANGED <<run, job, wait, mem, disk, saved, told>>
    BY <1>5 DEF AnswerApproval, Paused
  <2>3. CASE Goto(j, "pausing") /\ UNCHANGED <<run, job, wait, mem, disk, saved, told>>
    <3>1. "pausing" \in PCs /\ Goto(j, "pausing") BY <2>3 DEF PCs
    <3> QED BY <1>1, <1>2, <2>1, <2>3, <3>1, GotoLeads
  <2> QED BY <1>1, <1>2, <2>1, <2>2, <2>3, PausesLead
<1>6. CASE \/ AnswerPaid(j) \/ Followed(j) \/ AnswerRefused(j) \/ AnswerUnknown(j)
           \/ RefuseLocally(j) \/ NotSent(j)
  <2>1. \/ \E what \in Claims : Tell(j, what) \/ EndRun(j, what)
        \/ Pause(j, "reconcile")
        \/ \E pc \in {"follow", "again"} :
             Goto(j, pc) /\ UNCHANGED <<run, job, wait, mem, disk, saved, told>>
    BY <1>6 DEF AnswerPaid, Followed, AnswerRefused, AnswerUnknown, RefuseLocally, NotSent,
                Claims, Told
  <2>2. ASSUME NEW pc \in {"follow", "again"}, Goto(j, pc),
               UNCHANGED <<run, job, wait, mem, disk, saved, told>>
        PROVE  PauseInv'
    <3>1. pc \in PCs BY DEF PCs
    <3> QED BY <1>1, <1>2, <2>2, <3>1, GotoLeads
  <2> QED BY <1>1, <1>2, <2>1, <2>2, PausesLead, EndsLead
<1> QED BY <1>3, <1>4, <1>5, <1>6

LEMMA PostItLeads ==
  ASSUME Inv, PauseInv, NEW j \in Jobs, PostIt(j) PROVE PauseInv'
<1> DEFINE new == [It(j) EXCEPT !.pc = "posted", !.n = @ + 1, !.since = 0]
           m == [for |-> For(j), id |-> Id(j), live |-> TRUE]
<1>1. /\ Active(call[j]) /\ call' = [call EXCEPT ![j] = new]
      /\ socket' = Append(socket, m)
      /\ UNCHANGED <<kind, ledger, run, wait, job, told, mem>>
  BY DEF PostIt, Become, At, Active
<1>2. new.pc = "posted" BY CallIs DEF ACall, It
<1>3. For(j) \in Purchases /\ For(j)[1] = j BY ForIs DEF Inv
<1>4. m \in Post /\ m.for = For(j) BY <1>3 DEF Post, Id, Purchases
<1> HIDE DEF new, m
<1>5. ~ToOwner(new) BY <1>2 DEF ToOwner, Replied
<1>6. /\ Len(socket') = Len(socket) + 1 /\ socket'[Len(socket) + 1] = m
      /\ \A i \in 1..Len(socket) : socket'[i] = socket[i]
      /\ Len(socket) \in Nat
  BY <1>1, <1>4, AppendProperties DEF Inv, Typed
<1>7. \A p \in Purchases : p[1] # j /\ NoRequest(p) => NoRequest(p)'
  BY <1>3, <1>4, <1>6 DEF NoRequest
<1> QED BY <1>1, <1>5, <1>7, MovesLead

LEMMA ResumeLeads ==
  ASSUME Inv, PauseInv, Resume PROVE PauseInv'
<1>1. run = "waiting" /\ run' = "running" /\ UNCHANGED <<kind, call, ledger>>
  BY DEF Resume, outside
<1>2. \A o \in Jobs : ToOwner(call[o]) => Tool(o)
  BY <1>1, OneModel DEF ToOwner, Replied, Active
<1>3. OwnerInv'
  <2> SUFFICES ASSUME NEW o \in Jobs, ToOwner(call[o]) PROVE ledger[For(o)'] \in ByOwner
    BY <1>1 DEF OwnerInv, ToOwner, Replied
  <2>1. For(o)' = For(o) BY <1>1, <1>2 DEF For, Tool
  <2> QED BY <2>1 DEF PauseInv, OwnerInv
<1> QED BY <1>1, <1>3 DEF PauseInv, WaitInv

LEMMA CrashLeads ==
  ASSUME Inv, PauseInv, Crash PROVE PauseInv'
<1>1. /\ call' = [j \in Jobs |-> IF Answered(j) THEN Over ELSE Idle]
      /\ socket' = [i \in 1..Len(socket) |-> [socket[i] EXCEPT !.live = FALSE]]
      /\ UNCHANGED <<kind, run, job, wait, told, ledger>>
  BY DEF Crash
<1>2. \A j \in Jobs : ~ToOwner(call'[j]) /\ ~Active(call'[j])
  BY <1>1, NotToOwner, IdleIs DEF Active
<1>3. Len(socket) \in Nat BY DEF Inv, Typed
<1>4. Len(socket') = Len(socket) /\ \A i \in 1..Len(socket) : socket'[i].for = socket[i].for
  BY <1>1, <1>3, Queued DEF Post
<1>5. OwnerInv' BY <1>2 DEF OwnerInv, ToOwner, Replied
<1>6. WaitInv' BY <1>1, <1>2, <1>4 DEF PauseInv, WaitInv, Answered, NoRequest, Active
<1> QED BY <1>5, <1>6 DEF PauseInv

-----------------------------------------------------------------------------
\* What the gateway does for a request leaves alone what no request is on its way for; of
\* what it does by itself only the owner's word changes what went to the owner.
OwnersWord ==
  \A p \in Purchases : ledger[p] \in ByOwner /\ NoRequest(p) => ledger'[p] \in ByOwner
ShorterQueue == \A p : NoRequest(p) => NoRequest(p)'

LEMMA OutsideKeeps ==
  ASSUME Inv, PauseInv, UNCHANGED inside, OwnersWord, ShorterQueue,
         call' = [j \in Jobs |-> call'[j]],
         \A j \in Jobs : \/ call'[j] = call[j]
                         \/ /\ Active(call[j])
                            /\ ToOwner(call'[j]) => ledger'[For(j)] \in ByOwner
  PROVE  PauseInv'
<1>1. \A o : For(o)' = For(o) BY DEF inside, For, Tool
<1>2. OwnerInv'
  <2> SUFFICES ASSUME NEW o \in Jobs, ToOwner(call'[o]) PROVE ledger'[For(o)] \in ByOwner
    BY <1>1 DEF OwnerInv, ToOwner, Replied
  <2>1. CASE call'[o] = call[o]
    <3>1. Safe(For(o)) /\ ledger[For(o)] \in ByOwner
      BY <2>1, CallIs DEF CallOK, IsSafe, ToOwner, Replied, PauseInv, OwnerInv
    <3>2. For(o) \in Purchases BY ForIs DEF Inv
    <3> QED BY <3>1, <3>2 DEF Safe, OwnersWord
  <2>2. CASE call'[o] # call[o] BY <2>2
  <2> QED BY <2>1, <2>2
<1>3. WaitInv'
  <2> SUFFICES ASSUME run = "waiting"
               PROVE  /\ job \in Jobs /\ job = wait.for[1] /\ ~Answered(job) /\ ~Active(call'[job])
                      /\ wait.cause # "none" /\ wait.for \in Purchases
                      /\ wait.cause = "approval" =>
                           ledger'[wait.for] \in ByOwner /\ NoRequest(wait.for)'
    BY DEF inside, WaitInv, Answered, Active
  <2>1. /\ job \in Jobs /\ job = wait.for[1] /\ ~Answered(job) /\ ~Active(call[job])
        /\ wait.cause # "none" /\ wait.for \in Purchases
        /\ wait.cause = "approval" => ledger[wait.for] \in ByOwner /\ NoRequest(wait.for)
    BY DEF PauseInv, WaitInv
  <2>2. call'[job] = call[job] BY <2>1
  <2>3. wait.cause = "approval" => \A i \in 1..Len(socket') : socket'[i].for # wait.for
    BY <2>1 DEF ShorterQueue, NoRequest
  <2>4. wait.cause = "approval" => NoRequest(wait.for)' BY <2>3 DEF NoRequest, inside
  <2> QED BY <2>1, <2>2, <2>4 DEF OwnersWord
<1> QED BY <1>2, <1>3 DEF PauseInv

LEMMA HeadIs ==
  ASSUME Inv, socket # <<>>
  PROVE  /\ First = socket[1] /\ 1 \in 1..Len(socket) /\ First.id = First.for
         /\ First.for \in Purchases /\ First.for[1] \in Jobs
         /\ \A p : NoRequest(p) => p # First.for
<1>1. First = socket[1] /\ 1 \in 1..Len(socket) BY DEF First, Inv, Typed
<1> QED BY <1>1, Queued DEF NoRequest

LEMMA ReplyLeads ==
  ASSUME Inv, PauseInv, UNCHANGED inside, socket # <<>>, NEW r, Reply(r), OwnersWord,
         r = "approval" => ledger'[First.for] \in ByOwner
  PROVE  PauseInv'
<1>1. ShorterQueue
  <2>1. /\ socket' = Tail(socket) /\ Len(socket) \in Nat /\ Len(socket') = Len(socket) - 1
        /\ \A i \in 1..Len(socket') : socket'[i] = socket[i + 1]
    BY DEF Reply, Inv, Typed
  <2> QED BY <2>1 DEF ShorterQueue, NoRequest
<1>2. CASE ~First.live
  <2>1. call' = call BY <1>2 DEF Reply
  <2> QED BY <1>1, <2>1, OutsideKeeps DEF Inv, CallsInv
<1>3. CASE First.live
  <2>1. PICK o : o = First.for[1] OBVIOUS
  <2>2. PICK new : new = [It(o) EXCEPT !.pc = "replied", !.reply = r] OBVIOUS
  <2>3. o \in Jobs /\ At(o, "posted") /\ First.for = For(o)
    BY <1>3, <2>1, HeadIs, LiveIs DEF Inv, SocketInv
  <2>4. call' = [call EXCEPT ![o] = new] BY <1>3, <2>1, <2>2 DEF Reply, Become
  <2>5. new.reply = r /\ new.pc = "replied" BY <2>2, <2>3, CallIs DEF ACall, It
  <2>6. \A j \in Jobs : call'[j] = IF j = o THEN new ELSE call[j] BY <2>4 DEF Inv, CallsInv
  <2>7. ToOwner(new) => ledger'[For(o)] \in ByOwner BY <2>3, <2>5 DEF ToOwner, Replied
  <2>8. Active(call[o]) BY <2>3 DEF At, Active
  <2>9. call' = [j \in Jobs |-> call'[j]] BY <2>4 DEF Inv, CallsInv
  <2> QED BY <1>1, <2>6, <2>7, <2>8, <2>9, OutsideKeeps
<1> QED BY <1>2, <1>3

\* A step of the gateway by itself.
LEMMA AloneLeads ==
  ASSUME Inv, PauseInv, UNCHANGED inside, UNCHANGED <<socket, call>>, OwnersWord
  PROVE  PauseInv'
<1>1. ShorterQueue BY DEF ShorterQueue, NoRequest
<1> QED BY <1>1, OutsideKeeps DEF Inv, CallsInv

\* The record of the request at the head may become anything.
LEMMA HeadWord ==
  ASSUME Inv, socket # <<>>, NEW what, ledger' = [ledger EXCEPT ![First.id] = what]
  PROVE  OwnersWord /\ ledger'[First.for] = what
<1>1. First.id = First.for /\ First.for \in Purchases /\ \A p : NoRequest(p) => p # First.for
  BY HeadIs
<1> QED BY <1>1 DEF OwnersWord, Inv, Typed

LEMMA TakeLeads ==
  ASSUME Inv, PauseInv, Take PROVE PauseInv'
<1>1. UNCHANGED inside /\ socket # <<>> BY DEF Take
<1>2. CASE Work
  BY <1>1, <1>2, HeadWord, AloneLeads DEF Work
<1>3. CASE ledger' = [ledger EXCEPT ![First.id] = "approval"] /\ Reply("approval")
  BY <1>1, <1>3, HeadWord, ReplyLeads DEF ByOwner
<1>4. CASE ledger' = ledger /\ \E r \in Replies \ {"approval"} : Reply(r)
  <2>1. OwnersWord BY <1>4 DEF OwnersWord
  <2> QED BY <1>1, <1>4, <2>1, ReplyLeads
<1> QED BY <1>2, <1>3, <1>4 DEF Take, Replies

LEMMA SellLeads ==
  ASSUME Inv, PauseInv, Sell \/ GiveUp PROVE PauseInv'
<1>1. UNCHANGED inside /\ socket # <<>> BY DEF Sell, GiveUp
<1>2. CASE Sell
  <2>1. PICK result \in {"paid", "unpaid", "context"} :
          /\ Outcome(First.id, result)
          /\ Reply(IF result = "unpaid" THEN "refused" ELSE result)
    BY <1>2 DEF Sell
  <2>2. PICK r : r = IF result = "unpaid" THEN "refused" ELSE result OBVIOUS
  <2>3. r # "approval" /\ Reply(r) BY <2>1, <2>2
  <2>4. OwnersWord BY <1>1, <2>1, HeadWord DEF Outcome
  <2> QED BY <1>1, <2>3, <2>4, ReplyLeads
<1>3. CASE GiveUp
  <2>1. OwnersWord /\ Reply("unknown") BY <1>3 DEF OwnersWord, GiveUp
  <2> QED BY <1>1, <2>1, ReplyLeads
<1> QED BY <1>2, <1>3

LEMMA LateLeads ==
  ASSUME Inv, PauseInv, SellLate \/ Decide PROVE PauseInv'
<1>1. UNCHANGED inside /\ UNCHANGED <<socket, call>> BY DEF SellLate, Decide
<1>2. OwnersWord
  <2>1. CASE SellLate
    <3>1. PICK p \in Purchases, result \in {"paid", "unpaid", "context"} : Outcome(p, result)
      BY <2>1 DEF SellLate
    <3>2. ledger[p] \notin ByOwner BY <3>1 DEF Outcome, ByOwner
    <3> QED BY <3>1, <3>2 DEF Outcome, OwnersWord, Inv, Typed
  <2>2. CASE Decide
    <3>1. PICK p \in Purchases, answer \in {"granted", "declined"} :
            ledger' = [ledger EXCEPT ![p] = answer]
      BY <2>2 DEF Decide
    <3> QED BY <3>1 DEF OwnersWord, ByOwner, Inv, Typed
  <2> QED BY <2>1, <2>2
<1> QED BY <1>1, <1>2, AloneLeads

LEMMA NextLeads == ASSUME Inv, PauseInv, [Next]_vars PROVE PauseInv'
<1>1. ASSUME NEW j \in Jobs, Worker(j) \/ Tick(j) \/ NotSent(j) \/ Lost(j) PROVE PauseInv'
  BY <1>1, WorkersLead, AnswersLead, PostItLeads DEF Worker
<1>2. CASE UNCHANGED vars
  <2>1. UNCHANGED inside /\ UNCHANGED <<socket, call>> /\ ledger' = ledger
    BY <1>2 DEF vars, inside
  <2>2. OwnersWord BY <2>1 DEF OwnersWord
  <2> QED BY <2>1, <2>2, AloneLeads
<1> QED BY <1>1, <1>2, ResumeLeads, CrashLeads, TakeLeads, SellLeads, LateLeads DEF Next

LEMMA PauseInitially == ASSUME Init PROVE PauseInv
<1>1. run = "running" /\ call = [j \in Jobs |-> Idle] BY DEF Init
<1> QED BY <1>1, NotToOwner DEF PauseInv, OwnerInv, WaitInv

\* A run that waits has its job still to do, and one that waits for the owner waits for a
\* purchase that the gateway has put to the owner or has the owner's word for, whatever
\* was lost, resumed or in flight (RuntimePause; docs/worker.md:45-50).
THEOREM PausesCanEnd == Spec => []WaitHasAnEnd
<1>1. PauseInv => WaitHasAnEnd BY DEF PauseInv, WaitInv, WaitHasAnEnd, ByOwner
<1>2. Init => Inv /\ PauseInv BY InitHolds, PauseInitially
<1>3. Inv /\ PauseInv /\ [Next]_vars => Inv' /\ PauseInv' BY NextKeeps, NextLeads
<1> QED BY <1>1, <1>2, <1>3, PTL DEF Spec
===============================================================================
