------------------------------- MODULE Journal -------------------------------
(***************************************************************************)
(* What is said in a session, and the three places where it is kept: the   *)
(* messages of the query under way (agent-runtime/src/index.ts), its       *)
(* checkpoint (runtime.ts), and the journal from which the next query      *)
(* takes what was said before (core/src/conversation.ts, messages.jsonl).  *)
(* Beside the journal stand the receipts (economy/src/purchases.ts,        *)
(* purchases.jsonl), which are appended to in the same way and read in     *)
(* another.                                                                *)
(*                                                                         *)
(* A file is a sequence of records, each with the way it ends: with its    *)
(* line end, without it (open), or in the middle (cut).  A process that    *)
(* dies, or a disk that is full, while it appends leaves such an end.      *)
(* A record that ends so is glued to the next one.                         *)
(*                                                                         *)
(* Steering messages, subagents and the limits of a reply are left out     *)
(* here; they are in Worker and Subagents.                                 *)
(***************************************************************************)
EXTENDS Integers, Sequences, FiniteSets, SequencesExt

CONSTANTS
  MaxQueries,     \* bound: tasks submitted
  MaxReplies,     \* bound: answers of the model
  MaxBatch,       \* the tool calls of an answer that has any
  MaxRemarks,     \* bound: words of the completion gate
  MaxStops        \* bound: processes that die, writes that fail, queries that wait

ASSUME JournalAssumption ==
  {MaxQueries, MaxReplies, MaxBatch, MaxRemarks, MaxStops} \subseteq Nat

VARIABLES
  log,       \* messages.jsonl
  receipts,  \* purchases.jsonl: the numbers of purchases
  kept,      \* query-checkpoint.json
  words,     \* the messages of the query under way
  query,     \* where it is
  paid,      \* history: purchases whose receipt was written
  cleared,   \* history: /clear was used
  lost,      \* history: a record lost nothing but its line end
  used       \* queries, answers, remarks and stops so far
journalVars == <<log, receipts, kept, words, query, paid, cleared, lost, used>>
journals  == <<log, receipts>>
histories == <<paid, cleared, lost>>

Task         == [by |-> "user", calls |-> {}, of |-> 0]
AnswerWith(c)    == [by |-> "assistant", calls |-> c, of |-> 0]
Result(c)    == [by |-> "tool", calls |-> {}, of |-> c]
Rec(m, end)  == [said |-> m, end |-> end]

NoReply == {0}
\* No checkpoint file; and one that only names its query.
NoQuery == [begun |-> FALSE, saved |-> FALSE, words |-> <<>>, base |-> 0, reply |-> NoReply, done |-> {}]
Begun   == [NoQuery EXCEPT !.begun = TRUE]
NoQueryRuns    == [at |-> "idle", base |-> 0, reply |-> NoReply, done |-> {}]

JournalInit ==
  /\ log = <<>> /\ receipts = <<>> /\ kept = NoQuery /\ words = <<>> /\ query = NoQueryRuns
  /\ paid = {} /\ cleared = FALSE /\ lost = FALSE
  /\ used = [queries |-> 0, replies |-> 0, remarks |-> 0, stops |-> 0]

-----------------------------------------------------------------------------
(***************************************************************************)
(* The files.                                                              *)
(***************************************************************************)
StartsLine(f, i) == i = 1 \/ f[i - 1].end = "line"
EndsLine(f, i)   == i = Len(f) \/ f[i].end = "line"
Parses(f, i)     == StartsLine(f, i) /\ EndsLine(f, i) /\ f[i].end # "cut"
LastLine(f)      == CHOOSE i \in 1..Len(f) :
                      StartsLine(f, i) /\ \A j \in (i + 1)..Len(f) : ~StartsLine(f, j)
Bad(f)           == {i \in 1..Len(f) : ~Parses(f, i)}

\* readConversationEntries: only a last line without its end can be left out, for good;
\* anything else that does not parse is an error.
Unreadable(f) == Bad(f) # {} /\ (Last(f).end = "line" \/ \E i \in Bad(f) : i < LastLine(f))
LeavesTheEnd(f) == f
Repaired(f)   == IF Bad(f) = {} THEN f ELSE SubSeq(f, 1, LastLine(f) - 1)
Heard(f)      == [i \in 1..Len(f) |-> f[i].said]
\* listPurchases: a line that does not parse is passed over.
ListedUpToABadLine(f) == {f[i].said : i \in {j \in 1..Len(f) : \A k \in 1..j : Parses(f, k)}}
Listed(f)     == {f[i].said : i \in {j \in 1..Len(f) : Parses(f, j)}}

Goto(p) == query' = [query EXCEPT !.at = p]
Stop    == query' = NoQueryRuns /\ words' = <<>>
Save(w, q) == kept' = [begun |-> TRUE, saved |-> TRUE, words |-> w, base |-> q.base,
                       reply |-> q.reply, done |-> q.done]
InQuery(p) == query.at = p

-----------------------------------------------------------------------------
(***************************************************************************)
(* A query begins, or is resumed.                                          *)
(***************************************************************************)
Submit ==
  /\ InQuery("idle") /\ ~kept.begun /\ used.queries < MaxQueries
  /\ kept' = Begun /\ Goto("load") /\ used' = [used EXCEPT !.queries = @ + 1]
  /\ UNCHANGED <<journals, words, histories>>
ResumeQuery ==
  /\ InQuery("idle") /\ kept.begun /\ Goto("load")
  /\ UNCHANGED <<journals, kept, words, histories, used>>

\* The history is read in any case, and is what was said before only without a
\* checkpoint of the loop.
LoadChat ==
  /\ InQuery("load")
  /\ IF Unreadable(log) THEN Stop /\ UNCHANGED log
     ELSE /\ log' = Repaired(log)
          /\ IF kept.saved
             THEN /\ words' = kept.words
                  /\ query' = [at |-> IF kept.reply = NoReply THEN "turn" ELSE "tools",
                               base |-> kept.base, reply |-> kept.reply, done |-> kept.done]
             ELSE /\ words' = Append(Heard(Repaired(log)), Task)
                  /\ query' = [NoQueryRuns EXCEPT !.at = "task", !.base = Len(Repaired(log))]
  /\ UNCHANGED <<receipts, kept, histories, used>>

Says(f, m) == Append(f, Rec(m, "line"))
JournalTask ==
  /\ InQuery("task") /\ log' = Says(log, Task) /\ Goto("turn")
  /\ UNCHANGED <<receipts, kept, words, histories, used>>

-----------------------------------------------------------------------------
(***************************************************************************)
(* One turn: the request, the answer, its calls.                           *)
(***************************************************************************)
\* completeWithContext: a chat that is too long is compacted, which writes the journal
\* anew; then the request is kept.
Freeze ==
  /\ InQuery("turn") /\ Save(words, query) /\ Goto("ask")
  /\ log' \in {log, [i \in 1..Len(words) |-> Rec(words[i], "line")]}
  /\ UNCHANGED <<receipts, words, histories, used>>

Batches == {{10 * used.replies + i : i \in 1..n} : n \in {0, MaxBatch}}
ModelAnswers ==
  /\ InQuery("ask") /\ used.replies < MaxReplies
  /\ used' = [used EXCEPT !.replies = @ + 1]
  /\ \E calls \in Batches :
       /\ words' = Append(words, AnswerWith(calls))
       /\ query' = [query EXCEPT !.at = "answered", !.reply = calls, !.done = {}]
  /\ UNCHANGED <<journals, kept, histories>>
JournalAnswer ==
  /\ InQuery("answered") /\ log' = Says(log, Last(words)) /\ Goto("journaled")
  /\ UNCHANGED <<receipts, kept, words, histories, used>>
SaveAnswer ==
  /\ InQuery("journaled") /\ Save(words, query) /\ Goto("tools")
  /\ UNCHANGED <<journals, words, histories, used>>

Open == query.reply \ query.done
NextCall == CHOOSE c \in Open : \A d \in Open : c <= d

\* A purchase has its receipt before its result is known to the loop.
BuyOne ==
  /\ InQuery("tools") /\ Open # {} /\ NextCall \notin paid
  /\ receipts' = Says(receipts, NextCall) /\ paid' = paid \cup {NextCall}
  /\ UNCHANGED <<log, kept, words, query, cleared, lost, used>>

\* The result is put into the chat, both are kept, and the journal comes last.
SavesFirst(c) ==
  LET after == [query EXCEPT !.done = @ \cup {c}, !.at = "result"]
  IN  /\ words' = Append(words, Result(c)) /\ query' = after /\ Save(words, after)
KeepResult(c) ==
  LET after == [query EXCEPT !.done = @ \cup {c}, !.at = "result"]
  IN  /\ words' = Append(words, Result(c)) /\ query' = after /\ Save(words', after)
Run ==
  /\ InQuery("tools") /\ Open # {}
  /\ KeepResult(NextCall)
  /\ UNCHANGED <<journals, histories, used>>
JournalResult ==
  /\ InQuery("result") /\ log' = Says(log, Last(words)) /\ Goto("tools")
  /\ UNCHANGED <<receipts, kept, words, histories, used>>

\* The batch is done: the next turn, at once or after a word from the completion gate.
TurnOver ==
  /\ InQuery("tools") /\ Open = {} /\ query.reply # {}
  /\ query' = [query EXCEPT !.at = "turn", !.reply = NoReply, !.done = {}]
  /\ UNCHANGED <<journals, kept, words, histories, used>>
Nudge ==
  /\ InQuery("tools") /\ Open = {} /\ used.remarks < MaxRemarks
  /\ words' = Append(words, Task) /\ used' = [used EXCEPT !.remarks = @ + 1]
  /\ query' = [query EXCEPT !.at = "nudged", !.reply = NoReply, !.done = {}]
  /\ UNCHANGED <<journals, kept, histories>>
JournalNudge ==
  /\ InQuery("nudged") /\ log' = Says(log, Task) /\ Goto("remarked")
  /\ UNCHANGED <<receipts, kept, words, histories, used>>
SaveNudge ==
  /\ InQuery("remarked") /\ Save(words, query) /\ Goto("turn")
  /\ UNCHANGED <<journals, words, histories, used>>

\* A result: the session is completed, the turns are used up, the same call failed
\* twice, the owner declined what a call costs - with calls of the batch left or not.
End ==
  /\ InQuery("tools") \/ InQuery("ask")
  /\ kept' = NoQuery /\ Stop
  /\ UNCHANGED <<journals, histories, used>>
\* Approval is waited for, the query is aborted, the model fails: the checkpoint stays.
Leave ==
  /\ query.at \in {"turn", "ask", "tools"} /\ Stop
  /\ used.stops < MaxStops /\ used' = [used EXCEPT !.stops = @ + 1]
  /\ UNCHANGED <<journals, kept, histories>>

-----------------------------------------------------------------------------
(***************************************************************************)
(* The process dies, or an append fails; and /clear.                       *)
(***************************************************************************)
Writing == CASE InQuery("task") \/ InQuery("nudged") -> Task
             [] InQuery("answered") \/ InQuery("result") -> Last(words)
             [] OTHER -> Result(0)
Interrupt ==
  /\ ~InQuery("idle") /\ used.stops < MaxStops
  /\ used' = [used EXCEPT !.stops = @ + 1]
  /\ Stop
  /\ \/ UNCHANGED <<journals, lost>>
     \/ /\ query.at \in {"task", "nudged", "answered", "result"} /\ UNCHANGED receipts
        /\ \E end \in {"cut", "open"} :
             log' = Append(log, Rec(Writing, end)) /\ lost' = (lost \/ end = "open")
     \/ /\ InQuery("tools") /\ Open # {} /\ NextCall \notin paid /\ UNCHANGED <<log, lost>>
        /\ \E end \in {"cut", "open"} : receipts' = Append(receipts, Rec(NextCall, end))
  /\ UNCHANGED <<kept, paid, cleared>>

\* clearConversation, between queries.
Clear ==
  /\ InQuery("idle") /\ ~Unreadable(log) /\ Repaired(log) # <<>> /\ ~cleared
  /\ log' = <<>> /\ cleared' = TRUE
  /\ UNCHANGED <<receipts, kept, words, query, paid, lost, used>>

JournalNext ==
  \/ Submit \/ ResumeQuery \/ LoadChat \/ JournalTask
  \/ Freeze \/ ModelAnswers \/ JournalAnswer \/ SaveAnswer \/ BuyOne \/ Run \/ JournalResult
  \/ TurnOver \/ Nudge \/ JournalNudge \/ SaveNudge \/ End \/ Leave
  \/ Interrupt \/ Clear

-----------------------------------------------------------------------------
(***************************************************************************)
(* Properties.                                                             *)
(***************************************************************************)
\* Every call of an answer has its result after it and before anything else is said.
Whole(w) ==
  \A i \in 1..Len(w) :
    /\ w[i].by = "assistant" =>
         /\ i + Cardinality(w[i].calls) <= Len(w)
         /\ w[i].calls = {w[i + k].of : k \in 1..Cardinality(w[i].calls)} \ {0}
    /\ w[i].by = "tool" =>
         \E j \in 1..(i - 1) : w[i].of \in w[j].calls

\* index.ts:1022-1023: never "split an assistant tool-call batch from its results with
\* a user message".
RequestIsWhole == InQuery("ask") => Whole(words)

\* However often a query dies and is resumed, what it adds to the request itself is
\* whole: only what an earlier query left in the journal may not be.
RunIsWhole == InQuery("ask") => Whole(SubSeq(words, query.base + 1, Len(words)))

\* However often an append is cut, the chat of the session can be read - unless one was
\* cut exactly before its line end, which the reader takes for whole.
ReadableUnlessEndLost == Unreadable(log) => lost

\* A receipt is missing from the list only next to one that was cut off.
ReceiptsAreListed ==
  \A c \in paid \ Listed(receipts) :
    \E i \in 2..Len(receipts) : receipts[i].said = c /\ receipts[i - 1].end # "line"
=============================================================================
