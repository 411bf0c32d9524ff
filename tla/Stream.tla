-------------------------------- MODULE Stream --------------------------------
(***************************************************************************)
(* An answer of a model that arrives as a stream of server-sent events     *)
(* (readSseCompletion of agent-runtime/src/providers.ts), and what the     *)
(* loop makes of it (index.ts).  The seller sends the text and the calls   *)
(* in pieces, in one of the styles that the code provides for; the         *)
(* connection may end before any of them.  Text is counted; a name is a    *)
(* sequence of halves, and so are the arguments of a call.                 *)
(***************************************************************************)
EXTENDS Integers, Sequences

CONSTANTS
  MaxText,     \* bound: pieces of text
  MaxEntries   \* bound: calls of an answer

ASSUME StreamAssumption == MaxText \in Nat /\ MaxEntries \in Nat

VARIABLES
  reply,    \* what the seller means to say, and in which style
  sent,     \* how much of it is under way
  heard,    \* content, finishReason, sawDone, usage
  entries,  \* toolCallsByIndex
  outcome   \* of readSseCompletion
streamVars == <<reply, sent, heard, entries, outcome>>

Calls  == 1..MaxEntries
Name(c) == <<<<c, 1>>, <<c, 2>>>>
Args(c) == <<<<c, 1>>, <<c, 2>>>>
NoEntry == [id |-> 0, name |-> <<>>, args |-> <<>>]

\* names: once, or with every piece, or in halves.  ids: with the first piece, or the
\* empty one with the later ones (which is as good as none), or never.  together: the
\* calls come in one event, without their index.
Styles == [names : {"once", "repeated", "halves"}, ids : {"first", "never"}, together : BOOLEAN]
StreamInit ==
  /\ \E t \in 0..MaxText, n \in 0..MaxEntries, style \in Styles :
       reply = [text |-> t, calls |-> n, style |-> style]
  /\ sent = [text |-> 0, halves |-> [c \in Calls |-> 0], reason |-> "none"]
  /\ heard = [text |-> 0, reason |-> "none", done |-> FALSE, usage |-> FALSE]
  /\ entries = [i \in Calls |-> NoEntry] /\ outcome = "none"

-----------------------------------------------------------------------------
(***************************************************************************)
(* The seller.                                                             *)
(***************************************************************************)
Delta(c, half) ==
  [id   |-> IF half = 1 /\ reply.style.ids = "first" THEN c ELSE 0,
   name |-> CASE reply.style.names = "once"     -> IF half = 1 THEN Name(c) ELSE <<>>
              [] reply.style.names = "repeated" -> Name(c)
              [] reply.style.names = "halves"   -> <<Name(c)[half]>>,
   args |-> <<Args(c)[half]>>]
AllSent == sent.text = reply.text /\ \A c \in 1..reply.calls : sent.halves[c] = 2
Flows   == outcome = "none" /\ sent.reason = "none"

-----------------------------------------------------------------------------
(***************************************************************************)
(* consumeChunk.                                                           *)
(***************************************************************************)
WithName(name, more) == IF more = <<>> \/ more = name THEN name ELSE name \o more
Added(entry, delta) ==
  [id   |-> IF entry.id = 0 THEN delta.id ELSE entry.id,
   name |-> WithName(entry.name, delta.name),
   args |-> entry.args \o delta.args]

Text ==
  /\ Flows /\ sent.text < reply.text
  /\ sent' = [sent EXCEPT !.text = @ + 1] /\ heard' = [heard EXCEPT !.text = @ + 1]
  /\ UNCHANGED <<reply, entries, outcome>>
CallPiece(c) ==
  LET half == sent.halves[c] + 1
  IN  /\ Flows /\ ~reply.style.together /\ c <= reply.calls /\ half <= 2
      /\ sent' = [sent EXCEPT !.halves[c] = half]
      /\ entries' = [entries EXCEPT ![c] = Added(@, Delta(c, half))]
      /\ UNCHANGED <<reply, heard, outcome>>
\* All calls at once, whole: the position in the event is the index.
CallsTogether ==
  /\ Flows /\ reply.style.together /\ reply.calls > 0 /\ sent.halves[1] = 0
  /\ sent' = [sent EXCEPT !.halves = [c \in Calls |-> IF c <= reply.calls THEN 2 ELSE 0]]
  /\ entries' = [c \in Calls |-> IF c > reply.calls THEN NoEntry
       ELSE [id |-> Delta(c, 1).id, name |-> Name(c), args |-> Args(c)]]
  /\ UNCHANGED <<reply, heard, outcome>>

\* The seller has said all, or has reached the limit of its output.
FinishStream ==
  /\ Flows /\ sent' = [sent EXCEPT !.reason = IF AllSent THEN "stop" ELSE "length"]
  /\ heard' = [heard EXCEPT !.reason = IF AllSent THEN "stop" ELSE "length"]
  /\ UNCHANGED <<reply, entries, outcome>>
Usage ==
  /\ outcome = "none" /\ sent.reason # "none" /\ ~heard.usage
  /\ heard' = [heard EXCEPT !.usage = TRUE]
  /\ UNCHANGED <<reply, sent, entries, outcome>>
Done ==
  /\ outcome = "none" /\ ~heard.done /\ (AllSent \/ sent.reason # "none")
  /\ heard' = [heard EXCEPT !.done = TRUE]
  /\ sent' = [sent EXCEPT !.reason = "done"]
  /\ UNCHANGED <<reply, entries, outcome>>

-----------------------------------------------------------------------------
(***************************************************************************)
(* The end.                                                                *)
(***************************************************************************)
AcceptsAnyEnd(h) == TRUE
Accepts(h) == h.done \/ h.reason # "none"

\* The stream ends - after its end, or because the connection was closed.
EndOfStream ==
  /\ outcome = "none" /\ outcome' = IF Accepts(heard) THEN "accepted" ELSE "error"
  /\ UNCHANGED <<reply, sent, heard, entries>>
\* An error in the stream, a connection that is reset, no event for too long.
Breaks ==
  /\ outcome = "none" /\ outcome' = "error"
  /\ UNCHANGED <<reply, sent, heard, entries>>

StreamNext == \/ Text \/ CallsTogether \/ FinishStream \/ Usage \/ Done \/ EndOfStream \/ Breaks
              \/ \E c \in Calls : CallPiece(c)

\* The calls of the completion, by their indexes, in whose order they are taken; and
\* those of them that the loop runs: none of an answer that was cut, none whose
\* arguments are not whole.
Completed == {i \in Calls : entries[i].name # <<>>}
Parsed(args) == args = <<>> \/ \E c \in Calls : args = Args(c)
Executed == IF heard.reason = "length" THEN {} ELSE {i \in Completed : Parsed(entries[i].args)}

-----------------------------------------------------------------------------
\* An answer that is taken is the seller's: its text, and each of its calls once, with
\* its name and arguments, in its order; of a cut one nothing is run.
TakenIsWhole ==
  outcome = "accepted" =>
    IF heard.reason = "length" THEN Executed = {}
    ELSE /\ heard.text = reply.text
         /\ Executed = 1..reply.calls
         /\ \A c \in Executed : /\ entries[c].name = Name(c) /\ entries[c].args = Args(c)
                                /\ entries[c].id \in {0, c}
=============================================================================
