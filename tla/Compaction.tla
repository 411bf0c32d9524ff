------------------------------ MODULE Compaction ------------------------------
(***************************************************************************)
(* A long chat and what is done to it before a model request that would be *)
(* too large or too dear (agent-runtime/src/context.ts, compactContext).   *)
(*                                                                         *)
(* A message is who said it and how big it is; the texts are left out.     *)
(* Messages are numbered in the order in which they were said, which is    *)
(* the order of every list here: nothing moves.  So a chat is a set of     *)
(* numbers, and the set of those whose text is in a file of its own and    *)
(* which only point there.  Apart from it stands the archive reference, a  *)
(* message after the system's that points at a snapshot of the chat as it  *)
(* was and carries one line for each message that was removed.  Sizes are  *)
(* counted in tokens only; the limits in bytes and in messages go the same *)
(* way.                                                                    *)
(***************************************************************************)
EXTENDS Integers, Sequences, FiniteSets, SequencesExt, FiniteSetsExt

CONSTANTS
  Limit,     \* contextLimits: no request may be longer
  Costs,     \* the triggers the seller's price and its cache give, over time
  Tools,     \* tokens of the tools and of the turn's own note
  Small,     \* 512 characters: a pointer to a file is not longer
  Paste,     \* EXTERNALIZE_MIN_CHARS
  MaxLines,  \* SUMMARY_MAX_LINES
  Sizes,     \* sizes of messages
  Refusals,  \* requests the seller refuses as too large, at most
  MaxSaid    \* messages said, at most

ASSUME CompactionAssumption ==
  /\ {Limit, Tools, Small, Paste, MaxLines, Refusals, MaxSaid} \subseteq Nat
  /\ Costs \subseteq Nat /\ Sizes \subseteq Nat \ {0}

VARIABLES
  said,      \* everything that has been said, in order
  chat,      \* the messages of the next request
  pointer,   \* its archive reference
  archives,  \* snapshots on disk: content addressed, so a snapshot is its own address
  files,     \* messages whose text is on disk in a file of its own
  turn,      \* what comes next: "prepare", "model", "owner", "failed"
  retry      \* refusals of this request so far
chatVars == <<said, chat, pointer, archives, files, turn, retry>>

Message(role, size, calls) == [role |-> role, size |-> size, calls |-> calls]
Reference(to, lines) == [to |-> {to}, lines |-> lines]
NoReference          == [to |-> {}, lines |-> <<>>]

-----------------------------------------------------------------------------
(***************************************************************************)
(* What a chat weighs.                                                     *)
(***************************************************************************)
Weight(list, i) == IF i \in list.filed THEN Small ELSE said[i].size
\* With a reference of so many lines.
Count(list, lines)  == Tools + 1 + lines + MapThenSumSet(LAMBDA i : Weight(list, i), list.held)
Total(list, ref)    == Count(list, Len(ref.lines)) - (IF ref.to = {} THEN 1 ELSE 0)
FirstOr(n, choices) == IF choices = {} THEN n ELSE Min(choices)
LastOr(n, choices)  == IF choices = {} THEN n ELSE Max(choices)

By(list, role) == {i \in list.held : said[i].role = role}
First(list)    == FirstOr(0, By(list, "user"))
Latest(list)   == LastOr(0, By(list, "user"))

\* The newest answer before the latest request, and what it answered.
Newest(list) ==
  LET answer == LastOr(0, {i \in By(list, "assistant") : i < Latest(list) /\ said[i].calls = 0})
  IN  {answer, LastOr(0, {i \in By(list, "user") : i < answer})}

-----------------------------------------------------------------------------
(***************************************************************************)
(* The stages, each goes on until the chat fits its target.                *)
(***************************************************************************)
InFiles(list, chosen) == [list EXCEPT !.filed = @ \cup chosen]
SaveWhere(list, lines, target, chosen) ==
  LET upTo(n) == {i \in chosen : i <= n}
      enough  == {n \in {0} \cup chosen : Count(InFiles(list, upTo(n)), lines) <= target}
  IN  InFiles(list, upTo(FirstOr(Len(said), enough)))

\* Old tool results first, then pasted material; the current request is left.
SaveTools(list, target) ==
  SaveWhere(list, 0, target, {i \in By(list, "tool") : Weight(list, i) > Small})
SavePastes(list, target) ==
  SaveWhere(list, 0, target, {i \in By(list, "user") \ {Latest(list)} : Weight(list, i) > Paste})
\* The original and the current request, where one of them is too much.
SaveEnds(list, lines, target, size) ==
  SaveWhere(list, lines, target,
            {i \in By(list, "user") \cap {First(list), Latest(list)} : Weight(list, i) > size})

\* A complete exchange: an assistant message with the results of its calls.
Exchange(list, i) ==
  {i} \cup {j \in By(list, "tool") : /\ said[i].role = "assistant" /\ i < j
                                     /\ (i + 1)..j \cap list.held \subseteq By(list, "tool")}
Less(list, gone) == [held |-> list.held \ gone, filed |-> list.filed \ gone]

\* Oldest first, with room held for the lines of what goes: `lines` are held already.
Room(lines, target) == Min({lines, MaxLines, target \div 4})
RemoveOldest(list, kept, lines, target) ==
  LET heads   == (By(list, "user") \cup By(list, "assistant")) \ kept
      gone(n) == UNION {Exchange(list, i) : i \in {h \in heads : h <= n}}
      fits(n) == Count(Less(list, gone(n)), Room(lines + Cardinality(gone(n)), target)) <= target
  IN  Less(list, gone(FirstOr(Len(said), {n \in {0} \cup heads : fits(n)})))

Newer(lines, n) == SubSeq(lines, Len(lines) - Min({n, Len(lines)}) + 1, Len(lines))
InOrder(ids)    == SelectSeq([i \in DOMAIN said |-> i], LAMBDA i : i \in ids)
Spared(list, ends) == ends \cup Newest(list)

\* What is left of a chat, and the lines of its reference: as many of the carried ones
\* and of those of what went as fit, the newest of them.
Compacted(list, carried, target) ==
  LET ready  == SaveEnds(SavePastes(SaveTools(list, target), target), 0, target, target)
      ends   == {First(ready), Latest(ready)}
      spared == RemoveOldest(ready, Spared(ready, ends), Len(carried), target)
      gone   == ready.held \ spared.held
      all    == RemoveOldest(spared, ends, Len(carried) + Cardinality(gone), target)
      lines  == carried \o InOrder(ready.held \ all.held)
      most   == LastOr(0, {n \in 0..Min({Len(lines), MaxLines}) : Count(all, n) <= target})
  IN  [chat |-> SaveEnds(all, most, target, Small), lines |-> Newer(lines, most)]

-----------------------------------------------------------------------------
(***************************************************************************)
(* The chat.                                                               *)
(***************************************************************************)
ChatInit ==
  /\ \E size \in Sizes : said = <<Message("system", Small, 0), Message("user", size, 0)>>
  /\ chat = [held |-> {1, 2}, filed |-> {}] /\ pointer = NoReference
  /\ archives = {} /\ files = {} /\ turn = "prepare" /\ retry = 0

Goal(trigger) == Min({(Limit * 2) \div 5, trigger \div 2})
Half(n, times) == n \div (2 ^ times)
Trigger(cost) == IF retry = 0 THEN Min({Limit, cost})
                 ELSE Min({Half(Limit, retry), Half(Total(chat, pointer), 1)})

\* The mistake of archiving what was said without the pointer to what is older.
SnapshotOfMessages == [chat |-> chat, pointer |-> NoReference]
Snapshot == [chat |-> chat, pointer |-> pointer]

Fits(cost) == retry = 0 /\ Total(chat, pointer) <= Trigger(cost)
Keep(cost) ==
  /\ turn = "prepare" /\ Fits(cost)
  /\ turn' = "model"
  /\ UNCHANGED <<said, chat, pointer, archives, files, retry>>
Compact(cost) ==
  /\ turn = "prepare" /\ ~Fits(cost)
  /\ archives' = archives \cup {Snapshot}
  /\ \E new \in {Compacted(chat, pointer.lines, Goal(Trigger(cost)))} :
       /\ files' = files \cup new.chat.filed
       /\ IF Count(new.chat, Len(new.lines)) > Max({Trigger(cost), Limit})
          THEN turn' = "failed" /\ UNCHANGED <<chat, pointer>>
          ELSE /\ turn' = "model" /\ chat' = new.chat
               /\ pointer' = Reference(Snapshot, new.lines)
  /\ UNCHANGED <<said, retry>>

Refused ==
  /\ turn = "model"
  /\ IF retry < Refusals THEN retry' = retry + 1 /\ turn' = "prepare"
     ELSE turn' = "failed" /\ UNCHANGED retry
  /\ UNCHANGED <<said, chat, pointer, archives, files>>

Say(messages, next) ==
  /\ Len(said) + Len(messages) <= MaxSaid /\ said' = said \o messages
  /\ chat' = [chat EXCEPT !.held = @ \cup (Len(said) + 1)..Len(said \o messages)]
  /\ turn' = next /\ retry' = 0
  /\ UNCHANGED <<pointer, archives, files>>
CallTools(n, size) ==
  /\ turn = "model"
  /\ Say([k \in 1..(n + 1) |-> IF k = 1 THEN Message("assistant", Small, n)
                               ELSE Message("tool", size, 0)], "prepare")
Reply(size) == turn = "model" /\ Say(<<Message("assistant", size, 0)>>, "owner")
Ask(size)   == turn = "owner" /\ Say(<<Message("user", size, 0)>>, "prepare")

ChatNext ==
  \/ \E cost \in Costs : Keep(cost) \/ Compact(cost)
  \/ Refused
  \/ \E n \in 1..2, size \in Sizes : CallTools(n, size)
  \/ \E size \in Sizes : Reply(size) \/ Ask(size)

-----------------------------------------------------------------------------
(***************************************************************************)
(* What compaction promises.                                               *)
(***************************************************************************)
\* What can be read in full of a chat: what is in it, or in a file it points at.  A
\* reader of the chat gets to every set of snapshots that has the one its reference
\* points at and, with each, the one that it points at.
InFull(list)  == list.held \ (list.filed \ files)
Closed(found) ==
  /\ found \subseteq archives /\ pointer.to \cap archives \subseteq found
  /\ \A old \in found : old.pointer.to \cap archives \subseteq found

\* Nothing that was ever said is lost: however often a chat is compacted, the
\* next request holds it or leads to it.
NothingIsForgotten ==
  \A found \in SUBSET archives :
    Closed(found) => InFull(chat) \cup UNION {InFull(old.chat) : old \in found} = DOMAIN said

\* A model is sent whole exchanges: no tool result without the call it answers,
\* and no call without its results.
ExchangesAreWhole ==
  /\ \A i \in By(chat, "tool") :
       said[LastOr(1, {j \in chat.held : j < i})].role \in {"assistant", "tool"}
  /\ \A i \in By(chat, "assistant") : Cardinality(Exchange(chat, i)) = 1 + said[i].calls

\* The summary reads "what has already happened, oldest first", and a later line
\* stands where it contradicts an earlier one.
SummaryInOrder ==
  \A a, b \in DOMAIN pointer.lines : a < b => pointer.lines[a] < pointer.lines[b]
=============================================================================
