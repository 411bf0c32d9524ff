----------------------------- MODULE ModelChoice -----------------------------
(***************************************************************************)
(* The models of a session: what a catalog says of a model                 *)
(* (agent-runtime/src/providers.ts), how "auto" and a name are resolved,   *)
(* who may change the choice - a query begun with options of its own       *)
(* (llm-runtime.ts), the commands of the terminal (apps/cli/src/           *)
(* registry.ts) - and what is left of it after the process was started     *)
(* again, while catalogs and the configuration change underneath.          *)
(*                                                                         *)
(* What a provider lists is kept by the process until it is asked to look  *)
(* again.  A listing that cannot be read counts as an empty one.           *)
(***************************************************************************)
EXTENDS Integers, FiniteSets

CONSTANTS
  Providers,    \* LLM providers
  FirstOne,     \* config.provider at first
  Catalogs,     \* what a provider may list: sets of entries
  Submodels,    \* what may be preferred for subagents; "auto" and "off" among them
  MayBeOld,     \* whether the session may have been recorded under an old provider name
  MaxActs       \* bound: queries, commands and changes

\* An entry: its name, its place in the catalog, its price (-1 when it has none), its
\* window in thousands of tokens (0 when it names none), and whether it takes tools.
ASSUME ModelChoiceAssumption ==
  /\ FirstOne \in Providers /\ MaxActs \in Nat /\ {"auto", "off"} \subseteq Submodels
  /\ \A c \in Catalogs : IsFiniteSet(c) /\ \A m \in c :
       /\ m.place \in Nat /\ m.price \in Int /\ m.window \in Nat
       /\ m.tools \in {"yes", "no", "unsaid"}

VARIABLES
  chosen,    \* session.models in memory
  stored,    \* session.models in the file
  settings,  \* config.json: the provider, and the preferences for each
  lists,     \* what each provider would list now
  seen,      \* modelsCache of each provider
  asks,      \* the models the query under way asks for
  told,      \* history: the models the user was last shown to be the session's
  offered,    \* history: the names each provider has offered to this machine
  acts       \* what happened so far
choiceVars == <<chosen, stored, settings, lists, seen, asks, told, offered, acts>>

Floor    == 32      \* SUBAGENT_CONTEXT_FLOOR_TOKENS
Fallback == 64      \* fallbackContextWindowTokens, of a family that is not known
NoModels == [of |-> "nobody", old |-> FALSE, main |-> "none", sub |-> "off"]
NotSeen  == {[name |-> "not seen", place |-> 0, price |-> 0, window |-> 0, tools |-> "no"]}
FirstPreferences == [main |-> "auto", sub |-> "auto"]

ChoiceInit ==
  /\ stored \in {NoModels} \cup [of : {FirstOne}, old : IF MayBeOld THEN BOOLEAN ELSE {FALSE},
                                 main : {m.name : m \in UNION Catalogs} \ {"unnamed"}, sub : {"off"}]
  /\ chosen = stored /\ told = stored /\ asks = NoModels /\ acts = 0
  /\ settings = [provider |-> FirstOne, of |-> [p \in Providers |-> FirstPreferences]]
  /\ lists \in [Providers -> Catalogs] /\ seen = [p \in Providers |-> NotSeen]
  /\ offered = [p \in Providers |-> IF stored.of = p THEN {stored.main} ELSE {}]

-----------------------------------------------------------------------------
(***************************************************************************)
(* resolveSessionModels.                                                   *)
(***************************************************************************)
Blended(m) == IF m.price > 0 THEN m.price ELSE 0
Window(m)  == IF m.window = 0 \/ m.window > 4000 THEN Fallback ELSE m.window
OrAll(s, all) == IF s # {} THEN s ELSE all
Able(models)  == OrAll({m \in models : m.tools # "no"}, models)

AutoMain(models) ==
  CHOOSE m \in Able(models) : \A n \in Able(models) :
    Blended(m) > Blended(n) \/ (Blended(m) = Blended(n) /\ m.place <= n.place)
AutoSub(models) ==
  LET wide   == OrAll({m \in Able(models) : Window(m) >= Floor}, Able(models))
      priced == OrAll({m \in wide : Blended(m) > 0}, wide)
  IN  CHOOSE m \in priced : \A n \in priced :
        Blended(m) < Blended(n) \/ (Blended(m) = Blended(n) /\ m.place <= n.place)

NamesOf(models) == {m.name : m \in models}
Resolves(models, want) == models # {} /\ {want.main, want.sub} \subseteq NamesOf(models) \cup {"auto", "off"}
                                      /\ want.main # "off"
Resolved(p, models, want) ==
  [of |-> p, old |-> FALSE,
   main |-> IF want.main = "auto" THEN AutoMain(models).name ELSE want.main,
   sub  |-> IF want.sub = "auto" THEN AutoSub(models).name ELSE want.sub]

-----------------------------------------------------------------------------
(***************************************************************************)
(* Queries and commands.                                                   *)
(***************************************************************************)
\* normalizeProviderModels: an entry without a name is left out.
Normalized(body) == {m \in body : m.name # "unnamed"}
\* listModels: what is kept, else what is fetched - or nothing, of a body without JSON.
Seen(p) == IF seen[p] # NotSeen THEN {seen[p]} ELSE {Normalized(lists[p]), {}}
KeepsList(p, models) ==
  /\ seen' = [seen EXCEPT ![p] = models]
  /\ offered' = [offered EXCEPT ![p] = @ \cup NamesOf(models)]
Acts == acts < MaxActs /\ acts' = acts + 1

\* The choice is made and kept; its file may not be written, and the user is told.
Chooses(models) ==
  /\ chosen' = models
  /\ \/ stored' = models /\ told' = models
     \/ UNCHANGED stored /\ told' = NoModels

Active == IF chosen # NoModels THEN chosen.of ELSE settings.provider

Recorded(p)   == chosen # NoModels /\ chosen.of = p /\ ~chosen.old
\* A query without models of its own takes what is recorded for the provider, whatever
\* its catalog says: that only gives prices, and may be out of reach.
Resume(p) ==
  /\ Acts /\ Recorded(p) /\ asks = NoModels
  /\ asks' = [chosen EXCEPT !.of = p]
  /\ UNCHANGED <<seen, offered>> \/ \E models \in Seen(p) : KeepsList(p, models)
  /\ UNCHANGED <<chosen, stored, settings, lists, told>>
\* One that names a model, or with nothing recorded for its provider, resolves them anew;
\* it fails where they do not resolve, or are not kept.
Wanting(p, main, sub) == [main |-> IF main = "unsaid" THEN settings.of[p].main ELSE main,
                          sub  |-> IF sub = "unsaid" THEN settings.of[p].sub ELSE sub]
Begin(p, main, sub) ==
  /\ Acts /\ asks = NoModels /\ (<<main, sub>> # <<"unsaid", "unsaid">> \/ ~Recorded(p))
  /\ \E models \in Seen(p) :
       /\ KeepsList(p, models) /\ Resolves(models, Wanting(p, main, sub))
       /\ Chooses(Resolved(p, models, Wanting(p, main, sub)))
       /\ asks' = IF stored' = chosen' THEN chosen' ELSE NoModels
  /\ UNCHANGED <<settings, lists>>
EndQuery ==
  /\ asks # NoModels /\ asks' = NoModels
  /\ UNCHANGED <<chosen, stored, settings, lists, seen, told, offered, acts>>

\* /provider: the preferences of the configuration, resolved at once.
SetProvider(p) ==
  /\ Acts
  /\ \E models \in Seen(p) :
       /\ KeepsList(p, models) /\ Resolves(models, settings.of[p])
       /\ Chooses(Resolved(p, models, settings.of[p]))
  /\ UNCHANGED <<settings, lists, asks>>

\* updateSessionModels: one of the two is changed, the other is what it was.
SaysSo(p, want, models) ==
  chosen' = Resolved(p, models, want) /\ told' = chosen' /\ UNCHANGED stored
Updates(p, want, models) == Chooses(Resolved(p, models, want))
Unchanged(p) == IF chosen # NoModels THEN [main |-> chosen.main, sub |-> chosen.sub] ELSE settings.of[p]
SetsTo(want) ==
  \E models \in Seen(Active) :
    KeepsList(Active, models) /\ Resolves(models, want) /\ Updates(Active, want, models)
SetModel(main) == /\ Acts /\ SetsTo([Unchanged(Active) EXCEPT !.main = main])
                  /\ UNCHANGED <<settings, lists, asks>>
SetSubmodel(sub) == /\ Acts /\ SetsTo([Unchanged(Active) EXCEPT !.sub = sub])
                    /\ UNCHANGED <<settings, lists, asks>>
\* /models refresh.
Refresh ==
  /\ Acts /\ \E models \in {Normalized(lists[Active]), {}} : KeepsList(Active, models)
  /\ UNCHANGED <<chosen, stored, settings, lists, asks, told>>

\* `opencrowd config set`, for later sessions; a catalog that changes; the process ends.
Configure ==
  /\ Acts
  /\ \/ \E p \in Providers : settings' = [settings EXCEPT !.provider = p]
     \/ \E main \in NamesOf(lists[settings.provider]) : settings' = [settings EXCEPT !.of[settings.provider].main = main]
     \/ \E sub \in Submodels : settings' = [settings EXCEPT !.of[settings.provider].sub = sub]
  /\ UNCHANGED <<chosen, stored, lists, seen, asks, told, offered>>
Relist ==
  /\ Acts /\ \E p \in Providers, models \in Catalogs : lists' = [lists EXCEPT ![p] = models]
  /\ UNCHANGED <<chosen, stored, settings, seen, asks, told, offered>>
StartAgain ==
  /\ chosen' = stored /\ asks' = NoModels /\ seen' = [p \in Providers |-> NotSeen]
  /\ UNCHANGED <<stored, settings, lists, told, offered, acts>>

ChoiceNext ==
  \/ \E p \in Providers : \/ Resume(p) \/ SetProvider(p)
       \/ \E main \in {"unsaid", "auto"} \cup NamesOf(lists[p]), sub \in {"unsaid"} \cup Submodels : Begin(p, main, sub)
  \/ \E main \in {"auto"} \cup NamesOf(lists[Active]) : SetModel(main)
  \/ \E sub \in Submodels : SetSubmodel(sub)
  \/ EndQuery \/ Refresh \/ Configure \/ Relist \/ StartAgain

-----------------------------------------------------------------------------
\* Whatever the configuration and the catalogs become, and however often the process is
\* started again, a query without options of its own asks for the models that the user was
\* last shown to be the session's, if they are of its provider (llm-runtime.ts:125-126).
ResumesAsTold ==
  [][\A p \in Providers :
       told # NoModels /\ told.of = p /\ (Resume(p) \/ Begin(p, "unsaid", "unsaid"))
         => asks' = told]_choiceVars

\* A query asks a provider for models which that provider has offered, not another one.
AsksWhatIsListed ==
  asks # NoModels => {asks.main, asks.sub} \subseteq offered[asks.of] \cup {"off"}
=============================================================================
