------------------------------ MODULE RulesProof ------------------------------
(***************************************************************************)
(* The rules of the session's money, for any number of services, calls,    *)
(* providers and changes underneath: a service that CrowdCode rates below  *)
(* the floor is not paid, and what CrowdCode is set to is never a third    *)
(* thing; a query asks for the models the user was last shown, and only    *)
(* for models that its provider offered; what a service takes is covered   *)
(* by what was approved, and a raised price is asked about again; no       *)
(* credit is counted for two calls; the rule that decides is the last that *)
(* the owner gave; and a task that was funded as planned is paid to its    *)
(* end.                                                                    *)
(***************************************************************************)
EXTENDS FundedTask, Reputation, ModelChoice, PaidCall, Credit, Approvals, FiniteSetTheorems, TLAPS

FundingSpec    == FundingInit /\ [][FundingNext]_fundingVars
ReputationSpec == ReputationInit /\ [][ReputationNext]_reputationVars
ChoiceSpec     == ChoiceInit /\ [][ChoiceNext]_choiceVars

-----------------------------------------------------------------------------
(***************************************************************************)
(* CrowdCode.  A call that still has to look finds the service rated bad;  *)
(* one that is past looking could not read the list.                       *)
(***************************************************************************)
Steps    == {"none", "list", "detail", "approval", "paid", "refused"}
Buying   == [of : Endpoints \cup {"nothing"}, step : Steps, on : BOOLEAN, listOut : BOOLEAN,
             heldBad : BOOLEAN]
Sound(k) == k.heldBad => /\ k.step \in {"list", "detail"} => k.of \in Endpoints /\ rated[k.of] = "bad"
                         /\ k.step \in {"approval", "paid"} => k.listOut

ReputationInv ==
  /\ rated \in [Endpoints -> Says]
  /\ buying \in [Buyers -> Buying]
  /\ \A b \in Buyers : Sound(buying[b])

\* A step that leaves the ratings alone and gives one call a sound record.
LEMMA BuyingKeeps ==
  ASSUME ReputationInv, NEW b \in Buyers, NEW new \in Buying, Sound(new),
         buying' = [buying EXCEPT ![b] = new], UNCHANGED rated
  PROVE  ReputationInv'
BY DEF ReputationInv, Sound

\* The same for a call that goes on and keeps what it was told.
LEMMA MoveKeeps ==
  ASSUME ReputationInv, NEW b \in Buyers, NEW next \in Steps, MovesTo(b, next), UNCHANGED rated,
         Sound([buying[b] EXCEPT !.step = next])
  PROVE  ReputationInv'
<1>1. [buying[b] EXCEPT !.step = next] \in Buying BY DEF ReputationInv, Buying
<1>2. buying' = [buying EXCEPT ![b] = [buying[b] EXCEPT !.step = next]]
  BY DEF MovesTo, ReputationInv
<1> QED BY <1>1, <1>2, BuyingKeeps

LEMMA NobodyBuys == NoBuying \in Buying /\ Sound(NoBuying)
BY DEF NoBuying, Buying, Steps, Sound

LEMMA BuyFromKeeps ==
  ASSUME ReputationInv, NEW b \in Buyers, NEW e \in Endpoints, BuyFrom(b, e)
  PROVE  ReputationInv'
<1> DEFINE on  == IsOn(preference)
           new == [of |-> e, step |-> IF on THEN Knows(e) ELSE "approval", on |-> on,
                   listOut |-> FALSE, heldBad |-> on /\ rated[e] = "bad"]
<1>1. on \in BOOLEAN BY DEF IsOn
<1>2. Knows(e) \in {"detail", "list"} BY DEF Knows
<1> HIDE DEF on
<1>3. new \in Buying BY <1>1, <1>2 DEF Buying, Steps
<1>4. Sound(new) BY <1>1, <1>2 DEF Sound
<1>5. buying' = [buying EXCEPT ![b] = new] /\ UNCHANGED rated BY DEF BuyFrom, on
<1> QED BY <1>3, <1>4, <1>5, BuyingKeeps

LEMMA ListAnswersKeeps ==
  ASSUME ReputationInv, NEW b \in Buyers, ListAnswers(b)
  PROVE  ReputationInv'
<1>1. MovesTo(b, Found(b, Read.ids)) /\ UNCHANGED rated BY DEF ListAnswers, FreshList
<1>2. Found(b, Read.ids) \in {"detail", "approval"} BY DEF Found
<1>3. buying[b].step = "list" /\ buying[b] \in Buying BY DEF ListAnswers, ReputationInv
<1>4. buying[b].heldBad => Found(b, Read.ids) = "detail" /\ rated[buying[b].of] = "bad"
                           /\ buying[b].of \in Endpoints
  BY <1>3 DEF ReputationInv, Sound, Found, Read, ListedNow
<1>5. Sound([buying[b] EXCEPT !.step = Found(b, Read.ids)])
  BY <1>2, <1>3, <1>4 DEF Sound, Buying
<1>6. Found(b, Read.ids) \in Steps BY <1>2 DEF Steps
<1> QED BY <1>1, <1>5, <1>6, MoveKeeps

LEMMA ListFailsKeeps ==
  ASSUME ReputationInv, NEW b \in Buyers, ListFails(b)
  PROVE  ReputationInv'
<1> DEFINE next == Found(b, directory.ids)
           new  == [buying[b] EXCEPT !.step = next, !.listOut = TRUE]
<1>1. next \in {"detail", "approval"} BY DEF Found
<1>2. buying[b].step = "list" /\ buying[b] \in Buying BY DEF ListFails, ReputationInv
<1>3. buying[b].heldBad => rated[buying[b].of] = "bad" /\ buying[b].of \in Endpoints
  BY <1>2 DEF ReputationInv, Sound
<1>4. buying' = [buying EXCEPT ![b] = new] /\ UNCHANGED rated BY <1>2 DEF ListFails, ReputationInv
<1> HIDE DEF next
<1>5. new \in Buying BY <1>1, <1>2 DEF Buying, Steps
<1>6. Sound(new) BY <1>1, <1>2, <1>3 DEF Sound, Buying
<1> QED BY <1>4, <1>5, <1>6, BuyingKeeps

LEMMA DetailAnswersKeeps ==
  ASSUME ReputationInv, NEW b \in Buyers, DetailAnswers(b)
  PROVE  ReputationInv'
<1> DEFINE next == IF rated[buying[b].of] = "bad" THEN "refused" ELSE "approval"
<1>1. MovesTo(b, next) /\ UNCHANGED rated BY DEF DetailAnswers
<1>2. buying[b].step = "detail" /\ buying[b] \in Buying BY DEF DetailAnswers, ReputationInv
<1>3. buying[b].heldBad => next = "refused" BY <1>2 DEF ReputationInv, Sound
<1>4. next \in {"refused", "approval"} OBVIOUS
<1> HIDE DEF next
<1>5. Sound([buying[b] EXCEPT !.step = next]) BY <1>2, <1>3, <1>4 DEF Sound, Buying
<1>6. next \in Steps BY <1>4 DEF Steps
<1> QED BY <1>1, <1>5, <1>6, MoveKeeps

\* The user, a rule or the budget decides; or CrowdCode's detail cannot be read.
LEMMA DecisionKeeps ==
  ASSUME ReputationInv, NEW b \in Buyers, NEW next \in {"paid", "refused"},
         \/ ApprovalSays(b, next)
         \/ DetailFails(b) /\ next = "refused"
  PROVE  ReputationInv'
<1>1. MovesTo(b, next) /\ UNCHANGED rated BY DEF ApprovalSays, DetailFails
<1>2. buying[b] \in Buying BY DEF ReputationInv
<1>3. next = "paid" => buying[b].step = "approval" BY DEF ApprovalSays
<1>4. Sound([buying[b] EXCEPT !.step = next]) BY <1>2, <1>3 DEF Sound, Buying, ReputationInv
<1>5. next \in Steps BY DEF Steps
<1> QED BY <1>1, <1>4, <1>5, MoveKeeps

LEMMA RateKeeps ==
  ASSUME ReputationInv, NEW e \in Endpoints, NEW says \in Says, Rate(e, says)
  PROVE  ReputationInv'
<1>1. rated' \in [Endpoints -> Says] BY DEF Rate, ReputationInv
<1>2. buying' \in [Buyers -> Buying] BY DEF Rate, ReputationInv, Buying
<1>3. ASSUME NEW b \in Buyers PROVE Sound(buying[b])'
  <2>1. buying[b] \in Buying /\ Sound(buying[b]) BY DEF ReputationInv
  <2>2. CASE buying[b].of = e /\ buying[b].step \in {"list", "detail"}
    <3>1. buying'[b] = [buying[b] EXCEPT !.heldBad = FALSE] BY <2>2 DEF Rate
    <3> QED BY <2>1, <3>1 DEF Sound, Buying
  <2>3. CASE ~(buying[b].of = e /\ buying[b].step \in {"list", "detail"})
    <3>1. buying'[b] = buying[b] BY <2>3 DEF Rate
    <3>2. buying[b].step \in {"list", "detail"} /\ buying[b].of \in Endpoints
            => rated'[buying[b].of] = rated[buying[b].of]
      BY <2>3 DEF Rate, ReputationInv
    <3> QED BY <2>1, <3>1, <3>2 DEF Sound
  <2> QED BY <2>2, <2>3
<1> QED BY <1>1, <1>2, <1>3 DEF ReputationInv

LEMMA ReputationStarts == ReputationInit => ReputationInv
BY NobodyBuys DEF ReputationInit, ReputationInv

LEMMA ReputationKeeps == ReputationInv /\ [ReputationNext]_reputationVars => ReputationInv'
<1> SUFFICES ASSUME ReputationInv, [ReputationNext]_reputationVars PROVE ReputationInv' OBVIOUS
<1>1. CASE UNCHANGED <<rated, buying>> BY <1>1 DEF ReputationInv, Sound
<1>2. ASSUME NEW b \in Buyers, EndBuying(b) PROVE ReputationInv'
  BY <1>2, NobodyBuys, BuyingKeeps DEF EndBuying
<1>3. CASE WakeUp BY <1>3, NobodyBuys DEF WakeUp, ReputationInv, Sound, NoBuying
<1>4. CASE \E on \in BOOLEAN : SetForSession(on) \/ SetByDefault(on)
  BY <1>1, <1>4 DEF SetForSession, SetByDefault
<1>5. CASE ClearSession \/ Browse \/ ListExpires BY <1>1, <1>5 DEF ClearSession, Browse, ListExpires
<1>6. ASSUME NEW b \in Buyers, DetailFails(b) PROVE ReputationInv'
  BY <1>6, DecisionKeeps
<1>7. CASE UNCHANGED reputationVars BY <1>1, <1>7 DEF reputationVars
<1> QED BY <1>2, <1>3, <1>4, <1>5, <1>6, <1>7, BuyFromKeeps, ListAnswersKeeps, ListFailsKeeps,
           DetailAnswersKeeps, DecisionKeeps, RateKeeps DEF ReputationNext

\* A service that was rated below the floor while it was looked up is paid with CrowdCode
\* on only where the list could not be read (hosted-economy.ts:135-143).
THEOREM BadServicesAreRefused == ReputationSpec => []BadIsRefused
<1>1. ReputationInv => BadIsRefused BY DEF ReputationInv, Sound, BadIsRefused
<1> QED BY <1>1, ReputationStarts, ReputationKeeps, PTL DEF ReputationSpec

\* The preference is set, not set, or half way to its default; what it says may be said.
PreferenceInv ==
  /\ preference \in [session : {"unset", "on", "off"}, default : {"unset", "on", "off"},
                     setting : {"nothing", "on", "off"}]
  /\ NoThirdStatus

LEMMA SettingsAnswer ==
  ASSUME PreferenceInv, NEW on \in BOOLEAN, SetForSession(on) \/ SetByDefault(on)
  PROVE  PreferenceInv'
<1>1. Said(on) \in {"on", "off"} /\ (Said(on) = "on" <=> on) /\ (Said(on) = "off" <=> ~on)
  BY DEF Said
<1>2. CASE SetForSession(on)
  <2>1. preference' = [preference EXCEPT !.session = Said(on)] /\ promised' = {on}
    BY <1>2 DEF SetForSession
  <2>2. preference'.session = Said(on) BY <2>1 DEF PreferenceInv
  <2>3. IsOn(preference)' = on BY <1>1, <2>2 DEF IsOn
  <2> QED BY <1>1, <2>1, <2>3 DEF PreferenceInv, NoThirdStatus
<1>3. CASE SetByDefault(on)
  <2>1. /\ preference' = [preference EXCEPT !.default = Said(on), !.setting = Said(on)]
        /\ promised' = promised \cup {on}
    BY <1>3 DEF SetByDefault, WritesDefault
  <2>2. preference'.session = preference.session /\ preference'.default = Said(on)
    BY <2>1 DEF PreferenceInv
  <2>3. IsOn(preference)' \in {IsOn(preference), on} BY <1>1, <2>2 DEF IsOn
  <2> QED BY <1>1, <2>1, <2>3 DEF PreferenceInv, NoThirdStatus
<1> QED BY <1>2, <1>3

LEMMA ClearingAnswers ==
  ASSUME PreferenceInv, ClearSession
  PROVE  PreferenceInv'
<1>1. /\ preference' = [session |-> "unset", default |-> preference.setting, setting |-> "nothing"]
      /\ promised' = {preference.setting = "on"} /\ preference.setting \in {"on", "off"}
  BY DEF ClearSession, PreferenceInv
<1>2. IsOn(preference)' = (preference.setting = "on") BY <1>1 DEF IsOn
<1> QED BY <1>1, <1>2 DEF PreferenceInv, NoThirdStatus

LEMMA PreferenceStarts == ReputationInit => PreferenceInv
<1> SUFFICES ASSUME ReputationInit PROVE PreferenceInv OBVIOUS
<1>1. /\ preference = [session |-> "unset", default |-> "unset", setting |-> "nothing"]
      /\ promised = {TRUE}
  BY DEF ReputationInit
<1>2. IsOn(preference) = TRUE BY <1>1 DEF IsOn
<1> QED BY <1>1, <1>2 DEF PreferenceInv, NoThirdStatus

LEMMA PreferenceKeeps == PreferenceInv /\ [ReputationNext]_reputationVars => PreferenceInv'
<1> SUFFICES ASSUME PreferenceInv, [ReputationNext]_reputationVars PROVE PreferenceInv' OBVIOUS
<1>1. ASSUME UNCHANGED <<preference, promised>> PROVE PreferenceInv'
  BY <1>1 DEF PreferenceInv, NoThirdStatus, IsOn
<1>2. ASSUME NEW on \in BOOLEAN, SetForSession(on) \/ SetByDefault(on) PROVE PreferenceInv'
  BY <1>2, SettingsAnswer
<1>3. CASE ClearSession BY <1>3, ClearingAnswers
<1>4. CASE WakeUp
  <2>1. preference' = [preference EXCEPT !.setting = "nothing"] /\ UNCHANGED promised
    BY <1>4 DEF WakeUp
  <2>2. preference'.session = preference.session /\ preference'.default = preference.default
    BY <2>1 DEF PreferenceInv
  <2> QED BY <2>1, <2>2 DEF PreferenceInv, NoThirdStatus, IsOn
<1>5. CASE Browse \/ ListExpires BY <1>1, <1>5 DEF Browse, ListExpires
<1>6. ASSUME NEW b \in Buyers, NEW e \in Endpoints, BuyFrom(b, e) PROVE PreferenceInv'
  BY <1>1, <1>6 DEF BuyFrom
<1>7. ASSUME NEW b \in Buyers,
             \/ ListAnswers(b) \/ ListFails(b) \/ DetailAnswers(b) \/ DetailFails(b)
             \/ \E paid \in {"paid", "refused"} : ApprovalSays(b, paid)
             \/ EndBuying(b)
      PROVE  PreferenceInv'
  BY <1>1, <1>7 DEF ListAnswers, ListFails, DetailAnswers, DetailFails, ApprovalSays, EndBuying
<1>8. ASSUME NEW e \in Endpoints, NEW says \in Says, Rate(e, says) PROVE PreferenceInv'
  BY <1>1, <1>8 DEF Rate
<1>9. CASE UNCHANGED reputationVars BY <1>1, <1>9 DEF reputationVars
<1> QED BY <1>2, <1>3, <1>4, <1>5, <1>6, <1>7, <1>8, <1>9 DEF ReputationNext

\* While a preference is being set, and after a crash between its two files, CrowdCode is
\* what it was or what it was set to (crowdcode-preferences.ts:31-35).
THEOREM SettingIsOldOrNew == ReputationSpec => []NoThirdStatus
<1>1. PreferenceInv => NoThirdStatus BY DEF PreferenceInv
<1> QED BY <1>1, PreferenceStarts, PreferenceKeeps, PTL DEF ReputationSpec

-----------------------------------------------------------------------------
(***************************************************************************)
(* Models.  What the user was shown is what is in memory and in the file.  *)
(***************************************************************************)
IsChoice(m) == m = [of |-> m.of, old |-> FALSE, main |-> m.main, sub |-> m.sub]
ChoiceInv ==
  /\ IsChoice(chosen) /\ IsChoice(stored)
  /\ told # NoModels => told = chosen /\ told = stored

LEMMA ResolvedIsChoice ==
  ASSUME NEW p, NEW models, NEW want
  PROVE  IsChoice(Resolved(p, models, want))
BY DEF Resolved, IsChoice

LEMMA ChooseKeeps ==
  ASSUME ChoiceInv, NEW models, IsChoice(models), Chooses(models)
  PROVE  ChoiceInv'
BY DEF ChoiceInv, Chooses, IsChoice

\* A session that was recorded under a name of today.
LEMMA ChoiceStarts == ~MayBeOld /\ ChoiceInit => ChoiceInv
<1> SUFFICES ASSUME ~MayBeOld, ChoiceInit PROVE ChoiceInv OBVIOUS
<1>1. IsChoice(NoModels) BY DEF IsChoice, NoModels
<1>2. stored # NoModels => IsChoice(stored) BY DEF ChoiceInit, IsChoice
<1> QED BY <1>1, <1>2 DEF ChoiceInit, ChoiceInv

LEMMA ChoiceKeeps == ChoiceInv /\ [ChoiceNext]_choiceVars => ChoiceInv'
<1> SUFFICES ASSUME ChoiceInv, [ChoiceNext]_choiceVars PROVE ChoiceInv' OBVIOUS
<1>1. CASE UNCHANGED <<chosen, stored, told>> BY <1>1 DEF ChoiceInv, IsChoice
<1>2. ASSUME NEW p, NEW main, NEW sub, Begin(p, main, sub) PROVE ChoiceInv'
  BY <1>2, ResolvedIsChoice, ChooseKeeps DEF Begin
<1>3. ASSUME NEW p, SetProvider(p) PROVE ChoiceInv'
  BY <1>3, ResolvedIsChoice, ChooseKeeps DEF SetProvider
<1>4. ASSUME NEW want, SetsTo(want) PROVE ChoiceInv'
  BY <1>4, ResolvedIsChoice, ChooseKeeps DEF SetsTo, Updates
<1>5. CASE StartAgain BY <1>5 DEF StartAgain, ChoiceInv, IsChoice
<1>6. ASSUME NEW p, Resume(p) PROVE ChoiceInv' BY <1>1, <1>6 DEF Resume
<1>7. CASE EndQuery \/ Refresh \/ Configure \/ Relist
  BY <1>1, <1>7 DEF EndQuery, Refresh, Configure, Relist
<1>8. ASSUME NEW main, SetModel(main) PROVE ChoiceInv' BY <1>4, <1>8 DEF SetModel
<1>9. ASSUME NEW sub, SetSubmodel(sub) PROVE ChoiceInv' BY <1>4, <1>9 DEF SetSubmodel
<1>10. CASE UNCHANGED choiceVars BY <1>1, <1>10 DEF choiceVars
<1> QED BY <1>2, <1>3, <1>5, <1>6, <1>7, <1>8, <1>9, <1>10 DEF ChoiceNext

\* A query without options of its own takes what is recorded for its provider, and that is
\* what the user was last shown; it is never resolved anew (llm-runtime.ts:125-138).
LEMMA QueryTakesTheTold ==
  ASSUME ChoiceInv, NEW p \in Providers, Resume(p) \/ Begin(p, "unsaid", "unsaid"),
         told # NoModels, told.of = p
  PROVE  asks' = told
<1>1. told = chosen /\ IsChoice(chosen) BY DEF ChoiceInv
<1>2. Recorded(p) BY <1>1 DEF Recorded, IsChoice
<1>3. ~Begin(p, "unsaid", "unsaid") BY <1>2 DEF Begin
<1>4. asks' = [chosen EXCEPT !.of = p] BY <1>3 DEF Resume
<1> QED BY <1>1, <1>4 DEF IsChoice

\* Every query without options asks for the models the user was last shown, if the session
\* was not recorded under a provider name that is no longer used (llm-runtime.ts:125-126).
THEOREM QueriesResumeAsTold == ~MayBeOld /\ ChoiceSpec => ResumesAsTold
<1>1. ChoiceInv /\ [ChoiceNext]_choiceVars =>
        [\A p \in Providers :
           told # NoModels /\ told.of = p /\ (Resume(p) \/ Begin(p, "unsaid", "unsaid"))
             => asks' = told]_choiceVars
  BY QueryTakesTheTold
<1> QED BY <1>1, ChoiceStarts, ChoiceKeeps, PTL DEF ChoiceSpec, ResumesAsTold

-----------------------------------------------------------------------------
(***************************************************************************)
(* A paid call.  Between the approval and the end of the call a larger     *)
(* quote has been put to the owner, and what is signed is within the       *)
(* quote; what is written down of the call covers what can be settled.     *)
(***************************************************************************)
SaleSpec == SaleInit /\ [][SaleNext]_saleVars

Offered  == [net : Nets, price : Amounts, tells : BOOLEAN]
ANote    == [net : Nets \cup {"none", "torn"}, ceiling : {NoBid} \cup Nat]
SaleSteps == {"idle", "inspected", "requote", "approve", "probe", "signed", "unsure",
              "connect", "sent"}
ADeal == [asks : {NoBid} \cup Nat, quoted : Nat, asked : BOOLEAN,
          auth : {"none", "open", "used", "expired"}, amount : Nat, late : BOOLEAN,
          told : {"none", "paid", "unknown", "free", "not charged", "refused", "lost"},
          charged : Nat, using : Nat]

\* What PaidIsCovered and PriceOverLimitIsAsked say of one call.
IsCovered(c) ==
  c.auth = "used" =>
    \/ c.late \/ c.told = "refused"
    \/ c.told \in {"none", "lost"} /\ c.amount <= c.quoted * UnitsPerCent
    \/ c.told \in {"paid", "unknown"} /\ 2 * c.amount < (2 * c.charged + 1) * UnitsPerCent
IsAsked(c) ==
  c.auth # "none" /\ c.asks # NoBid => c.amount <= c.asks * UnitsPerCent \/ c.asked

WasPut(c)    == c.asks # NoBid /\ c.quoted > c.asks => c.asked
InQuote(c)   == c.amount <= c.quoted * UnitsPerCent
SaleTyped    == /\ seller \in Offered /\ note \in ANote /\ noteFile \in ANote
                /\ step \in SaleSteps /\ client.last \in Nat
                /\ client.open \in Nat /\ client.connecting \in Nat
DealUnderWay ==
  /\ deal \in ADeal
  /\ deal.auth # "none" => step \in {"signed", "unsure", "sent"} /\ InQuote(deal)
  /\ step \in {"signed", "unsure"} => deal.auth # "none"
  /\ step \in {"probe", "signed", "unsure", "connect", "sent"} => WasPut(deal)
IsClosed(c)  == c \in ADeal /\ IsCovered(c) /\ IsAsked(c)
DealsClosed  == deals \in [Deals -> ADeal] /\ \A d \in Deals : IsClosed(deals[d])
SaleInv == SaleTyped /\ DealUnderWay /\ DealsClosed

LEMMA Quotient ==
  ASSUME NEW a \in Nat, NEW b \in Nat \ {0}
  PROVE  a \div b \in Nat /\ a < b * (a \div b) + b
BY SMT

LEMMA RoundedCovers ==
  ASSUME NEW u \in Nat
  PROVE  Rounded(u) \in Nat /\ 2 * u < (2 * Rounded(u) + 1) * UnitsPerCent
<1> DEFINE r == Rounded(u)
           t == 2 * UnitsPerCent
           s == 2 * u + UnitsPerCent
<1>1. UnitsPerCent \in Nat \ {0} /\ t \in Nat \ {0} /\ s \in Nat BY PaidCallAssumption
<1>2. CASE 2 * u < 3 * UnitsPerCent
  <2>1. r = 1 BY <1>2 DEF Rounded
  <2> QED BY <1>1, <1>2, <2>1
<1>3. CASE ~(2 * u < 3 * UnitsPerCent)
  <2>1. r = s \div t BY <1>3 DEF Rounded
  <2> HIDE DEF s, t
  <2>2. s \div t \in Nat /\ s < t * (s \div t) + t BY <1>1, Quotient
  <2> USE DEF s, t
  <2>3. 2 * u + UnitsPerCent < t * r + t BY <2>1, <2>2
  <2>4. r \in Nat BY <2>1, <2>2
  <2>5. t * r + t = (2 * r + 1) * UnitsPerCent + UnitsPerCent BY <1>1, <2>4
  <2>6. (2 * r + 1) * UnitsPerCent \in Nat BY <1>1, <2>4
  <2> HIDE DEF r, t
  <2>7. 2 * u < (2 * r + 1) * UnitsPerCent BY <1>1, <2>3, <2>5, <2>6
  <2> QED BY <2>4, <2>7 DEF r
<1> QED BY <1>2, <1>3

LEMMA CentsOfPrice == ASSUME NEW u \in Nat PROVE PriceInCents(u) \in Nat
<1>1. UnitsPerCent \in Nat \ {0} BY PaidCallAssumption
<1>2. (u + UnitsPerCent - 1) \div UnitsPerCent \in Nat BY <1>1
<1> QED BY <1>2 DEF PriceInCents

LEMMA MoreCents ==
  ASSUME NEW a \in Nat, NEW b \in Nat, a <= b
  PROVE  /\ a * UnitsPerCent \in Nat /\ b * UnitsPerCent \in Nat
         /\ a * UnitsPerCent <= b * UnitsPerCent
         /\ 2 * (a * UnitsPerCent) < (2 * a + 1) * UnitsPerCent
BY PaidCallAssumption

LEMMA NoDealYet == NoDeal \in ADeal /\ NoDeal.auth = "none" /\ WasPut(NoDeal)
BY DEF NoDeal, ADeal, WasPut, NoBid

LEMMA SaleStarts == SaleInit => SaleInv
<1> SUFFICES ASSUME SaleInit PROVE SaleInv OBVIOUS
<1>1. SaleTyped
  BY DEF SaleInit, SaleTyped, Offered, ANote, NoNote, SaleSteps
<1>2. DealUnderWay BY NoDealYet DEF SaleInit, DealUnderWay
<1>3. DealsClosed
  BY NoDealYet DEF SaleInit, DealsClosed, IsClosed, IsCovered, IsAsked
<1> QED BY <1>1, <1>2, <1>3 DEF SaleInv

\* The call that is over is written down with enough.
Enough(told1, charged1) ==
  deal.auth = "used" =>
    \/ told1 \in {"lost", "refused"}
    \/ told1 \in {"paid", "unknown"} /\ 2 * deal.amount < (2 * charged1 + 1) * UnitsPerCent

Tolds == {"paid", "unknown", "free", "not charged", "refused", "lost"}

LEMMA PastIsClosed ==
  ASSUME SaleInv, NEW told1 \in Tolds, NEW charged1 \in Nat, Enough(told1, charged1)
  PROVE  IsClosed(Past(told1, charged1))
<1> DEFINE c == Past(told1, charged1)
<1>1. deal \in ADeal BY DEF SaleInv, DealUnderWay
<1>2. CASE deal.auth = "none"
  <2>1. c = [NoDeal EXCEPT !.told = told1, !.charged = charged1] BY <1>2 DEF Past
  <2>2. c \in ADeal /\ c.auth = "none" BY <2>1, NoDealYet DEF ADeal, Tolds
  <2> QED BY <2>2 DEF IsClosed, IsCovered, IsAsked
<1>3. CASE deal.auth # "none"
  <2>1. c = [deal EXCEPT !.using = 0, !.told = told1, !.charged = charged1]
    BY <1>1, <1>3 DEF Past, ADeal
  <2>2. c \in ADeal
    <3>1. c = [asks |-> deal.asks, quoted |-> deal.quoted, asked |-> deal.asked,
               auth |-> deal.auth, amount |-> deal.amount, late |-> deal.late,
               told |-> told1, charged |-> charged1, using |-> 0]
      BY <1>1, <2>1 DEF ADeal
    <3> HIDE DEF c
    <3> QED BY <1>1, <3>1 DEF ADeal, Tolds
  <2>3. /\ c.auth = deal.auth /\ c.amount = deal.amount /\ c.quoted = deal.quoted
        /\ c.asks = deal.asks /\ c.asked = deal.asked
        /\ c.told = told1 /\ c.charged = charged1
    BY <1>1, <2>1 DEF ADeal
  <2>4. InQuote(deal) /\ WasPut(deal)
    BY <1>3 DEF SaleInv, DealUnderWay
  <2>5. IsCovered(c) BY <2>3, <2>4 DEF IsCovered, Enough, InQuote
  <2>6. IsAsked(c)
    <3> SUFFICES ASSUME deal.asks # NoBid, ~deal.asked
                 PROVE  deal.amount <= deal.asks * UnitsPerCent
      BY <2>3 DEF IsAsked
    <3>1. deal.asks \in Nat /\ deal.quoted \in Nat /\ deal.amount \in Nat
      BY <1>1 DEF ADeal
    <3>2. ~(deal.quoted > deal.asks) BY <2>4 DEF WasPut
    <3>3. deal.quoted <= deal.asks BY <3>1, <3>2
    <3>4. /\ deal.quoted * UnitsPerCent \in Nat /\ deal.asks * UnitsPerCent \in Nat
          /\ deal.quoted * UnitsPerCent <= deal.asks * UnitsPerCent
      BY <3>1, <3>3, MoreCents
    <3>5. deal.amount <= deal.quoted * UnitsPerCent BY <2>4 DEF InQuote
    <3> QED BY <3>1, <3>4, <3>5
  <2> QED BY <2>2, <2>5, <2>6 DEF IsClosed
<1> QED BY <1>2, <1>3

LEMMA CloseKeeps ==
  ASSUME SaleInv, NEW told1 \in Tolds, NEW charged1 \in Nat, Close(told1, charged1),
         Enough(told1, charged1)
  PROVE  DealUnderWay' /\ DealsClosed' /\ step' \in SaleSteps
<1>1. deals' = [deals EXCEPT ![moves.deals] = Past(told1, charged1)] /\ deal' = NoDeal
      /\ step' = "idle"
  BY DEF Close
<1>2. IsClosed(Past(told1, charged1)) BY PastIsClosed
<1>3. DealsClosed' BY <1>1, <1>2 DEF SaleInv, DealsClosed, IsClosed
<1>4. DealUnderWay' BY <1>1, NoDealYet DEF DealUnderWay
<1> QED BY <1>1, <1>3, <1>4 DEF SaleSteps

\* A step after which nothing but the call under way is new.
LEMMA GoesOn ==
  ASSUME SaleInv, DealUnderWay', step' \in SaleSteps, UNCHANGED <<seller, notes, deals>>,
         UNCHANGED client
  PROVE  SaleInv'
BY DEF SaleInv, SaleTyped, DealsClosed, notes

LEMMA RefuseKeeps ==
  ASSUME SaleInv, Refuse \/ Close("free", 0), deal.auth # "used"
  PROVE  DealUnderWay' /\ DealsClosed' /\ step' \in SaleSteps
BY CloseKeeps DEF Refuse, Tolds, Enough

LEMMA RefusedKeeps ==
  ASSUME SaleInv, Close("refused", 0)
  PROVE  DealUnderWay' /\ DealsClosed' /\ step' \in SaleSteps
BY CloseKeeps DEF Tolds, Enough

LEMMA UnknownKeeps ==
  ASSUME SaleInv, Close("unknown", deal.quoted)
  PROVE  DealUnderWay' /\ DealsClosed' /\ step' \in SaleSteps
<1>1. deal \in ADeal BY DEF SaleInv, DealUnderWay
<1>2. deal.quoted \in Nat /\ deal.amount \in Nat BY <1>1 DEF ADeal
<1>3. deal.auth = "used" => deal.amount <= deal.quoted * UnitsPerCent
  BY DEF SaleInv, DealUnderWay, InQuote
<1>4. Enough("unknown", deal.quoted)
  <2>1. /\ deal.quoted * UnitsPerCent \in Nat
        /\ 2 * (deal.quoted * UnitsPerCent) < (2 * deal.quoted + 1) * UnitsPerCent
        /\ (2 * deal.quoted + 1) * UnitsPerCent \in Nat
    BY <1>2, MoreCents, PaidCallAssumption
  <2> QED BY <1>2, <1>3, <2>1 DEF Enough
<1> QED BY <1>2, <1>4, CloseKeeps DEF Tolds

LEMMA ReceiptKeeps ==
  ASSUME SaleInv, Close("paid", Rounded(deal.amount))
  PROVE  DealUnderWay' /\ DealsClosed' /\ step' \in SaleSteps
<1>1. deal.amount \in Nat BY DEF SaleInv, DealUnderWay, ADeal
<1>2. Rounded(deal.amount) \in Nat /\ Enough("paid", Rounded(deal.amount))
  BY <1>1, RoundedCovers DEF Enough
<1> QED BY <1>2, CloseKeeps DEF Tolds

LEMMA KnownIsANote == ASSUME SaleInv PROVE Known \in ANote
BY DEF SaleInv, SaleTyped, Known, ANote, NoNote

LEMMA CeilingIs ==
  ASSUME SaleInv PROVE Ceiling \in {NoBid} \cup Nat /\ seller.price \in Nat /\ seller.net \in Nets
<1>1. seller \in Offered /\ seller.price \in Amounts BY DEF SaleInv, SaleTyped, Offered
<1>2. seller.price \in Nat BY <1>1, PaidCallAssumption
<1> QED BY <1>1, <1>2, CentsOfPrice DEF Ceiling, Offered

\* The calls written down stay, and the one under way: with the seller, notes or clients.
LEMMA AroundKeeps ==
  ASSUME SaleInv, SaleTyped', UNCHANGED <<deal, deals>>, deal.auth # "none" => step' = step,
         step' # step => step' \notin {"probe", "signed", "unsure", "connect", "sent"}
  PROVE  SaleInv'
BY DEF SaleInv, DealUnderWay, DealsClosed, IsClosed, IsCovered, IsAsked, InQuote, WasPut

LEMMA ChangesKeeps == ASSUME SaleInv, Changes PROVE SaleInv'
<1>1. SaleTyped' BY DEF Changes, SaleInv, SaleTyped, Offered, notes, people
<1> QED BY <1>1, AroundKeeps DEF Changes

LEMMA InspectKeeps == ASSUME SaleInv, Inspect \/ Remember PROVE SaleInv'
<1>1. SaleTyped'
  BY CeilingIs DEF Inspect, Remember, Ceilings, SaleInv, SaleTyped, ANote, Torn, SaleSteps, world, people
<1>2. deal.auth = "none" BY DEF Inspect, Remember, At, SaleInv, DealUnderWay
<1>3. step' \in {"inspected", "idle"} /\ UNCHANGED <<deal, deals>>
  BY DEF Inspect, Remember
<1> QED BY <1>1, <1>2, <1>3, AroundKeeps

LEMMA CallKeeps ==
  ASSUME SaleInv, NEW bid \in {NoBid} \cup 1..MaxCost, Call(bid) PROVE SaleInv'
<1> DEFINE asked == IF bid = NoBid THEN Known.ceiling ELSE bid
<1>1. Known \in ANote /\ asked \in {NoBid} \cup Nat BY KnownIsANote DEF ANote
<1>2. /\ deal' = [NoDeal EXCEPT !.asks = asked] /\ step' = "requote" /\ note' = Known
      /\ UNCHANGED <<seller, noteFile, deals, client>>
  BY DEF Call, people
<1> HIDE DEF asked
<1>3. deal' \in ADeal /\ deal'.auth = "none"
  BY <1>1, <1>2, NoDealYet DEF ADeal, NoDeal
<1>4. DealUnderWay' BY <1>2, <1>3 DEF DealUnderWay
<1>5. SaleTyped' BY <1>1, <1>2 DEF SaleInv, SaleTyped, SaleSteps
<1> QED BY <1>2, <1>4, <1>5 DEF SaleInv, DealsClosed

LEMMA RequoteKeeps == ASSUME SaleInv, Requote PROVE SaleInv'
<1>1. step = "requote" /\ deal.auth = "none" /\ UNCHANGED <<seller, notes, client>>
  BY DEF Requote, At, SaleInv, DealUnderWay, world, people
<1>2. CASE Refuse
  <2>1. DealUnderWay' /\ DealsClosed' /\ step' \in SaleSteps BY <1>1, <1>2, RefuseKeeps
  <2> QED BY <1>1, <2>1 DEF SaleInv, SaleTyped, notes
<1>3. CASE /\ Quote # NoBid /\ deal' = [deal EXCEPT !.quoted = Quote] /\ step' = "approve"
           /\ UNCHANGED deals
  <2>1. deal \in ADeal /\ deal.asks \in {NoBid} \cup Nat BY DEF SaleInv, DealUnderWay, ADeal
  <2>2. Ceiling \in {NoBid} \cup Nat BY CeilingIs
  <2>3. Quote \in Nat BY <1>3, <2>1, <2>2 DEF Quote, Larger, NoBid
  <2>4. deal' \in ADeal /\ deal'.auth = "none" BY <1>1, <1>3, <2>1, <2>3 DEF ADeal
  <2>5. DealUnderWay' BY <1>3, <2>4 DEF DealUnderWay
  <2> QED BY <1>1, <1>3, <2>5, GoesOn DEF SaleSteps
<1> QED BY <1>2, <1>3 DEF Requote

LEMMA ApproveKeeps == ASSUME SaleInv, Approve PROVE SaleInv'
<1>1. step = "approve" /\ deal.auth = "none" /\ UNCHANGED <<seller, notes, client>>
  BY DEF Approve, At, SaleInv, DealUnderWay, world, people
<1>2. CASE Refuse
  <2>1. DealUnderWay' /\ DealsClosed' /\ step' \in SaleSteps BY <1>1, <1>2, RefuseKeeps
  <2> QED BY <1>1, <2>1 DEF SaleInv, SaleTyped, notes
<1>3. ASSUME NEW asked \in BOOLEAN, deal.asks # NoBid /\ deal.quoted > deal.asks => asked,
             deal' = [deal EXCEPT !.asked = asked], UNCHANGED deals,
             step' \in {"probe", "connect"}
      PROVE  SaleInv'
  <2>1. deal \in ADeal BY DEF SaleInv, DealUnderWay
  <2>2. /\ deal' \in ADeal /\ deal'.auth = "none" /\ deal'.asked = asked
        /\ deal'.asks = deal.asks /\ deal'.quoted = deal.quoted
    BY <1>1, <1>3, <2>1 DEF ADeal
  <2>3. WasPut(deal)' BY <1>3, <2>2 DEF WasPut
  <2>4. DealUnderWay' BY <1>3, <2>2, <2>3 DEF DealUnderWay
  <2> QED BY <1>1, <1>3, <2>4, GoesOn DEF SaleSteps
<1> QED BY <1>2, <1>3 DEF Approve

LEMMA ProbeKeeps == ASSUME SaleInv, Probe PROVE SaleInv'
<1>1. step = "probe" /\ deal.auth = "none" /\ UNCHANGED <<seller, notes, client>>
  BY DEF Probe, At, SaleInv, DealUnderWay, world, people
<1>2. CASE Refuse \/ Close("free", 0)
  <2>1. DealUnderWay' /\ DealsClosed' /\ step' \in SaleSteps BY <1>1, <1>2, RefuseKeeps
  <2> QED BY <1>1, <2>1 DEF SaleInv, SaleTyped, notes
<1>3. CASE Sign
  <2>1. deal \in ADeal /\ WasPut(deal) BY <1>1 DEF SaleInv, DealUnderWay
  <2>2. /\ deal' = [deal EXCEPT !.auth = "open", !.amount = seller.price] /\ step' = "signed"
        /\ seller.price <= deal.quoted * UnitsPerCent /\ UNCHANGED deals
    BY <1>3 DEF Sign
  <2>3. seller.price \in Nat BY CeilingIs
  <2>4. /\ deal' \in ADeal /\ deal'.auth = "open" /\ deal'.amount = seller.price
        /\ deal'.quoted = deal.quoted /\ deal'.asks = deal.asks /\ deal'.asked = deal.asked
    BY <2>1, <2>2, <2>3 DEF ADeal
  <2>5. InQuote(deal)' /\ WasPut(deal)' BY <2>1, <2>2, <2>4 DEF InQuote, WasPut
  <2>6. DealUnderWay' BY <2>2, <2>4, <2>5 DEF DealUnderWay
  <2> QED BY <1>1, <2>2, <2>6, GoesOn DEF SaleSteps
<1> QED BY <1>2, <1>3 DEF Probe

\* An authorization that is signed, or was not used in time, is settled or expires.
LEMMA SettleKeeps == ASSUME SaleInv, Settle PROVE SaleInv'
<1>1. /\ deal.auth = "open" /\ step \in {"signed", "unsure"}
      /\ deal' = [deal EXCEPT !.auth = "used"] /\ UNCHANGED <<seller, notes, step, deals, client>>
  BY DEF Settle, world, people
<1>2. deal \in ADeal /\ InQuote(deal) /\ WasPut(deal) BY <1>1 DEF SaleInv, DealUnderWay
<1>3. /\ deal' \in ADeal /\ deal'.auth = "used" /\ deal'.amount = deal.amount
      /\ deal'.quoted = deal.quoted /\ deal'.asks = deal.asks /\ deal'.asked = deal.asked
  BY <1>1, <1>2 DEF ADeal
<1>4. DealUnderWay' BY <1>1, <1>2, <1>3 DEF DealUnderWay, InQuote, WasPut
<1> QED BY <1>1, <1>4, GoesOn DEF SaleSteps

LEMMA SellerRepliesKeeps == ASSUME SaleInv, SellerReplies PROVE SaleInv'
<1>1. step = "signed" /\ UNCHANGED <<seller, notes, client>>
  BY DEF SellerReplies, At, world, people
<1>2. ASSUME DealUnderWay' /\ DealsClosed' /\ step' \in SaleSteps PROVE SaleInv'
  BY <1>1, <1>2 DEF SaleInv, SaleTyped, notes
<1>3. CASE step' = "unsure" /\ UNCHANGED <<deal, deals>>
  <2>1. DealUnderWay' BY <1>1, <1>3 DEF SaleInv, DealUnderWay, InQuote, WasPut
  <2> QED BY <1>1, <1>3, <2>1, GoesOn DEF SaleSteps
<1> QED BY <1>2, <1>3, UnknownKeeps, ReceiptKeeps DEF SellerReplies, Lost

LEMMA CheckKeeps == ASSUME SaleInv, Check \/ Believe PROVE SaleInv'
<1>1. UNCHANGED <<seller, notes, client>> BY DEF Check, Believe, world, people
<1>2. \/ deal.auth = "open" /\ Close("not charged", 0)
      \/ Close("unknown", deal.quoted) \/ Close("refused", 0)
  BY DEF Check, Believe, AskChain
<1>3. DealUnderWay' /\ DealsClosed' /\ step' \in SaleSteps
  BY <1>2, RefuseKeeps, UnknownKeeps, RefusedKeeps DEF Refuse
<1> QED BY <1>1, <1>3 DEF SaleInv, SaleTyped, notes

LEMMA LaterKeeps == ASSUME SaleInv, SettleLate \/ Expire PROVE SaleInv'
<1>1. UNCHANGED <<seller, notes, step, deal, client>>
  BY DEF SettleLate, Expire, world, people
<1>2. PICK d \in Deals :
        /\ deals[d].auth = "open"
        /\ \/ deals' = [deals EXCEPT ![d].auth = "used", ![d].late = TRUE]
           \/ deals' = [deals EXCEPT ![d].auth = "expired"]
  BY DEF SettleLate, Expire
<1>3. CASE deals' = [deals EXCEPT ![d].auth = "used", ![d].late = TRUE]
           /\ deals[d].auth = "open"
  <2>1. deals[d] \in ADeal /\ IsAsked(deals[d]) BY DEF SaleInv, DealsClosed, IsClosed
  <2> DEFINE c == [deals[d] EXCEPT !.auth = "used", !.late = TRUE]
  <2>2. deals' = [deals EXCEPT ![d] = c] BY <1>3 DEF SaleInv, DealsClosed
  <2>3. /\ c \in ADeal /\ c.late = TRUE /\ c.amount = deals[d].amount
        /\ c.asks = deals[d].asks /\ c.asked = deals[d].asked
    BY <2>1 DEF ADeal
  <2> HIDE DEF c
  <2>4. IsClosed(c) BY <1>3, <2>1, <2>3 DEF IsClosed, IsCovered, IsAsked
  <2>5. DealsClosed' BY <2>2, <2>4 DEF SaleInv, DealsClosed, IsClosed
  <2> QED BY <1>1, <2>5 DEF SaleInv, SaleTyped, DealUnderWay, InQuote, WasPut, notes
<1>4. CASE deals' = [deals EXCEPT ![d].auth = "expired"] /\ deals[d].auth = "open"
  <2>1. deals[d] \in ADeal /\ IsAsked(deals[d]) BY DEF SaleInv, DealsClosed, IsClosed
  <2> DEFINE c == [deals[d] EXCEPT !.auth = "expired"]
  <2>2. deals' = [deals EXCEPT ![d] = c] BY <1>4 DEF SaleInv, DealsClosed
  <2>3. /\ c \in ADeal /\ c.auth = "expired" /\ c.amount = deals[d].amount
        /\ c.asks = deals[d].asks /\ c.asked = deals[d].asked
    BY <2>1 DEF ADeal
  <2> HIDE DEF c
  <2>4. IsClosed(c) BY <1>4, <2>1, <2>3 DEF IsClosed, IsCovered, IsAsked
  <2>5. DealsClosed' BY <2>2, <2>4 DEF SaleInv, DealsClosed, IsClosed
  <2> QED BY <1>1, <2>5 DEF SaleInv, SaleTyped, DealUnderWay, InQuote, WasPut, notes
<1> QED BY <1>2, <1>3, <1>4

LEMMA ConnectKeeps == ASSUME SaleInv, Connect PROVE SaleInv'
<1>1. /\ step = "connect" /\ step' = "sent" /\ UNCHANGED <<seller, note, noteFile, deals>>
  BY DEF Connect, At, world, notes
<1>2. deal \in ADeal /\ WasPut(deal) /\ deal.auth = "none"
  BY <1>1 DEF SaleInv, DealUnderWay
<1>3. PICK old : old = IF client.open # 0 THEN client.open ELSE client.connecting OBVIOUS
<1>4. /\ client.last \in Nat /\ client.last + 1 \in Nat /\ old \in Nat
  BY <1>3 DEF SaleInv, SaleTyped
<1>5. \/ deal' = [deal EXCEPT !.using = old] /\ UNCHANGED client
      \/ /\ client' = [open |-> client.last + 1, connecting |-> client.last + 1,
                       last |-> client.last + 1, alive |-> client.last + 1]
         /\ deal' = [deal EXCEPT !.using = client.last + 1]
  BY <1>3 DEF Connect
<1>6. PICK n \in Nat : deal' = [deal EXCEPT !.using = n] BY <1>4, <1>5
<1>7. /\ deal' \in ADeal /\ deal'.auth = "none"
      /\ deal'.quoted = deal.quoted /\ deal'.asks = deal.asks /\ deal'.asked = deal.asked
  BY <1>2, <1>6 DEF ADeal
<1>8. DealUnderWay' BY <1>1, <1>2, <1>7 DEF DealUnderWay, WasPut
<1>9. /\ client'.last \in Nat /\ client'.open \in Nat /\ client'.connecting \in Nat
  BY <1>4, <1>5 DEF SaleInv, SaleTyped
<1> QED BY <1>1, <1>8, <1>9 DEF SaleInv, SaleTyped, DealsClosed, SaleSteps

LEMMA UnavailableKeeps == ASSUME SaleInv, Unavailable PROVE SaleInv'
<1>1. Refuse /\ deal.auth = "none" /\ UNCHANGED <<seller, notes, client>>
  BY DEF Unavailable, At, SaleInv, DealUnderWay, world, people
<1>2. DealUnderWay' /\ DealsClosed' /\ step' \in SaleSteps BY <1>1, RefuseKeeps
<1> QED BY <1>1, <1>2 DEF SaleInv, SaleTyped, notes

LEMMA PayKeeps == ASSUME SaleInv, Pay PROVE SaleInv'
<1>1. /\ step = "sent" /\ deal' = [deal EXCEPT !.auth = "used", !.amount = seller.price]
      /\ seller.price <= deal.quoted * UnitsPerCent
      /\ UNCHANGED <<seller, notes, step, deals, client>>
  BY DEF Pay, At, world, people
<1>2. deal \in ADeal /\ WasPut(deal) BY <1>1 DEF SaleInv, DealUnderWay
<1>3. seller.price \in Nat BY CeilingIs
<1>4. /\ deal' \in ADeal /\ deal'.auth = "used" /\ deal'.amount = seller.price
      /\ deal'.quoted = deal.quoted /\ deal'.asks = deal.asks /\ deal'.asked = deal.asked
  BY <1>1, <1>2, <1>3 DEF ADeal
<1>5. InQuote(deal)' /\ WasPut(deal)' BY <1>1, <1>2, <1>4 DEF InQuote, WasPut
<1>6. DealUnderWay' BY <1>1, <1>4, <1>5 DEF DealUnderWay
<1> QED BY <1>1, <1>6, GoesOn DEF SaleSteps

LEMMA AnswerKeeps == ASSUME SaleInv, Answer PROVE SaleInv'
<1>1. Parse /\ UNCHANGED <<seller, notes, client>> BY DEF Answer, world, people
<1>2. DealUnderWay' /\ DealsClosed' /\ step' \in SaleSteps
  BY <1>1, RefuseKeeps, UnknownKeeps, ReceiptKeeps DEF Parse
<1> QED BY <1>1, <1>2 DEF SaleInv, SaleTyped, notes

LEMMA FailKeeps == ASSUME SaleInv, Fail PROVE SaleInv'
<1>1. Close("unknown", deal.quoted) /\ UNCHANGED <<seller, notes>>
      /\ client' = [client EXCEPT !.open = 0]
  BY DEF Fail, Lost, world
<1>2. DealUnderWay' /\ DealsClosed' /\ step' \in SaleSteps BY <1>1, UnknownKeeps
<1>3. /\ client'.last \in Nat /\ client'.open \in Nat /\ client'.connecting \in Nat
  BY <1>1 DEF SaleInv, SaleTyped
<1> QED BY <1>1, <1>2, <1>3 DEF SaleInv, SaleTyped, notes

LEMMA RestartKeeps == ASSUME SaleInv, Restart PROVE SaleInv'
<1>1. /\ note' = NoNote /\ step' = "idle" /\ deal' = NoDeal /\ UNCHANGED <<seller, noteFile>>
      /\ \/ deals' = deals
         \/ deals' = [deals EXCEPT ![moves.deals] = Past("lost", 0)]
      /\ client' = [client EXCEPT !.open = 0, !.connecting = 0]
  BY DEF Restart
<1>2. IsClosed(Past("lost", 0)) BY PastIsClosed DEF Tolds, Enough
<1>3. DealsClosed' BY <1>1, <1>2 DEF SaleInv, DealsClosed, IsClosed
<1>4. /\ client'.last \in Nat /\ client'.open \in Nat /\ client'.connecting \in Nat
  BY <1>1 DEF SaleInv, SaleTyped
<1>5. SaleTyped' BY <1>1, <1>4 DEF SaleInv, SaleTyped, SaleSteps, ANote, NoNote
<1>6. DealUnderWay' BY <1>1, NoDealYet DEF DealUnderWay
<1> QED BY <1>3, <1>5, <1>6 DEF SaleInv

LEMMA SaleKeeps == SaleInv /\ [SaleNext]_saleVars => SaleInv'
<1> SUFFICES ASSUME SaleInv, [SaleNext]_saleVars PROVE SaleInv' OBVIOUS
<1>1. CASE ServerDies
  <2>1. /\ client' = [client EXCEPT !.alive = 0]
        /\ UNCHANGED <<seller, note, noteFile, step, deal, deals>>
    BY <1>1 DEF ServerDies, world, notes
  <2>2. SaleTyped' BY <2>1 DEF SaleInv, SaleTyped
  <2> QED BY <2>1, <2>2, AroundKeeps
<1>2. CASE UNCHANGED saleVars
  BY <1>2 DEF saleVars, SaleInv, SaleTyped, DealUnderWay, DealsClosed, IsClosed, IsCovered,
              IsAsked, InQuote, WasPut
<1> QED BY <1>1, <1>2, ChangesKeeps, InspectKeeps, CallKeeps, RequoteKeeps, ApproveKeeps,
     ProbeKeeps, SettleKeeps, SellerRepliesKeeps, CheckKeeps, LaterKeeps, ConnectKeeps,
     UnavailableKeeps, PayKeeps, AnswerKeeps, FailKeeps, RestartKeeps
  DEF SaleNext

\* Whatever a service's price does between two steps, and whatever answer is lost, the
\* session is charged what a call came to, or keeps it reserved - but for an authorization
\* that is settled after the answer was read, and one that was settled and answered by a 402
\* while the chain could not be read (gateway.ts, monad.ts).
THEOREM PaymentsAreCovered == SaleSpec => []PaidIsCovered
<1>1. SaleInv => PaidIsCovered
  BY DEF SaleInv, DealsClosed, IsClosed, IsCovered, PaidIsCovered, ADeal
<1> QED BY <1>1, SaleStarts, SaleKeeps, PTL DEF SaleSpec

\* Whatever a service's price does between two steps, what a call pays beyond its
\* max_cost_cents, or beyond the inspected ceiling where it was made without, is paid only
\* when the owner was asked for it (gateway.ts, forceApproval).
THEOREM PricesOverLimitAreAsked == SaleSpec => []PriceOverLimitIsAsked
<1>1. SaleInv => PriceOverLimitIsAsked
  BY DEF SaleInv, DealsClosed, IsClosed, IsAsked, PriceOverLimitIsAsked
<1> QED BY <1>1, SaleStarts, SaleKeeps, PTL DEF SaleSpec

-----------------------------------------------------------------------------
(***************************************************************************)
(* Prepaid credit.  A balance that a call was told is what was left at     *)
(* some moment, before the top-up or after it: what was spent by then was  *)
(* taken by the seller, and covers what the client counted.  A call that   *)
(* began alone can still count what goes below its own first balance.      *)
(***************************************************************************)
CreditSpec == CreditInit /\ [][CreditNext]_creditVars

ALane == [at : {"new", "sent", "served", "answered", "ended"}, before : Nat, alone : BOOLEAN,
         says : Nat, price : Nat, cost : Nat]
InFlight == {c \in Lanes : lane[c].at \in {"sent", "served", "answered"}}
Served   == {c \in Lanes : lane[c].at \in {"served", "answered"}}
Alone    == {c \in InFlight : lane[c].alone /\ lane[c].before > 0}
WasTold(x, more) ==
  x > 0 => \E a \in {0, credit.added} : /\ charged <= Credit + a - x
                                        /\ Credit + a - x <= credit.taken
                                        /\ charged + more <= Credit + a

CreditTyped ==
  /\ credit \in [left : Nat, taken : Nat, added : {0, TopUp}]
  /\ cached \in Nat /\ charged \in Nat
  /\ lane \in [Lanes -> ALane]
CanStillCount(c) ==
  /\ charged + lane[c].before <= Credit + credit.added
  /\ WasTold(cached, lane[c].before)
  /\ \A d \in Served : WasTold(lane[d].says, lane[c].before)
CreditInv ==
  /\ CreditTyped
  /\ credit.left + credit.taken = Credit + credit.added
  /\ charged <= credit.taken
  /\ inFlight = Cardinality(InFlight)
  /\ WasTold(cached, 0)
  /\ \A d \in Served : WasTold(lane[d].says, 0)
  /\ \A c \in Alone : CanStillCount(c)

LEMMA InFlightIsFinite == IsFiniteSet(InFlight) /\ IsFiniteSet(InFlight')
<1>1. InFlight \in SUBSET Lanes /\ InFlight' \in SUBSET Lanes BY DEF InFlight
<1> QED BY <1>1, FS_Subset, CreditAssumption

LEMMA NobodyInFlight == ASSUME CreditInv, inFlight = 0 PROVE InFlight = {}
BY InFlightIsFinite, FS_EmptySet DEF CreditInv

\* Money in a step that leaves what was told and what was counted.
LEMMA ToldStays ==
  ASSUME CreditTyped, CreditTyped', NEW x \in Nat, NEW more \in Nat, WasTold(x, more),
         charged' = charged, credit.taken <= credit'.taken, credit.added \in {0, credit'.added}
  PROVE  WasTold(x, more)'
BY CreditAssumption DEF CreditTyped, WasTold

LEMMA CreditStarts == CreditInit => CreditInv
<1> SUFFICES ASSUME CreditInit PROVE CreditInv OBVIOUS
<1>1. InFlight = {} /\ Served = {} /\ Alone = {} BY DEF CreditInit, InFlight, Served, Alone
<1>2. CreditTyped BY CreditAssumption DEF CreditInit, CreditTyped, ALane, NoCost
<1>3. WasTold(cached, 0) BY DEF WasTold, CreditInit
<1>4. Cardinality(InFlight) = 0 BY <1>1, FS_EmptySet
<1>5. credit.left + credit.taken = Credit + credit.added /\ charged <= credit.taken
  BY CreditAssumption DEF CreditInit
<1> QED BY <1>1, <1>2, <1>3, <1>4, <1>5 DEF CreditInv, CreditInit

LEMMA StartsCallKeeps ==
  ASSUME CreditInv, NEW c \in Lanes, StartsCall(c)
  PROVE  CreditInv'
<1> USE CreditAssumption
<1>1. CreditTyped /\ lane[c] \in ALane BY DEF CreditInv, CreditTyped
<1>2. lane[c].at = "new" /\ c \notin InFlight BY DEF StartsCall, InFlight
<1>3. PICK alone \in BOOLEAN : alone <=> inFlight = 0 OBVIOUS
<1>4. PICK new : new = [lane[c] EXCEPT !.at = "sent", !.before = cached, !.alone = alone]
  OBVIOUS
<1>5. alone = (inFlight = 0) BY <1>3
<1>6. new \in ALane /\ new.at = "sent" /\ new.before = cached /\ new.alone = alone
  BY <1>1, <1>4 DEF ALane, CreditTyped
<1>7. lane' = [lane EXCEPT ![c] = [lane[c] EXCEPT !.at = "sent", !.before = cached, !.alone = alone]]
  BY <1>1, <1>5 DEF StartsCall, CreditTyped
<1>8. lane' = [lane EXCEPT ![c] = new] /\ new \in ALane BY <1>4, <1>6, <1>7
<1>9. UNCHANGED <<credit, cached, charged>> BY DEF StartsCall
<1>10. CreditTyped' BY <1>1, <1>8, <1>9 DEF CreditTyped
<1>11. InFlight' = InFlight \cup {c} BY <1>1, <1>4, <1>8 DEF InFlight, CreditTyped
<1>12. Served' = Served BY <1>1, <1>2, <1>4, <1>8 DEF Served, CreditTyped
<1>13. inFlight' = Cardinality(InFlight')
  BY <1>2, <1>11, InFlightIsFinite, FS_AddElement DEF StartsCall, CreditInv
<1>14. ASSUME NEW d \in Served PROVE lane'[d] = lane[d]
  BY <1>1, <1>2, <1>8, <1>14 DEF Served, CreditTyped
<1>15. ASSUME NEW d \in Alone', d # c PROVE CanStillCount(d)'
  <2>1. d \in Alone /\ lane'[d] = lane[d] BY <1>1, <1>8, <1>11, <1>15 DEF Alone, InFlight, CreditTyped
  <2>2. CanStillCount(d) BY <2>1 DEF CreditInv
  <2> QED BY <2>1, <2>2, <1>9, <1>12, <1>14 DEF CanStillCount, WasTold
<1>16. ASSUME c \in Alone' PROVE CanStillCount(c)'
  <2>1. lane'[c] = new BY <1>1, <1>8 DEF CreditTyped
  <2>2. inFlight = 0 /\ cached > 0 BY <1>3, <1>6, <1>16, <2>1 DEF Alone
  <2>3. Served' = {} BY <1>12, <2>2, NobodyInFlight DEF Served, InFlight
  <2>4. WasTold(cached, 0) /\ credit.added \in Nat BY <1>1 DEF CreditInv, CreditTyped
  <2>5. charged + cached <= Credit + credit.added /\ WasTold(cached, cached)
    BY <1>1, <2>2, <2>4 DEF WasTold, CreditTyped
  <2> QED BY <1>4, <1>9, <2>1, <2>3, <2>5 DEF CanStillCount, WasTold
<1> QED BY <1>9, <1>10, <1>12, <1>13, <1>14, <1>15, <1>16 DEF CreditInv, WasTold

\* A call that goes on or ends keeps what it began with; nobody is counted anew.
LEMMA MovesOn ==
  ASSUME CreditInv, NEW c \in InFlight, NEW new \in ALane, lane' = [lane EXCEPT ![c] = new],
         new.before = lane[c].before, new.alone = lane[c].alone, new.says = lane[c].says,
         lane[c].at = "sent" => new.at = "ended", new.at \in {"answered", "ended"},
         CreditTyped', UNCHANGED charged, credit' = credit,
         (cached' = cached) \/ (c \in Served /\ cached' = lane[c].says),
         inFlight' = IF new.at = "ended" THEN inFlight - 1 ELSE inFlight
  PROVE  CreditInv'
<1>1. CreditTyped /\ lane[c] \in ALane /\ c \in Lanes BY DEF CreditInv, CreditTyped, InFlight
<1>2. InFlight' = IF new.at = "ended" THEN InFlight \ {c} ELSE InFlight
  BY <1>1 DEF InFlight, CreditTyped
<1>3. inFlight' = Cardinality(InFlight')
  BY <1>2, InFlightIsFinite, FS_RemoveElement DEF CreditInv
<1>4. ASSUME NEW d \in Served' PROVE d \in Served /\ lane'[d].says = lane[d].says
  BY <1>1 DEF Served, CreditTyped, InFlight
<1>5. ASSUME NEW d \in Alone' PROVE CanStillCount(d)'
  <2>1. d \in Alone /\ lane'[d].before = lane[d].before BY <1>1, <1>2 DEF Alone, CreditTyped, InFlight
  <2>2. CanStillCount(d) BY <2>1 DEF CreditInv
  <2>3. WasTold(cached', lane[d].before) BY <2>2 DEF CanStillCount
  <2> QED BY <1>4, <2>1, <2>2, <2>3 DEF CanStillCount, WasTold
<1>6. WasTold(cached', 0) BY DEF CreditInv
<1>7. ASSUME NEW d \in Served' PROVE WasTold(lane'[d].says, 0) BY <1>4 DEF CreditInv
<1> QED BY <1>3, <1>5, <1>6, <1>7 DEF CreditInv, WasTold

LEMMA ServesKeeps ==
  ASSUME CreditInv, NEW c \in Lanes, NEW price \in Prices, Serves(c, price)
  PROVE  CreditInv'
<1> USE CreditAssumption
<1>1. CreditTyped /\ lane[c] \in ALane /\ lane[c].at = "sent" /\ price \in Nat
  BY DEF CreditInv, CreditTyped, Serves
<1>2. PICK new : new = [lane[c] EXCEPT !.at = "served", !.price = price, !.says = credit.left - price]
  OBVIOUS
<1>3. credit.left - price \in Nat BY <1>1 DEF CreditTyped, Serves
<1>4. new \in ALane BY <1>1, <1>2, <1>3 DEF ALane
<1>5. /\ new.at = "served" /\ new.says = credit.left - price
      /\ new.before = lane[c].before /\ new.alone = lane[c].alone
  BY <1>1, <1>2 DEF ALane
<1>6. lane' = [lane EXCEPT ![c] = [lane[c] EXCEPT !.at = "served", !.price = price,
                                                  !.says = credit.left - price]]
  BY <1>1 DEF Serves, CreditTyped
<1>7. lane' = [lane EXCEPT ![c] = new] BY <1>2, <1>6
<1>8. credit' = [left |-> credit.left - price, taken |-> credit.taken + price, added |-> credit.added]
  BY <1>1 DEF Serves, CreditTyped
<1>9. UNCHANGED <<cached, inFlight, charged>> BY DEF Serves
<1>10. CreditTyped' BY <1>1, <1>3, <1>7, <1>4, <1>8, <1>9 DEF CreditTyped
<1>11. InFlight' = InFlight BY <1>1, <1>2, <1>7 DEF InFlight, CreditTyped
<1>12. credit'.left + credit'.taken = Credit + credit'.added /\ charged' <= credit'.taken
  BY <1>1, <1>8, <1>9 DEF CreditInv, CreditTyped
<1>13. credit.taken <= credit'.taken /\ credit'.added = credit.added BY <1>1, <1>8 DEF CreditTyped
<1>14. ASSUME NEW x \in Nat, NEW more \in Nat, WasTold(x, more) PROVE WasTold(x, more)'
  BY <1>1, <1>9, <1>10, <1>13, <1>14, ToldStays
<1>15. WasTold(cached, 0)' BY <1>1, <1>9, <1>14 DEF CreditInv, CreditTyped, WasTold
<1>16. ASSUME NEW more \in Nat, charged + more <= Credit + credit.added
       PROVE  WasTold(new.says, more)'
  BY <1>1, <1>2, <1>8, <1>9, <1>12, <1>16 DEF WasTold, CreditTyped
<1>17. ASSUME NEW d \in Served', d # c PROVE d \in Served /\ lane'[d] = lane[d] /\ lane[d].says \in Nat
  BY <1>1, <1>7, <1>17 DEF Served, CreditTyped, ALane
<1>18. lane'[c] = new BY <1>1, <1>7 DEF CreditTyped
<1>19. charged + 0 <= Credit + credit.added BY <1>1 DEF CreditInv, CreditTyped
<1>20. ASSUME NEW d \in Served' PROVE WasTold(lane[d].says, 0)'
  <2>1. CASE d = c BY <1>16, <1>18, <1>19, <2>1 DEF WasTold
  <2>2. CASE d # c
    <3>1. WasTold(lane[d].says, 0) BY <1>17, <2>2 DEF CreditInv
    <3>2. PICK x \in Nat : x = lane[d].says /\ x = lane'[d].says BY <1>17, <2>2
    <3>3. WasTold(x, 0) BY <3>1, <3>2
    <3>4. WasTold(x, 0)' BY <1>14, <3>3
    <3> QED BY <3>2, <3>4
  <2> QED BY <2>1, <2>2
<1>21. ASSUME NEW d \in Alone' PROVE CanStillCount(d)'
  <2>1. d \in Alone /\ lane'[d].before = lane[d].before /\ lane[d].before \in Nat
    BY <1>1, <1>2, <1>7, <1>11 DEF Alone, InFlight, CreditTyped, ALane
  <2>2. CanStillCount(d) BY <2>1 DEF CreditInv
  <2>3. PICK more \in Nat : more = lane[d].before BY <2>1
  <2>4. charged' + more <= Credit + credit'.added BY <1>9, <1>13, <2>2, <2>3 DEF CanStillCount
  <2>5. WasTold(cached, more)' BY <1>1, <1>9, <1>14, <2>2, <2>3 DEF CanStillCount, CreditTyped, WasTold
  <2>6. ASSUME NEW e \in Served' PROVE WasTold(lane[e].says, more)'
    <3>1. CASE e = c BY <1>9, <1>13, <1>16, <1>18, <2>4, <3>1 DEF WasTold
    <3>2. CASE e # c
      <4>1. WasTold(lane[e].says, more) BY <1>17, <2>2, <2>3, <3>2 DEF CanStillCount
      <4>2. PICK x \in Nat : x = lane[e].says /\ x = lane'[e].says BY <1>17, <3>2
      <4>3. WasTold(x, more) BY <4>1, <4>2
      <4>4. WasTold(x, more)' BY <1>14, <4>3
      <4> QED BY <4>2, <4>4
    <3> QED BY <3>1, <3>2
  <2> QED BY <2>1, <2>3, <2>4, <2>5, <2>6 DEF CanStillCount, WasTold
<1> QED BY <1>9, <1>10, <1>11, <1>12, <1>15, <1>20, <1>21 DEF CreditInv, WasTold

LEMMA AnsweredKeeps == ASSUME CreditInv, NEW c \in Lanes, Answered(c) PROVE CreditInv'
<1>1. CreditTyped /\ lane[c] \in ALane BY DEF CreditInv, CreditTyped
<1>2. PICK new : new = [lane[c] EXCEPT !.at = "answered"] OBVIOUS
<1>3. /\ new \in ALane /\ new.at = "answered" /\ new.before = lane[c].before
      /\ new.alone = lane[c].alone /\ new.says = lane[c].says
  BY <1>1, <1>2 DEF ALane
<1>4. lane' = [lane EXCEPT ![c] = [lane[c] EXCEPT !.at = "answered"]] BY <1>1 DEF Answered, CreditTyped
<1>5. lane' = [lane EXCEPT ![c] = new] /\ new \in ALane BY <1>2, <1>3, <1>4
<1>6. UNCHANGED <<credit, inFlight, charged>> /\ cached' = lane[c].says BY DEF Answered
<1>7. CreditTyped' BY <1>1, <1>5, <1>6 DEF CreditTyped, ALane
<1>8. c \in Served /\ c \in InFlight /\ lane[c].at = "served" BY DEF Answered, Served, InFlight
<1> QED BY <1>5, <1>6, <1>7, <1>8, <1>3, MovesOn

LEMMA FailsKeeps == ASSUME CreditInv, NEW c \in Lanes, Fails(c) PROVE CreditInv'
<1>1. CreditTyped /\ lane[c] \in ALane BY DEF CreditInv, CreditTyped
<1>2. PICK new : new = [lane[c] EXCEPT !.at = "ended"] OBVIOUS
<1>3. /\ new \in ALane /\ new.at = "ended" /\ new.before = lane[c].before
      /\ new.alone = lane[c].alone /\ new.says = lane[c].says
  BY <1>1, <1>2 DEF ALane
<1>4. lane' = [lane EXCEPT ![c] = [lane[c] EXCEPT !.at = "ended"]] BY <1>1 DEF Fails, CreditTyped
<1>5. lane' = [lane EXCEPT ![c] = new] /\ new \in ALane BY <1>2, <1>3, <1>4
<1>6. UNCHANGED <<credit, cached, charged>> BY DEF Fails
<1>7. CreditTyped' BY <1>1, <1>5, <1>6 DEF CreditTyped
<1>8. c \in InFlight /\ inFlight' = inFlight - 1 BY DEF Fails, InFlight
<1> QED BY <1>5, <1>6, <1>7, <1>8, <1>3, MovesOn

LEMMA EndsCallKeeps == ASSUME CreditInv, NEW c \in Lanes, EndsCall(c) PROVE CreditInv'
<1> USE CreditAssumption
<1>1. CreditTyped /\ lane[c] \in ALane BY DEF CreditInv, CreditTyped
<1>2. c \in InFlight /\ inFlight' = inFlight - 1 /\ UNCHANGED <<credit, cached>>
  BY DEF EndsCall, InFlight
<1>3. CostOf(c) \in Nat BY <1>1 DEF CostOf, CreditTyped, ALane, NoCost
<1>4. PICK cost \in Nat : cost = CostOf(c) BY <1>3
<1>5. PICK new : new = [lane[c] EXCEPT !.at = "ended", !.cost = cost] OBVIOUS
<1>6. /\ new \in ALane /\ new.at = "ended" /\ new.before = lane[c].before
      /\ new.alone = lane[c].alone /\ new.says = lane[c].says
  BY <1>1, <1>5 DEF ALane
<1>7. lane' = [lane EXCEPT ![c] = [lane[c] EXCEPT !.at = "ended", !.cost = cost]]
  BY <1>1, <1>4 DEF EndsCall, CreditTyped
<1>8. lane' = [lane EXCEPT ![c] = new] /\ new \in ALane BY <1>5, <1>6, <1>7
<1>9. charged' = charged + cost BY <1>4 DEF EndsCall
<1>10. CreditTyped' BY <1>1, <1>2, <1>8, <1>9 DEF CreditTyped
<1>11. CASE cost = 0
  <2>1. charged' = charged BY <1>1, <1>9, <1>11 DEF CreditTyped
  <2> QED BY <1>2, <1>8, <1>10, <1>6, <2>1, MovesOn
<1>12. CASE cost # 0
  <2>1. HadTheClient(c) /\ lane[c].before > 0 /\ cached > 0 /\ cost = lane[c].before - cached
    BY <1>4, <1>12 DEF CostOf, NoCost
  <2>2. c \in Alone /\ inFlight' = 0 BY <1>2, <2>1 DEF Alone, HadTheClient
  <2>3. InFlight' = InFlight \ {c} BY <1>1, <1>8, <1>6 DEF InFlight, CreditTyped
  <2>4. inFlight' = Cardinality(InFlight')
    BY <1>2, <2>3, InFlightIsFinite, FS_RemoveElement DEF CreditInv
  <2>5. InFlight' = {} BY <2>2, <2>4, InFlightIsFinite, FS_EmptySet
  <2>6. Served' = {} /\ Alone' = {} BY <2>5 DEF Served, Alone, InFlight
  <2>7. WasTold(cached, lane[c].before) BY <2>2 DEF CreditInv, CanStillCount
  <2>8. PICK a \in {0, credit.added} : /\ Credit + a - cached <= credit.taken
                                       /\ charged + lane[c].before <= Credit + a
    BY <2>1, <2>7 DEF WasTold
  <2>9. charged' <= Credit + a - cached /\ a \in Nat
    BY <1>1, <1>9, <2>1, <2>8 DEF CreditTyped, ALane
  <2>10. charged' <= credit'.taken BY <1>1, <1>2, <1>10, <2>8, <2>9 DEF CreditTyped
  <2>11. charged' + 0 <= Credit + a BY <1>1, <1>10, <2>9 DEF CreditTyped
  <2>12. WasTold(cached, 0)' BY <1>2, <2>8, <2>9, <2>11 DEF WasTold
  <2> QED BY <1>2, <1>10, <2>4, <2>6, <2>10, <2>12 DEF CreditInv
<1> QED BY <1>11, <1>12

LEMMA AddsCreditKeeps == ASSUME CreditInv, AddsCredit PROVE CreditInv'
<1> USE CreditAssumption
<1>1. CreditTyped /\ UNCHANGED <<cached, inFlight, lane, charged>> BY DEF CreditInv, AddsCredit
<1>2. credit' = [left |-> credit.left + TopUp, taken |-> credit.taken, added |-> TopUp]
  BY <1>1 DEF AddsCredit, CreditTyped
<1>3. credit.added = 0 BY DEF AddsCredit
<1>4. CreditTyped' BY <1>1, <1>2 DEF CreditTyped
<1>5. InFlight' = InFlight /\ Served' = Served /\ Alone' = Alone BY <1>1 DEF InFlight, Served, Alone
<1>6. credit'.left + credit'.taken = Credit + credit'.added /\ charged' <= credit'.taken
  BY <1>1, <1>2, <1>3 DEF CreditInv, CreditTyped
<1>7. ASSUME NEW x, NEW more, WasTold(x, more) PROVE WasTold(x, more)'
  BY <1>1, <1>2, <1>3, <1>7 DEF WasTold
<1>8. WasTold(cached, 0)' BY <1>1, <1>7 DEF CreditInv, WasTold
<1>9. ASSUME NEW d \in Served PROVE WasTold(lane[d].says, 0)'
  BY <1>1, <1>2, <1>3, <1>9 DEF WasTold, CreditInv
<1>10. ASSUME NEW c \in Alone PROVE CanStillCount(c)'
  <2>1. CanStillCount(c) /\ lane[c].before \in Nat
    BY <1>1, <1>10 DEF CreditInv, Alone, InFlight, CreditTyped, ALane
  <2>2. charged' + lane'[c].before <= Credit + credit'.added
    BY <1>1, <1>2, <1>3, <2>1 DEF CanStillCount, CreditTyped
  <2>3. WasTold(cached, lane[c].before)' BY <1>1, <1>2, <1>3, <2>1 DEF WasTold, CanStillCount
  <2>4. ASSUME NEW d \in Served PROVE WasTold(lane[d].says, lane[c].before)'
    BY <1>1, <1>2, <1>3, <2>1, <2>4 DEF WasTold, CanStillCount
  <2> QED BY <1>5, <2>2, <2>3, <2>4 DEF CanStillCount
<1> QED BY <1>1, <1>4, <1>5, <1>6, <1>8, <1>9, <1>10 DEF CreditInv

LEMMA CreditKeeps == CreditInv /\ [CreditNext]_creditVars => CreditInv'
<1>1. ASSUME CreditInv, UNCHANGED creditVars PROVE CreditInv'
  BY <1>1 DEF creditVars, CreditInv, CreditTyped, InFlight, Served, Alone, CanStillCount, WasTold
<1> QED BY <1>1, StartsCallKeeps, ServesKeeps, AnsweredKeeps, EndsCallKeeps, FailsKeeps, AddsCreditKeeps
        DEF CreditNext

\* No unit of credit is counted as the cost of two calls, however they overlap, fail or are
\* topped up underneath (providers.ts: exclusiveWindow, balanceBefore).
THEOREM DifferencesAreCountedOnce == CreditSpec => []DifferencesCountOnce
<1>1. CreditInv => DifferencesCountOnce BY DEF CreditInv, DifferencesCountOnce
<1> QED BY <1>1, CreditStarts, CreditKeeps, PTL DEF CreditSpec

-----------------------------------------------------------------------------
(***************************************************************************)
(* The owner's rules.  While no two sessions store at once and none has    *)
(* died storing, a whole file holds exactly the latest rules; a torn one   *)
(* has its writer, and what a session is about to write is the file with   *)
(* its decision in place.                                                  *)
(***************************************************************************)
ApprovalsSpec == ApprovalsInit /\ [][ApprovalsNext]_approvalVars

ARule == [service : Services, decision : {"none", "allow", "block"}, methods : SUBSET Methods, since : Nat]
Desk  == [at : {"idle", "loaded", "writing"}, rule : ARule \cup {NoRule}, rules : SUBSET ARule]

ApprovalsTyped ==
  /\ file \in [torn : BOOLEAN, rules : SUBSET ARule]
  /\ desks \in [Desks -> Desk]
  /\ latest \in [Services -> ARule \cup {NoRule}]
  /\ clash \in BOOLEAN /\ stores \in Nat

Busy(d) == desks[d].at # "idle"
Now(r)  == IF r.decision = "none" THEN NoRule ELSE r
\* The rules hold, about a service, one rule or none.
About(rules, s)      == {r \in rules : r.service = s}
Says1(rules, s, r)   == About(rules, s) = IF r = NoRule THEN {} ELSE {r}
HoldsLatest(rules)   == \A s \in Services : Says1(rules, s, latest[s])
HoldsChange(d) ==
  \A s \in Services : Says1(desks[d].rules, s, IF s = desks[d].rule.service
                                               THEN Now(desks[d].rule) ELSE latest[s])

OneStores    == \A d, e \in Desks : Busy(d) /\ Busy(e) => d = e
FileIsLatest == /\ ~file.torn => HoldsLatest(file.rules)
                /\ file.torn <=> \E d \in Desks : desks[d].at = "writing"
DeskIsReady  == \A d \in Desks : Busy(d) => desks[d].rule \in ARule /\ HoldsChange(d)
ApprovalsInv == ApprovalsTyped /\ (~clash => OneStores /\ FileIsLatest /\ DeskIsReady)

LEMMA IdleDesk == Idle \in Desk /\ Idle.at = "idle"
BY DEF Idle, Desk

\* What is written is the old rules with the decision in place.
LEMMA UpsertSays ==
  ASSUME NEW rules \in SUBSET ARule, NEW rule \in ARule, NEW s \in Services, NEW old,
         Says1(rules, s, old)
  PROVE  /\ Upsert(rules, rule) \in SUBSET ARule
         /\ Says1(Upsert(rules, rule), s, IF s = rule.service THEN Now(rule) ELSE old)
<1>1. rule.decision # "none" => rule # NoRule BY DEF NoRule, Rule
<1>2. Upsert(rules, rule) \in SUBSET ARule BY DEF Upsert
<1>3. CASE s = rule.service
  <2>1. CASE rule.decision = "none" BY <1>3, <2>1 DEF Says1, About, Upsert, Now
  <2>2. CASE rule.decision # "none" BY <1>1, <1>3, <2>2 DEF Says1, About, Upsert, Now
  <2> QED BY <1>2, <2>1, <2>2
<1>4. CASE s # rule.service
  <2>1. About(Upsert(rules, rule), s) = About(rules, s) BY <1>4 DEF About, Upsert
  <2> QED BY <1>2, <1>4, <2>1 DEF Says1
<1> QED BY <1>3, <1>4

LEMMA LoadKeeps ==
  ASSUME ApprovalsInv, NEW d \in Desks, NEW decided \in Allows \cup Blocks \cup Removes,
         Load(d, decided)
  PROVE  ApprovalsInv'
<1> USE DEF ApprovalsInv, ApprovalsTyped
<1>1. PICK rule : rule = [decided EXCEPT !.since = stores + 1] OBVIOUS
<1>2. rule \in ARule
  BY <1>1 DEF Allows, Blocks, Removes, Rule, NoRule, ARule
<1>3. PICK rules : rules = Upsert(file.rules, rule) OBVIOUS
<1>4. PICK new : new = [at |-> "loaded", rule |-> rule, rules |-> rules] OBVIOUS
<1>5. /\ desks' = [desks EXCEPT ![d] = new] /\ file' = file /\ latest' = latest /\ ~file.torn
      /\ desks[d].at = "idle" /\ stores' = stores + 1 /\ clash' = (clash \/ Others(d))
  BY <1>1, <1>3, <1>4 DEF Load
<1>6. file.rules \in SUBSET ARule OBVIOUS
<1>7. rules \in SUBSET ARule BY <1>2, <1>3, <1>6 DEF Upsert
<1>8. new \in Desk BY <1>2, <1>4, <1>7 DEF Desk
<1>9. ApprovalsTyped'
  <2>1. clash' \in BOOLEAN BY <1>5 DEF Others
  <2>2. stores' \in Nat BY <1>5
  <2>3. desks' \in [Desks -> Desk] BY <1>5, <1>8
  <2> QED BY <1>5, <2>1, <2>2, <2>3
<1>10. ASSUME ~clash' PROVE (OneStores /\ FileIsLatest /\ DeskIsReady)'
  <2>1. ~clash /\ ~Others(d) BY <1>5, <1>10
  <2>2. \A e \in Desks \ {d} : desks'[e] = desks[e] /\ desks[e].at = "idle"
    BY <1>5, <2>1 DEF Others
  <2>3. desks'[d] = new BY <1>5
  <2>4. OneStores' BY <2>2 DEF OneStores, Busy
  <2>5. HoldsLatest(file.rules) BY <1>5, <2>1 DEF FileIsLatest
  <2>6. FileIsLatest'
    <3>1. HoldsLatest(file.rules)' BY <1>5, <2>5 DEF HoldsLatest
    <3>2. \A e \in Desks : desks'[e].at # "writing" BY <1>4, <2>2, <2>3
    <3> QED BY <1>5, <3>1, <3>2 DEF FileIsLatest
  <2>7. HoldsChange(d)'
    <3>1. ASSUME NEW s \in Services
          PROVE  Says1(rules, s, IF s = rule.service THEN Now(rule) ELSE latest[s])
      <4>1. Says1(file.rules, s, latest[s]) BY <2>5 DEF HoldsLatest
      <4> QED BY <1>2, <1>3, <1>6, <4>1, UpsertSays
    <3>2. desks'[d].rules = rules /\ desks'[d].rule = rule BY <1>4, <2>3
    <3> QED BY <1>5, <3>1, <3>2 DEF HoldsChange
  <2>8. DeskIsReady' BY <1>2, <1>4, <2>2, <2>3, <2>7 DEF DeskIsReady, Busy
  <2> QED BY <2>4, <2>6, <2>8
<1> QED BY <1>9, <1>10

\* The file is torn while it is written.
LEMMA TruncateKeeps == ASSUME ApprovalsInv, NEW d \in Desks, Truncate(d) PROVE ApprovalsInv'
<1> USE DEF ApprovalsInv, ApprovalsTyped
<1>1. PICK new : new = [desks[d] EXCEPT !.at = "writing"] OBVIOUS
<1>2. /\ desks' = [desks EXCEPT ![d] = new] /\ latest' = latest /\ clash' = clash
      /\ stores' = stores /\ desks[d].at = "loaded" /\ file' = [torn |-> TRUE, rules |-> {}]
  BY <1>1 DEF Truncate
<1>3. /\ new \in Desk /\ new.at = "writing" /\ new.rule = desks[d].rule /\ new.rules = desks[d].rules
  BY <1>1 DEF Desk
<1>4. ApprovalsTyped' BY <1>2, <1>3
<1>5. \A e \in Desks : /\ desks'[e].rule = desks[e].rule /\ desks'[e].rules = desks[e].rules
                       /\ Busy(e)' <=> Busy(e)
  BY <1>2, <1>3 DEF Busy
<1>6. ASSUME ~clash PROVE (OneStores /\ FileIsLatest /\ DeskIsReady)'
  <2>1. OneStores' BY <1>5, <1>6 DEF OneStores
  <2>2. desks'[d].at = "writing" BY <1>2, <1>3
  <2>3. FileIsLatest' BY <1>2, <2>2 DEF FileIsLatest
  <2>4. \A e \in Desks : HoldsChange(e)' <=> HoldsChange(e) BY <1>2, <1>5 DEF HoldsChange
  <2>5. DeskIsReady' BY <1>5, <1>6, <2>4 DEF DeskIsReady
  <2> QED BY <2>1, <2>3, <2>5
<1> QED BY <1>2, <1>4, <1>6

\* The new file has the decision in it, and nobody else was about to write.
LEMMA StoreKeeps == ASSUME ApprovalsInv, NEW d \in Desks, Store(d) PROVE ApprovalsInv'
<1> USE DEF ApprovalsInv, ApprovalsTyped
<1>1. PICK rule : rule = desks[d].rule OBVIOUS
<1>2. PICK rules : rules = desks[d].rules OBVIOUS
<1>3. /\ file' = [torn |-> FALSE, rules |-> rules] /\ clash' = clash /\ stores' = stores
      /\ latest' = [latest EXCEPT ![rule.service] = Now(rule)]
      /\ desks' = [desks EXCEPT ![d] = Idle] /\ desks[d].at = "writing"
  BY <1>1, <1>2 DEF Store, Now
<1>4. rule \in ARule \cup {NoRule} /\ rules \in SUBSET ARule BY <1>1, <1>2 DEF Desk
<1>5. Now(rule) \in ARule \cup {NoRule} BY <1>4 DEF Now
<1>6. ApprovalsTyped'
  <2>1. latest' \in [Services -> ARule \cup {NoRule}] BY <1>3, <1>5
  <2>2. desks' \in [Desks -> Desk] BY <1>3, IdleDesk
  <2> QED BY <1>3, <1>4, <2>1, <2>2
<1>7. ASSUME ~clash PROVE (OneStores /\ FileIsLatest /\ DeskIsReady)'
  <2>1. Busy(d) BY <1>3 DEF Busy
  <2>2. \A e \in Desks \ {d} : desks'[e] = desks[e] /\ ~Busy(e) BY <1>3, <1>7, <2>1 DEF OneStores
  <2>3. desks'[d] = Idle BY <1>3
  <2>4. \A e \in Desks : desks'[e].at = "idle" BY <2>2, <2>3, IdleDesk DEF Busy
  <2>5. OneStores' /\ DeskIsReady' BY <2>4 DEF OneStores, DeskIsReady, Busy
  <2>6. HoldsChange(d) /\ rule \in ARule BY <1>1, <1>7, <2>1 DEF DeskIsReady
  <2>7. ASSUME NEW s \in Services PROVE Says1(rules, s, latest'[s])
    <3>1. Says1(rules, s, IF s = rule.service THEN Now(rule) ELSE latest[s])
      BY <1>1, <1>2, <2>6 DEF HoldsChange
    <3>2. latest'[s] = IF s = rule.service THEN Now(rule) ELSE latest[s] BY <1>3
    <3> QED BY <3>1, <3>2
  <2>8. FileIsLatest' BY <1>3, <2>4, <2>7 DEF FileIsLatest, HoldsLatest
  <2> QED BY <2>5, <2>8
<1> QED BY <1>3, <1>6, <1>7

LEMMA DiesKeeps == ASSUME ApprovalsInv, NEW d \in Desks, Dies(d) PROVE ApprovalsInv'
<1> USE DEF ApprovalsInv, ApprovalsTyped
<1>1. /\ desks' = [desks EXCEPT ![d] = Idle] /\ UNCHANGED <<file, latest, stores>>
      /\ clash' = (clash \/ desks[d].at = "writing") /\ Busy(d)
  BY DEF Dies, Busy
<1>2. ApprovalsTyped' BY <1>1, IdleDesk
<1>3. ASSUME ~clash' PROVE (OneStores /\ FileIsLatest /\ DeskIsReady)'
  <2>1. ~clash /\ desks[d].at # "writing" BY <1>1, <1>3
  <2>2. \A e \in Desks \ {d} : desks'[e] = desks[e] /\ ~Busy(e) BY <1>1, <2>1 DEF OneStores
  <2>3. desks'[d] = Idle BY <1>1
  <2>4. \A e \in Desks : desks'[e].at = "idle" BY <2>2, <2>3, IdleDesk DEF Busy
  <2>5. OneStores' /\ DeskIsReady' BY <2>4 DEF OneStores, DeskIsReady, Busy
  <2>6. \A e \in Desks : desks[e].at # "writing" BY <2>1, <2>2 DEF Busy
  <2>7. HoldsLatest(file.rules)' <=> HoldsLatest(file.rules) BY <1>1 DEF HoldsLatest
  <2>8. FileIsLatest' BY <1>1, <2>1, <2>4, <2>6, <2>7 DEF FileIsLatest
  <2> QED BY <2>5, <2>8
<1> QED BY <1>2, <1>3

LEMMA ApprovalsStart == ApprovalsInit => ApprovalsInv
<1> SUFFICES ASSUME ApprovalsInit PROVE ApprovalsInv OBVIOUS
<1>1. /\ file = [torn |-> FALSE, rules |-> {}] /\ desks = [d \in Desks |-> Idle]
      /\ latest = [s \in Services |-> NoRule] /\ clash = FALSE /\ stores = 0
  BY DEF ApprovalsInit
<1>2. ApprovalsTyped BY <1>1, IdleDesk DEF ApprovalsTyped
<1>3. \A d \in Desks : desks[d].at = "idle" BY <1>1, IdleDesk
<1>4. \A s \in Services : Says1(file.rules, s, latest[s]) BY <1>1 DEF Says1, About
<1> QED BY <1>1, <1>2, <1>3, <1>4
        DEF ApprovalsInv, OneStores, FileIsLatest, HoldsLatest, DeskIsReady, Busy

LEMMA ApprovalsKeep == ApprovalsInv /\ [ApprovalsNext]_approvalVars => ApprovalsInv'
<1> SUFFICES ASSUME ApprovalsInv, [ApprovalsNext]_approvalVars PROVE ApprovalsInv' OBVIOUS
<1>1. CASE \E d \in Desks, r \in Allows \cup Blocks \cup Removes : Load(d, r) BY <1>1, LoadKeeps
<1>2. CASE \E d \in Desks : Truncate(d) BY <1>2, TruncateKeeps
<1>3. CASE \E d \in Desks : Store(d) BY <1>3, StoreKeeps
<1>4. CASE \E d \in Desks : Dies(d) BY <1>4, DiesKeeps
<1>5. CASE UNCHANGED approvalVars
  BY <1>5 DEF approvalVars, ApprovalsInv, ApprovalsTyped, OneStores, FileIsLatest, HoldsLatest,
              DeskIsReady, HoldsChange, Busy
<1> QED BY <1>1, <1>2, <1>3, <1>4, <1>5 DEF ApprovalsNext

\* The rules about some services are the decisions that stand about them.
LEMMA FileIsStanding ==
  ASSUME ApprovalsTyped, HoldsLatest(file.rules), NEW S \in SUBSET Services
  PROVE  {r \in file.rules : r.service \in S} = Standing(S)
<1>1. \A r \in file.rules : r.service \in Services BY DEF ApprovalsTyped, ARule
<1>2. ASSUME NEW r \in file.rules, r.service \in S PROVE r \in Standing(S)
  <2>1. PICK s \in S : s = r.service BY <1>2
  <2>2. r \in About(file.rules, s) BY <2>1 DEF About
  <2>3. r = latest[s] /\ r # NoRule BY <2>1, <2>2 DEF HoldsLatest, Says1
  <2> QED BY <2>1, <2>3 DEF Standing
<1>3. ASSUME NEW r \in Standing(S) PROVE r \in file.rules /\ r.service \in S
  <2>1. PICK s \in S : r = latest[s] /\ r # NoRule BY <1>3 DEF Standing
  <2>2. About(file.rules, s) = {r} BY <2>1 DEF HoldsLatest, Says1
  <2> QED BY <2>1, <2>2 DEF About
<1> QED BY <1>2, <1>3

\* The rule of a service, alone or as the only one that stands.
LEMMA StandingOfOne ==
  ASSUME ApprovalsTyped, NEW s \in Services
  PROVE  /\ latest[s] = NoRule => Standing({s}) = {}
         /\ latest[s] # NoRule => Standing({s}) = {latest[s]} /\ First(Standing({s})) = latest[s]
<1>1. CASE latest[s] = NoRule BY <1>1 DEF Standing
<1>2. CASE latest[s] # NoRule
  <2>1. Standing({s}) = {latest[s]} BY <1>2 DEF Standing
  <2>2. PICK r : r = latest[s] OBVIOUS
  <2>3. r.since <= r.since BY <1>2, <2>2 DEF ApprovalsTyped, ARule
  <2>4. First({r}) = r BY <2>3 DEF First
  <2> QED BY <1>2, <2>1, <2>2, <2>4
<1> QED BY <1>1, <1>2

\* A call's rule is that of the endpoint, else that of the origin, else the first one about
\* a service the endpoint begins with.
LEMMA LatestIsMatched ==
  ASSUME ApprovalsTyped, HoldsLatest(file.rules)
  PROVE  MatchRule(file.rules) =
           CASE latest["endpoint"] # NoRule -> latest["endpoint"]
             [] latest["endpoint"] = NoRule /\ latest["origin"] # NoRule -> latest["origin"]
             [] OTHER -> IF Standing(Prefixed) = {} THEN NoRule ELSE First(Standing(Prefixed))
<1> DEFINE of(i) == {r \in file.rules : r.service \in Ranks[i]}
<1>1. DOMAIN Ranks = 1..3 /\ Ranks[1] = {"endpoint"} /\ Ranks[2] = {"origin"} /\ Ranks[3] = Prefixed
  BY DEF Ranks
<1>2. of(1) = Standing({"endpoint"}) /\ of(2) = Standing({"origin"}) /\ of(3) = Standing(Prefixed)
  BY <1>1, FileIsStanding DEF Services
<1> HIDE DEF of
<1>3. PICK D : D = {i \in DOMAIN Ranks : of(i) # {}} OBVIOUS
<1>4. MatchRule(file.rules) = IF D = {} THEN NoRule ELSE First(of(Min(D))) BY <1>3 DEF MatchRule, of
<1>5. D = {i \in {1, 2, 3} : of(i) # {}} BY <1>1, <1>3
<1>6. CASE latest["endpoint"] # NoRule
  <2>1. 1 \in D BY <1>2, <1>5, <1>6, StandingOfOne DEF Services
  <2>2. Min(D) = 1 BY <1>5, <2>1 DEF Min
  <2> QED BY <1>2, <1>4, <1>6, <2>1, <2>2, StandingOfOne DEF Services
<1>7. CASE latest["endpoint"] = NoRule /\ latest["origin"] # NoRule
  <2>1. 1 \notin D /\ 2 \in D BY <1>2, <1>5, <1>7, StandingOfOne DEF Services
  <2>2. Min(D) = 2 BY <1>5, <2>1 DEF Min
  <2> QED BY <1>2, <1>4, <1>7, <2>1, <2>2, StandingOfOne DEF Services
<1>8. CASE latest["endpoint"] = NoRule /\ latest["origin"] = NoRule
  <2>1. 1 \notin D /\ 2 \notin D BY <1>2, <1>5, <1>8, StandingOfOne DEF Services
  <2>2. CASE Standing(Prefixed) = {}
    <3>1. D = {} BY <1>2, <1>5, <2>1, <2>2
    <3> QED BY <1>4, <1>8, <2>2, <3>1
  <2>3. CASE Standing(Prefixed) # {}
    <3>1. D = {3} BY <1>2, <1>5, <2>1, <2>3
    <3>2. Min(D) = 3 BY <3>1 DEF Min
    <3> QED BY <1>2, <1>4, <1>8, <2>3, <3>1, <3>2
  <2> QED BY <2>2, <2>3
<1> QED BY <1>6, <1>7, <1>8

\* What the owner decided last about a service is what its calls get, for any services that
\* an endpoint begins with, unless two sessions store at once or one dies storing.
THEOREM LatestDecisionsStand == ApprovalsSpec => []LatestDecisionStands
<1>1. ApprovalsInv => LatestDecisionStands
  <2> SUFFICES ASSUME ApprovalsInv, ~clash, ~file.torn PROVE LatestDecisionStands
    BY DEF LatestDecisionStands
  <2>1. ApprovalsTyped /\ HoldsLatest(file.rules) BY DEF ApprovalsInv, FileIsLatest
  <2> QED BY <2>1, LatestIsMatched DEF LatestDecisionStands, Stands
<1> QED BY <1>1, ApprovalsStart, ApprovalsKeep, PTL DEF ApprovalsSpec

-----------------------------------------------------------------------------
(***************************************************************************)
(* A funded task.  A plan is kept because the purchases that follow are    *)
(* the ones it looked at, one by one: the simulation with all the money    *)
(* there could be on one network says what the task will take from each,   *)
(* and a wallet that has as much, or as much as the simulation's, pays the *)
(* same offers in the same order (FollowsThePlan).                         *)
(***************************************************************************)
\* Money per network, and a task as a sequence of calls makes it.
IsWallet(f) == DOMAIN f \subseteq Networks /\ f \in [DOMAIN f -> Int]
IsTask(t) ==
  /\ t \in Seq(Purchase)
  /\ \A i \in 1..Len(t) :
       /\ t[i].offers # {} /\ \A o \in t[i].offers : o.free => o.price = 0
       /\ t[i].again => i > 1 /\ t[i - 1].offers = t[i].offers /\ ~IsFree(t[i].offers)
Whole(offers) == \A o \in offers : o.price % Cent = 0
IsExact(t) == \A i \in 1..Len(t) : t[i].again => Whole(t[i].offers)

LEMMA FundingLeastOf ==
  ASSUME NEW T \in SUBSET Nat, T # {}
  PROVE  \E x \in T : \A y \in T : x <= y
<1>1. PICK R : R = OpToRel(<, Nat) OBVIOUS
<1>2. IsWellFoundedOn(R, Nat) BY <1>1, NatLessThanWellFounded
<1>3. PICK x \in T : \A y \in T : ~(<<y, x>> \in R) BY <1>2, WFMin
<1>4. ASSUME NEW y \in T PROVE x <= y
  <2>1. <<y, x>> \notin R BY <1>3
  <2>2. y < x => <<y, x>> \in R BY <1>1 DEF OpToRel
  <2> QED BY <2>1, <2>2
<1> QED BY <1>3, <1>4

\* What holds of nothing and is handed on holds as far as that.
LEMMA StepByStep ==
  ASSUME NEW n \in Nat, NEW T \in SUBSET Nat, 0 \in T, \A k \in 0..(n - 1) : k \in T => k + 1 \in T
  PROVE  \A k \in 0..n : k \in T
<1> SUFFICES ASSUME (0..n) \ T # {} PROVE FALSE OBVIOUS
<1>0. (0..n) \ T \in SUBSET Nat OBVIOUS
<1>1. PICK x \in (0..n) \ T : \A y \in (0..n) \ T : x <= y BY <1>0, FundingLeastOf
<1>2. x # 0 /\ x \in 0..n BY <1>1
<1>3. x - 1 \in 0..(n - 1) /\ x - 1 \notin (0..n) \ T BY <1>1, <1>2
<1>4. x - 1 \in T BY <1>3
<1>5. (x - 1) + 1 \in T BY <1>3, <1>4
<1> QED BY <1>1, <1>2, <1>5

\* Division where the quotient is known, and what is rounded to cents.
LEMMA QuotientOf ==
  ASSUME NEW b \in Nat \ {0}, NEW q \in Nat, NEW r \in 0..(b - 1)
  PROVE  (q * b + r) \div b = q /\ (q * b) % b = 0
<1>1. q * b \in Nat OBVIOUS
<1>2. (q * b) % b = 0 BY SMT
<1>3. (q * b + r) \div b = q BY SMT
<1> QED BY <1>2, <1>3

LEMMA WholeCents ==
  ASSUME NEW x \in Nat
  PROVE  /\ Cents(x) \in Nat /\ Cents(x) % Cent = 0
         /\ x % Cent = 0 => Cents(x) = x
<1>1. Cent \in Nat /\ Cent > 0 BY FundingAssumption
<1> DEFINE q == (2 * x + Cent) \div (2 * Cent)
<1>2. q \in Nat
  <2>1. 2 * Cent \in Nat /\ 2 * Cent > 0 /\ 2 * x + Cent \in Nat BY <1>1
  <2> QED BY <2>1, SMT
<1>3. Cents(x) = q * Cent BY DEF Cents
<1>4. ASSUME x % Cent = 0 PROVE q = x \div Cent
  <2>1. PICK c \in Nat : x = c * Cent
    <3>1. x \div Cent \in Nat /\ x = (x \div Cent) * Cent BY <1>1, <1>4
    <3> QED BY <3>1
  <2>2. x \div Cent = c BY <1>1, <2>1, QuotientOf
  <2>3. 2 * Cent \in Nat \ {0} /\ Cent \in 0..(2 * Cent - 1) BY <1>1
  <2>4. 2 * x + Cent = c * (2 * Cent) + Cent BY <1>1, <2>1
  <2>5. (c * (2 * Cent) + Cent) \div (2 * Cent) = c
    <3> DEFINE b == 2 * Cent
    <3>1. b \in Nat \ {0} /\ Cent \in 0..(b - 1) BY <2>3
    <3> HIDE DEF b
    <3>2. (c * b + Cent) \div b = c BY <2>1, <3>1, QuotientOf
    <3> QED BY <3>2 DEF b
  <2> QED BY <2>2, <2>4, <2>5
<1>5. x % Cent = 0 => x = (x \div Cent) * Cent BY <1>1
<1> HIDE DEF q
<1>6. (q * Cent) % Cent = 0 /\ q * Cent \in Nat BY <1>1, <1>2, QuotientOf
<1> QED BY <1>3, <1>4, <1>5, <1>6

LEMMA WholeSum ==
  ASSUME NEW x \in Nat, NEW y \in Nat, x % Cent = 0, y % Cent = 0
  PROVE  (x + y) % Cent = 0
<1>1. Cent \in Nat /\ Cent > 0 BY FundingAssumption
<1>2. PICK a \in Nat : x = a * Cent
  <2>1. x \div Cent \in Nat /\ x = (x \div Cent) * Cent BY <1>1
  <2> QED BY <2>1
<1>3. PICK c \in Nat : y = c * Cent
  <2>1. y \div Cent \in Nat /\ y = (y \div Cent) * Cent BY <1>1
  <2> QED BY <2>1
<1>4. x + y = (a + c) * Cent BY <1>1, <1>2, <1>3
<1>5. a + c \in Nat OBVIOUS
<1>6. ((a + c) * Cent) % Cent = 0 BY <1>1, <1>5, QuotientOf
<1> QED BY <1>4, <1>6

LEMMA RoundedUp ==
  ASSUME NEW x \in Nat
  PROVE  Up(x) \in Nat /\ Up(x) >= x
<1>1. Cent \in Nat /\ Cent > 0 BY FundingAssumption
<1> DEFINE q == (x + Cent - 1) \div Cent
<1>2. q \in Nat /\ x + Cent - 1 < q * Cent + Cent
  <2>1. x + Cent - 1 \in Nat BY <1>1
  <2> QED BY <1>1, <2>1, SMT
<1>3. Up(x) = q * Cent BY DEF Up
<1> HIDE DEF q
<1>4. q * Cent \in Nat BY <1>1, <1>2
<1> QED BY <1>1, <1>2, <1>3, <1>4

LEMMA RoundedDown ==
  ASSUME NEW x \in Int
  PROVE  Down(x) \in Int /\ Down(x) <= x
<1>1. Cent \in Nat /\ Cent > 0 BY FundingAssumption
<1> DEFINE q == x \div Cent
<1>2. q \in Int /\ q * Cent <= x BY <1>1, SMT
<1>3. Down(x) = q * Cent BY DEF Down
<1> HIDE DEF q
<1> QED BY <1>1, <1>2, <1>3

-----------------------------------------------------------------------------
LEMMA RanksDiffer ==
  /\ Networks = {"base", "solana", "tempo"}
  /\ \A n \in Networks : Rank(n) \in Nat
  /\ \A m, n \in Networks : Rank(m) = Rank(n) => m = n
<1>1. DOMAIN GatewayPreference = 1..3 /\ GatewayPreference[1] = "base" /\ GatewayPreference[2] = "solana"
      /\ GatewayPreference[3] = "tempo"
  BY DEF GatewayPreference
<1>2. Networks = {"base", "solana", "tempo"} BY <1>1 DEF Networks, ToSet
<1>3. ASSUME NEW n \in Networks PROVE Rank(n) \in 1..3 /\ GatewayPreference[Rank(n)] = n
  <2>1. \E i \in 1..3 : GatewayPreference[i] = n BY <1>1, <1>2, <1>3
  <2> QED BY <1>1, <2>1 DEF Rank
<1>4. \A n \in Networks : Rank(n) \in Nat BY <1>3
<1>5. \A m, n \in Networks : Rank(m) = Rank(n) => m = n BY <1>3
<1> QED BY <1>2, <1>4, <1>5

LEMMA CheapestIs ==
  ASSUME NEW S \in SUBSET Offers, S # {}
  PROVE  /\ CheapestOf(S) \in S
         /\ \A p \in S : \/ CheapestOf(S).price < p.price
                         \/ /\ CheapestOf(S).price = p.price
                            /\ Rank(CheapestOf(S).network) <= Rank(p.network)
<1>1. \A o \in S : o.price \in Nat /\ o.network \in Networks BY DEF Offers
<1>2. PICK P : P = {o.price : o \in S} OBVIOUS
<1>3. PICK x \in P : \A y \in P : x <= y
  <2>1. P \in SUBSET Nat /\ P # {} BY <1>1, <1>2
  <2> QED BY <2>1, FundingLeastOf
<1>4. PICK R : R = {Rank(o.network) : o \in {q \in S : q.price = x}} OBVIOUS
<1>5. PICK r \in R : \A y \in R : r <= y
  <2>1. R \in SUBSET Nat BY <1>1, <1>4, RanksDiffer
  <2>2. R # {} BY <1>2, <1>3, <1>4
  <2> QED BY <2>1, <2>2, FundingLeastOf
<1>6. PICK o \in S : o.price = x /\ Rank(o.network) = r BY <1>4, <1>5
<1>7. ASSUME NEW p \in S
      PROVE  o.price < p.price \/ (o.price = p.price /\ Rank(o.network) <= Rank(p.network))
  <2>1. x <= p.price /\ x \in Nat /\ p.price \in Nat BY <1>1, <1>2, <1>3
  <2>2. CASE p.price = x
    <3>1. Rank(p.network) \in R BY <1>4, <2>2
    <3> QED BY <1>5, <1>6, <2>2, <3>1
  <2>3. CASE p.price # x BY <1>6, <2>1, <2>3
  <2> QED BY <2>2, <2>3
<1>8. \E q \in S : \A p \in S : q.price < p.price
                                \/ (q.price = p.price /\ Rank(q.network) <= Rank(p.network))
  BY <1>6, <1>7
<1> QED BY <1>8 DEF CheapestOf

LEMMA ChoiceIs ==
  ASSUME NEW f, IsWallet(f), NEW offers \in SUBSET Offers
  PROVE  /\ Choice(f, offers) \in offers \cup {NoOffer}
         /\ Choice(f, offers) = NoOffer =>
              ~IsFree(offers) /\ \A o \in offers : ~(Holds(f, o.network) >= o.price)
         /\ Choice(f, offers) # NoOffer =>
              Choice(f, offers).free \/ Holds(f, Choice(f, offers).network) >= Choice(f, offers).price
<1>1. NoOffer \notin Offers
  <2>1. NoOffer.network = "none" BY DEF NoOffer
  <2> QED BY <2>1, RanksDiffer DEF Offers
<1>2. PICK covered : covered = {o \in offers : Holds(f, o.network) >= o.price} OBVIOUS
<1>3. Choice(f, offers) = IF IsFree(offers) THEN CHOOSE o \in offers : o.free
                          ELSE IF covered = {} THEN NoOffer ELSE CheapestOf(covered)
  BY <1>2 DEF Choice
<1>4. CASE IsFree(offers)
  <2>1. Choice(f, offers) \in offers /\ Choice(f, offers).free BY <1>3, <1>4 DEF IsFree
  <2> QED BY <1>1, <2>1
<1>5. CASE ~IsFree(offers) /\ covered = {} BY <1>2, <1>3, <1>5
<1>6. CASE ~IsFree(offers) /\ covered # {}
  <2>1. covered \in SUBSET Offers BY <1>2
  <2>2. CheapestOf(covered) \in covered BY <1>6, <2>1, CheapestIs
  <2>3. Choice(f, offers) = CheapestOf(covered) BY <1>3, <1>6
  <2> QED BY <1>1, <1>2, <2>2, <2>3
<1> QED BY <1>4, <1>5, <1>6

\* Who has less, but enough for what another one chooses, chooses the same.
LEMMA SameChoice ==
  ASSUME NEW f, IsWallet(f), NEW g, IsWallet(g), NEW offers \in SUBSET Offers,
         \A n \in Networks : Holds(g, n) <= Holds(f, n),
         Choice(f, offers) # NoOffer,
         Choice(f, offers).free \/ Holds(g, Choice(f, offers).network) >= Choice(f, offers).price
  PROVE  Choice(g, offers) = Choice(f, offers)
<1>1. CASE IsFree(offers) BY <1>1 DEF Choice
<1>2. CASE ~IsFree(offers)
  <2>1. PICK many : many = {o \in offers : Holds(f, o.network) >= o.price} OBVIOUS
  <2>2. PICK few : few = {o \in offers : Holds(g, o.network) >= o.price} OBVIOUS
  <2>3. many # {} /\ Choice(f, offers) = CheapestOf(many) BY <1>2, <2>1 DEF Choice
  <2>4. many \in SUBSET Offers /\ few \in SUBSET Offers BY <2>1, <2>2
  <2>5. PICK c : c = CheapestOf(many) OBVIOUS
  <2>6. c \in many /\ \A p \in many : c.price < p.price
                        \/ (c.price = p.price /\ Rank(c.network) <= Rank(p.network))
    BY <2>3, <2>4, <2>5, CheapestIs
  <2>7. ~c.free BY <1>2, <2>1, <2>6 DEF IsFree
  <2>8. c \in few BY <2>1, <2>2, <2>3, <2>5, <2>6, <2>7
  <2>9. \A n \in Networks : Holds(f, n) \in Int /\ Holds(g, n) \in Int BY DEF IsWallet, Holds
  <2>10. few \subseteq many
    <3>1. ASSUME NEW o \in few PROVE o \in many
      <4>1. o \in offers /\ o.network \in Networks /\ o.price \in Nat /\ Holds(g, o.network) >= o.price
        BY <2>2 DEF Offers
      <4>2. Holds(f, o.network) >= o.price BY <2>9, <4>1
      <4> QED BY <2>1, <4>1, <4>2
    <3> QED BY <3>1
  <2>11. PICK d : d = CheapestOf(few) OBVIOUS
  <2>12. d \in few /\ \A p \in few : d.price < p.price
                        \/ (d.price = p.price /\ Rank(d.network) <= Rank(p.network))
    BY <2>4, <2>8, <2>11, CheapestIs
  <2>13. c = d
    <3>1. c \in Offers /\ d \in Offers BY <2>4, <2>8, <2>12
    <3>2. /\ c.price < d.price \/ (c.price = d.price /\ Rank(c.network) <= Rank(d.network))
          /\ d.price < c.price \/ (d.price = c.price /\ Rank(d.network) <= Rank(c.network))
      BY <2>6, <2>8, <2>10, <2>12
    <3>3. /\ c.price \in Nat /\ d.price \in Nat /\ c.network \in Networks /\ d.network \in Networks
          /\ Rank(c.network) \in Nat /\ Rank(d.network) \in Nat
      BY <3>1, RanksDiffer DEF Offers
    <3>4. c.price = d.price /\ Rank(c.network) = Rank(d.network) BY <3>2, <3>3
    <3>5. c.network = d.network BY <3>3, <3>4, RanksDiffer
    <3>6. ~d.free BY <1>2, <2>2, <2>12 DEF IsFree
    <3>7. c.free = FALSE /\ d.free = FALSE BY <2>7, <3>1, <3>6 DEF Offers
    <3> QED BY <3>1, <3>4, <3>5, <3>7 DEF Offers
  <2>14. Choice(g, offers) = CheapestOf(few) BY <1>2, <2>2, <2>8 DEF Choice
  <2> QED BY <2>3, <2>5, <2>11, <2>13, <2>14
<1> QED BY <1>1, <1>2

-----------------------------------------------------------------------------
LEMMA SimulationIs ==
  ASSUME NEW t, t \in Seq(Purchase), NEW s
  PROVE  /\ Simulation(t, s)[0] = Beginning(s)
         /\ \A k \in 1..Len(t) : Simulation(t, s)[k] = Assign(Simulation(t, s)[k - 1], t[k])
<1> DEFINE Run(f, n) == f = [k \in 0..n |-> IF k = 0 THEN Beginning(s) ELSE Assign(f[k - 1], t[k])]
           T == {n \in Nat : \E f : Run(f, n)}
           len == Len(t)
<1>1. len \in Nat OBVIOUS
<1>2. 0 \in T
  <2>1. Run([k \in 0..0 |-> Beginning(s)], 0) OBVIOUS
  <2> QED BY <2>1
<1>3. ASSUME NEW i \in 0..(len - 1), i \in T PROVE i + 1 \in T
  <2>1. PICK f : Run(f, i) BY <1>3
  <2>2. DOMAIN f = 0..i /\ f[0] = Beginning(s)
        /\ \A k \in 1..i : f[k] = Assign(f[k - 1], t[k])
    BY <2>1
  <2>3. PICK g : g = [k \in 0..(i + 1) |-> IF k = i + 1 THEN Assign(f[i], t[i + 1]) ELSE f[k]] OBVIOUS
  <2>4. \A k \in 0..i : g[k] = f[k] BY <2>3
  <2>5. g[0] = Beginning(s) BY <2>2, <2>4
  <2>6. \A k \in 1..(i + 1) : g[k] = Assign(g[k - 1], t[k])
    <3>1. ASSUME NEW k \in 1..(i + 1) PROVE g[k] = Assign(g[k - 1], t[k])
      <4>1. CASE k = i + 1
        <5>1. g[i + 1] = Assign(f[i], t[i + 1]) BY <2>3
        <5>2. g[i] = f[i] /\ k - 1 = i BY <2>4, <4>1
        <5> QED BY <4>1, <5>1, <5>2
      <4>2. CASE k # i + 1
        <5>1. k \in 1..i /\ k \in 0..i /\ k - 1 \in 0..i BY <4>2
        <5>2. g[k] = f[k] /\ g[k - 1] = f[k - 1] BY <2>4, <5>1
        <5> QED BY <2>2, <5>1, <5>2
      <4> QED BY <4>1, <4>2
    <3> QED BY <3>1
  <2>7. DOMAIN g = 0..(i + 1) /\ g = [k \in 0..(i + 1) |-> g[k]] BY <2>3
  <2>8. \A k \in 0..(i + 1) : g[k] = IF k = 0 THEN Beginning(s) ELSE Assign(g[k - 1], t[k])
    BY <2>5, <2>6
  <2>9. Run(g, i + 1) BY <2>7, <2>8
  <2> QED BY <2>9
<1>4. len \in T
  <2> HIDE DEF T
  <2>1. T \in SUBSET Nat BY DEF T
  <2> HIDE DEF len
  <2>2. \A k \in 0..(len - 1) : k \in T => k + 1 \in T BY <1>3
  <2>3. \A k \in 0..len : k \in T BY <1>1, <1>2, <2>1, <2>2, StepByStep
  <2> QED BY <1>1, <2>3
<1>5. \E f : Run(f, len) BY <1>4
<1>6. Simulation(t, s) = CHOOSE f : Run(f, len) BY DEF Simulation
<1>7. Run(Simulation(t, s), len) BY <1>5, <1>6
<1> HIDE DEF len
<1>8. PICK h : h = Simulation(t, s) OBVIOUS
<1>9. h[0] = Beginning(s) /\ \A k \in 1..len : h[k] = Assign(h[k - 1], t[k])
  BY <1>1, <1>7, <1>8
<1> QED BY <1>8, <1>9 DEF len

-----------------------------------------------------------------------------
(***************************************************************************)
(* One purchase.                                                           *)
(***************************************************************************)
IsRun(run) ==
  /\ IsWallet(run.left) /\ run.used \in [Networks -> Nat] /\ run.wants \subseteq Networks
  /\ run.last.network \in Networks \cup {"none"} /\ run.last.total \in Nat
  /\ run.last.network # "none" => run.used[run.last.network] >= run.last.total

\* What a purchase may be, and what a wallet has after it.
Paying(offers) ==
  /\ offers \subseteq Offers /\ offers # {}
  /\ \A o \in offers : o.free => o.price = 0
After(f, o) == IF o.free THEN f ELSE [f EXCEPT ![o.network] = @ - o.price]

LEMMA AfterIs ==
  ASSUME NEW f, IsWallet(f), NEW o \in Offers, o.free => o.price = 0,
         o.free \/ Holds(f, o.network) >= o.price
  PROVE  /\ IsWallet(After(f, o)) /\ DOMAIN After(f, o) = DOMAIN f
         /\ \A n \in Networks :
              /\ Holds(f, n) \in Int
              /\ Holds(After(f, o), n) = Holds(f, n) - (IF n = o.network THEN o.price ELSE 0)
<1>1. o.price \in Nat /\ o.network \in Networks BY DEF Offers
<1>2. \A n \in Networks : Holds(f, n) \in Int BY DEF IsWallet, Holds
<1>3. CASE o.free BY <1>1, <1>2, <1>3 DEF After
<1>4. CASE ~o.free
  <2>1. After(f, o) = [f EXCEPT ![o.network] = @ - o.price] BY <1>4 DEF After
  <2>2. DOMAIN After(f, o) = DOMAIN f BY <2>1
  <2>3. \A n \in DOMAIN f :
          After(f, o)[n] = f[n] - (IF n = o.network THEN o.price ELSE 0)
    BY <1>1, <2>1 DEF IsWallet
  <2>4. After(f, o) = [n \in DOMAIN f |-> After(f, o)[n]] BY <2>1
  <2>5. \A n \in DOMAIN f : After(f, o)[n] \in Int BY <1>1, <2>3 DEF IsWallet
  <2>6. After(f, o) \in [DOMAIN f -> Int] BY <2>4, <2>5
  <2>7. IsWallet(After(f, o)) BY <2>2, <2>6 DEF IsWallet
  <2>8. ASSUME NEW n \in Networks
        PROVE  Holds(After(f, o), n) = Holds(f, n) - (IF n = o.network THEN o.price ELSE 0)
    <3>1. CASE n \in DOMAIN f BY <2>2, <2>3, <3>1 DEF Holds
    <3>2. CASE n \notin DOMAIN f
      <4>1. Holds(f, n) = 0 /\ Holds(After(f, o), n) = 0 BY <2>2, <3>2 DEF Holds
      <4>2. n = o.network => o.price = 0 BY <1>1, <1>4, <4>1
      <4> QED BY <4>1, <4>2
    <3> QED BY <3>1, <3>2
  <2> QED BY <1>2, <2>2, <2>7, <2>8
<1> QED BY <1>3, <1>4

LEMMA UnpaidIs ==
  ASSUME NEW run, IsRun(run), NEW p \in Purchase, Paying(p.offers),
         Choice(run.left, p.offers) = NoOffer
  PROVE  /\ IsRun(Assign(run, p)) /\ Assign(run, p).wants # {}
         /\ run.wants \subseteq Assign(run, p).wants
         /\ Assign(run, p).used = run.used /\ Assign(run, p).left = run.left
         /\ Assign(run, p).last.total = 0 
<1>1. Assign(run, p) = [left |-> run.left, used |-> run.used,
                        last |-> [network |-> "none", total |-> 0],
                        wants |-> run.wants \cup {q.network : q \in p.offers}]
  BY DEF Assign
<1>2. {q.network : q \in p.offers} # {} BY DEF Paying
<1>3. {q.network : q \in p.offers} \subseteq Networks BY DEF Paying, Offers
<1> QED BY <1>1, <1>2, <1>3 DEF IsRun

LEMMA PaidIs ==
  ASSUME NEW run, IsRun(run), NEW p \in Purchase, Paying(p.offers), NEW o,
         o = Choice(run.left, p.offers), o # NoOffer
  PROVE  /\ o \in p.offers /\ o \in Offers /\ (o.free => o.price = 0)
         /\ o.free \/ Holds(run.left, o.network) >= o.price
         /\ IsRun(Assign(run, p)) /\ Assign(run, p).wants = run.wants
         /\ Assign(run, p).left = After(run.left, o)
         /\ Assign(run, p).last.network = o.network
         /\ Assign(run, p).last.total =
              IF p.again /\ run.last.network = o.network
              THEN Cents(run.last.total + o.price) ELSE o.price
         /\ Assign(run, p).used[o.network] = run.used[o.network] + Assign(run, p).last.total
              - (IF p.again /\ run.last.network = o.network THEN run.last.total ELSE 0)
         /\ \A n \in Networks \ {o.network} : Assign(run, p).used[n] = run.used[n]
<1>1. p.offers \in SUBSET Offers /\ IsWallet(run.left) BY DEF Paying, IsRun
<1>2. /\ o \in p.offers \cup {NoOffer}
      /\ o # NoOffer => o.free \/ Holds(run.left, o.network) >= o.price
  BY <1>1, ChoiceIs
<1>3. /\ o \in p.offers /\ o \in Offers /\ (o.free => o.price = 0)
      /\ o.free \/ Holds(run.left, o.network) >= o.price
  BY <1>1, <1>2 DEF Paying
<1>4. PICK same : same = (p.again /\ run.last.network = o.network) OBVIOUS
<1>5. PICK total : total = IF same THEN Cents(run.last.total + o.price) ELSE o.price OBVIOUS
<1>6. PICK used : used = [run.used EXCEPT ![o.network] =
                            @ + total - (IF same THEN run.last.total ELSE 0)]
  OBVIOUS
<1>7. Assign(run, p) = [left |-> After(run.left, o), used |-> used,
                        last |-> [network |-> o.network, total |-> total], wants |-> run.wants]
  BY <1>4, <1>5, <1>6 DEF Assign, After
<1>8. o.price \in Nat /\ o.network \in Networks /\ run.last.total \in Nat
      /\ run.used \in [Networks -> Nat]
  BY <1>3 DEF Offers, IsRun
<1>9. total \in Nat
  <2>1. run.last.total + o.price \in Nat BY <1>8
  <2>2. Cents(run.last.total + o.price) \in Nat BY <2>1, WholeCents
  <2> QED BY <1>5, <1>8, <2>2
<1>10. /\ used[o.network] = run.used[o.network] + total - (IF same THEN run.last.total ELSE 0)
       /\ \A n \in Networks \ {o.network} : used[n] = run.used[n]
       /\ DOMAIN used = Networks /\ used = [n \in Networks |-> used[n]]
  BY <1>6, <1>8
<1>11. same => run.used[o.network] >= run.last.total
  <2>1. o.network # "none" BY <1>8, RanksDiffer
  <2> QED BY <1>4, <2>1 DEF IsRun
<1>12. used[o.network] \in Nat /\ used[o.network] >= total
  <2>1. run.used[o.network] \in Nat BY <1>8
  <2>2. CASE same BY <1>8, <1>9, <1>10, <1>11, <2>1, <2>2
  <2>3. CASE ~same BY <1>8, <1>9, <1>10, <2>1, <2>3
  <2> QED BY <2>2, <2>3
<1>13. \A n \in Networks : used[n] \in Nat BY <1>8, <1>10, <1>12
<1>14. used \in [Networks -> Nat] BY <1>10, <1>13
<1>15. IsWallet(After(run.left, o)) BY <1>1, <1>3, AfterIs
<1>16. IsRun(Assign(run, p)) BY <1>7, <1>8, <1>9, <1>12, <1>14, <1>15 DEF IsRun
<1>17. /\ Assign(run, p).wants = run.wants /\ Assign(run, p).left = After(run.left, o)
       /\ Assign(run, p).last.network = o.network /\ Assign(run, p).last.total = total
       /\ Assign(run, p).used = used
  BY <1>7
<1>18. Assign(run, p).last.total = IF p.again /\ run.last.network = o.network
                                   THEN Cents(run.last.total + o.price) ELSE o.price
  BY <1>4, <1>5, <1>17
<1>19. Assign(run, p).used[o.network] = run.used[o.network] + Assign(run, p).last.total
         - (IF p.again /\ run.last.network = o.network THEN run.last.total ELSE 0)
  BY <1>4, <1>10, <1>17
<1>20. \A n \in Networks \ {o.network} : Assign(run, p).used[n] = run.used[n] BY <1>10, <1>17
<1> QED BY <1>3, <1>16, <1>17, <1>18, <1>19, <1>20

\* The line of the plan that may grow is in whole cents where the prices are.
LEMMA LineIsWhole ==
  ASSUME NEW run, IsRun(run), NEW p \in Purchase, Paying(p.offers), Whole(p.offers)
  PROVE  Assign(run, p).last.total % Cent = 0
<1>1. CASE Choice(run.left, p.offers) = NoOffer
  <2>1. Assign(run, p).last.total = 0 BY <1>1, UnpaidIs
  <2>2. Cent \in Nat /\ Cent > 0 BY FundingAssumption
  <2> QED BY <2>1, <2>2
<1>2. CASE Choice(run.left, p.offers) # NoOffer
  <2>1. PICK o : o = Choice(run.left, p.offers) OBVIOUS
  <2>2. PICK line : line = Assign(run, p).last.total OBVIOUS
  <2>3. /\ o \in p.offers /\ o \in Offers
        /\ line = IF p.again /\ run.last.network = o.network
                  THEN Cents(run.last.total + o.price) ELSE o.price
    BY <1>2, <2>1, <2>2, PaidIs
  <2>4. o.price % Cent = 0 BY <2>3 DEF Whole
  <2>5. run.last.total + o.price \in Nat BY <2>3 DEF IsRun, Offers
  <2>6. Cents(run.last.total + o.price) % Cent = 0 BY <2>5, WholeCents
  <2> QED BY <2>2, <2>3, <2>4, <2>6
<1> QED BY <1>1, <1>2

LEMMA PriceIsCounted ==
  ASSUME NEW run, IsRun(run), NEW p \in Purchase, Paying(p.offers), NEW o,
         o = Choice(run.left, p.offers), o # NoOffer,
         p.again => Whole(p.offers) /\ run.last.total % Cent = 0
  PROVE  \A n \in Networks : Assign(run, p).used[n]
           = run.used[n] + (IF n = o.network THEN o.price ELSE 0)
<1>1. PICK line : line = Assign(run, p).last.total OBVIOUS
<1>2. PICK same : same = (p.again /\ run.last.network = o.network) OBVIOUS
<1>3. /\ o \in p.offers /\ o \in Offers
      /\ line = IF same THEN Cents(run.last.total + o.price) ELSE o.price
      /\ Assign(run, p).used[o.network] =
           run.used[o.network] + line - (IF same THEN run.last.total ELSE 0)
      /\ \A n \in Networks \ {o.network} : Assign(run, p).used[n] = run.used[n]
  <2>1. o \in p.offers /\ o \in Offers
        /\ \A n \in Networks \ {o.network} : Assign(run, p).used[n] = run.used[n]
    BY PaidIs
  <2>2. line = IF p.again /\ run.last.network = o.network
               THEN Cents(run.last.total + o.price) ELSE o.price
    BY <1>1, PaidIs
  <2>3. Assign(run, p).used[o.network] = run.used[o.network] + line
          - (IF p.again /\ run.last.network = o.network THEN run.last.total ELSE 0)
    BY <1>1, PaidIs
  <2> QED BY <1>2, <2>1, <2>2, <2>3
<1>4. /\ o.price \in Nat /\ o.network \in Networks /\ run.last.total \in Nat
      /\ \A n \in Networks : run.used[n] \in Nat
  BY <1>3 DEF Offers, IsRun
<1>5. line = o.price + (IF same THEN run.last.total ELSE 0)
  <2>1. CASE same
    <3>1. o.price % Cent = 0 /\ run.last.total % Cent = 0 BY <1>2, <1>3, <2>1 DEF Whole
    <3>2. run.last.total + o.price \in Nat /\ (run.last.total + o.price) % Cent = 0
      BY <1>4, <3>1, WholeSum
    <3>3. Cents(run.last.total + o.price) = run.last.total + o.price BY <3>2, WholeCents
    <3> QED BY <1>3, <1>4, <2>1, <3>3
  <2>2. CASE ~same BY <1>3, <1>4, <2>2
  <2> QED BY <2>1, <2>2
<1>6. Assign(run, p).used[o.network] = run.used[o.network] + o.price
  <2>1. run.used[o.network] \in Nat BY <1>4
  <2>2. CASE same
    <3>1. Assign(run, p).used[o.network] = run.used[o.network] + line - run.last.total
      BY <1>3, <2>2
    <3>2. line = o.price + run.last.total BY <1>5, <2>2
    <3> QED BY <1>4, <2>1, <3>1, <3>2
  <2>3. CASE ~same BY <1>3, <1>4, <1>5, <2>1, <2>3
  <2> QED BY <2>2, <2>3
<1>7. \A n \in Networks \ {o.network} : Assign(run, p).used[n] = run.used[n] + 0
  BY <1>3, <1>4
<1> QED BY <1>6, <1>7

-----------------------------------------------------------------------------
(***************************************************************************)
(* A whole task.                                                           *)
(***************************************************************************)
LEMMA PurchasesPay ==
  ASSUME NEW t, IsTask(t), NEW k \in 1..Len(t)
  PROVE  t[k] \in Purchase /\ Paying(t[k].offers)
<1>1. t \in Seq(Purchase) BY DEF IsTask
<1>2. t[k] \in Purchase BY <1>1
<1>3. t[k].offers # {} /\ \A o \in t[k].offers : o.free => o.price = 0 BY DEF IsTask
<1>4. t[k].offers \subseteq Offers BY <1>2 DEF Purchase
<1> QED BY <1>2, <1>3, <1>4 DEF Paying

LEMMA StepIs ==
  ASSUME NEW t, IsTask(t), NEW s, NEW k \in 1..Len(t)
  PROVE  /\ Simulation(t, s)[k] = Assign(Simulation(t, s)[k - 1], t[k])
         /\ t[k] \in Purchase /\ Paying(t[k].offers) /\ k - 1 \in 0..Len(t)
         /\ Len(t) \in Nat
<1>1. t \in Seq(Purchase) BY DEF IsTask
<1>2. Len(t) \in Nat BY <1>1
<1> QED BY <1>1, <1>2, SimulationIs, PurchasesPay

LEMMA RunsAre ==
  ASSUME NEW t, IsTask(t), NEW f, IsWallet(f)
  PROVE  \A k \in 0..Len(t) : IsRun(Simulation(t, f)[k])
<1>1. t \in Seq(Purchase) /\ Len(t) \in Nat BY DEF IsTask
<1> DEFINE T == {k \in Nat : IsRun(Simulation(t, f)[k])}
<1>2. 0 \in T
  <2>1. Simulation(t, f)[0] = Beginning(f) BY <1>1, SimulationIs
  <2>2. Beginning(f) = [left |-> f, used |-> [n \in Networks |-> 0],
                        last |-> [network |-> "none", total |-> 0], wants |-> {}]
    BY DEF Beginning
  <2>3. IsRun(Beginning(f)) BY <2>2 DEF IsRun
  <2> QED BY <2>1, <2>3
<1>3. ASSUME NEW k \in 0..(Len(t) - 1), k \in T PROVE k + 1 \in T
  <2>1. k + 1 \in 1..Len(t) /\ (k + 1) - 1 = k BY <1>1
  <2>2. /\ Simulation(t, f)[k + 1] = Assign(Simulation(t, f)[k], t[k + 1])
        /\ t[k + 1] \in Purchase /\ Paying(t[k + 1].offers)
    BY <2>1, StepIs
  <2>3. IsRun(Simulation(t, f)[k]) BY <1>3
  <2>4. IsRun(Assign(Simulation(t, f)[k], t[k + 1])) BY <2>2, <2>3, UnpaidIs, PaidIs
  <2> QED BY <2>2, <2>4
<1>4. T \in SUBSET Nat OBVIOUS
<1> HIDE DEF T
<1>5. \A k \in 0..(Len(t) - 1) : k \in T => k + 1 \in T BY <1>3
<1>6. \A k \in 0..Len(t) : k \in T BY <1>1, <1>2, <1>4, <1>5, StepByStep
<1> QED BY <1>6 DEF T

\* A task that is paid to its end is paid at every purchase.
LEMMA PaidThroughout ==
  ASSUME NEW t, IsTask(t), NEW f, IsWallet(f), Simulate(t, f).wants = {}
  PROVE  /\ \A k \in 0..Len(t) : Simulation(t, f)[k].wants = {}
         /\ \A k \in 1..Len(t) : Choice(Simulation(t, f)[k - 1].left, t[k].offers) # NoOffer
<1>1. t \in Seq(Purchase) /\ Len(t) \in Nat BY DEF IsTask
<1> DEFINE T == {j \in Nat : Simulation(t, f)[Len(t) - j].wants = {}}
<1>2. 0 \in T
  <2>1. Len(t) - 0 = Len(t) BY <1>1
  <2> QED BY <2>1 DEF Simulate
<1>3. ASSUME NEW k \in 1..Len(t), Simulation(t, f)[k].wants = {}
      PROVE  /\ Simulation(t, f)[k - 1].wants = {}
             /\ Choice(Simulation(t, f)[k - 1].left, t[k].offers) # NoOffer
  <2>1. PICK run : run = Simulation(t, f)[k - 1] OBVIOUS
  <2>2. /\ Simulation(t, f)[k] = Assign(run, t[k])
        /\ t[k] \in Purchase /\ Paying(t[k].offers) /\ IsRun(run)
    BY <2>1, StepIs, RunsAre
  <2>3. Choice(run.left, t[k].offers) # NoOffer BY <1>3, <2>2, UnpaidIs
  <2>4. run.wants = {} BY <1>3, <2>2, <2>3, PaidIs
  <2> QED BY <2>1, <2>3, <2>4
<1>4. ASSUME NEW j \in 0..(Len(t) - 1), j \in T PROVE j + 1 \in T
  <2>1. Len(t) - j \in 1..Len(t) /\ (Len(t) - j) - 1 = Len(t) - (j + 1) BY <1>1
  <2> QED BY <1>3, <1>4, <2>1
<1>5. T \in SUBSET Nat OBVIOUS
<1> HIDE DEF T
<1>6. \A j \in 0..(Len(t) - 1) : j \in T => j + 1 \in T BY <1>4
<1>7. \A j \in 0..Len(t) : j \in T BY <1>1, <1>2, <1>5, <1>6, StepByStep
<1>8. ASSUME NEW k \in 0..Len(t) PROVE Simulation(t, f)[k].wants = {}
  <2>1. Len(t) - k \in 0..Len(t) /\ Len(t) - (Len(t) - k) = k BY <1>1
  <2>2. Len(t) - k \in T BY <1>7, <2>1
  <2> QED BY <2>1, <2>2 DEF T
<1> QED BY <1>3, <1>8

\* Where the plan counts exactly, what it counts is what is paid.
LEMMA CountedIsPaid ==
  ASSUME NEW t, IsTask(t), IsExact(t), NEW f, IsWallet(f), Simulate(t, f).wants = {},
         NEW k \in 1..Len(t), NEW o, o = Choice(Simulation(t, f)[k - 1].left, t[k].offers)
  PROVE  /\ o \in Offers /\ o # NoOffer /\ (o.free => o.price = 0)
         /\ o.free \/ Holds(Simulation(t, f)[k - 1].left, o.network) >= o.price
         /\ \A n \in Networks :
              /\ Simulation(t, f)[k].used[n] =
                   Simulation(t, f)[k - 1].used[n] + (IF n = o.network THEN o.price ELSE 0)
              /\ Holds(Simulation(t, f)[k - 1].left, n) \in Int
              /\ Holds(Simulation(t, f)[k].left, n) =
                   Holds(Simulation(t, f)[k - 1].left, n) - (IF n = o.network THEN o.price ELSE 0)
<1>1. PICK run : run = Simulation(t, f)[k - 1] OBVIOUS
<1>2. /\ Simulation(t, f)[k] = Assign(run, t[k])
      /\ t[k] \in Purchase /\ Paying(t[k].offers) /\ IsRun(run)
  BY <1>1, StepIs, RunsAre
<1>3. o = Choice(run.left, t[k].offers) /\ o # NoOffer BY <1>1, PaidThroughout
<1>4. /\ o \in t[k].offers /\ o \in Offers /\ (o.free => o.price = 0)
      /\ o.free \/ Holds(run.left, o.network) >= o.price
      /\ Assign(run, t[k]).left = After(run.left, o)
  BY <1>2, <1>3, PaidIs
<1>5. t[k].again => Whole(t[k].offers) /\ run.last.total % Cent = 0
  <2>1. SUFFICES ASSUME t[k].again PROVE Whole(t[k].offers) /\ run.last.total % Cent = 0
    OBVIOUS
  <2>2. Whole(t[k].offers) BY <2>1 DEF IsExact
  <2>3. k > 1 /\ t[k - 1].offers = t[k].offers BY <2>1 DEF IsTask
  <2>4. k - 1 \in 1..Len(t) BY <2>3, StepIs
  <2>5. PICK before : before = Simulation(t, f)[(k - 1) - 1] OBVIOUS
  <2>6. /\ run = Assign(before, t[k - 1]) /\ IsRun(before)
        /\ t[k - 1] \in Purchase /\ Paying(t[k - 1].offers)
    BY <1>1, <2>4, <2>5, StepIs, RunsAre
  <2>7. Whole(t[k - 1].offers) BY <2>2, <2>3
  <2> QED BY <2>2, <2>6, <2>7, LineIsWhole
<1>6. \A n \in Networks :
        Assign(run, t[k]).used[n] = run.used[n] + (IF n = o.network THEN o.price ELSE 0)
  BY <1>2, <1>3, <1>5, PriceIsCounted
<1>7. \A n \in Networks :
        /\ Holds(run.left, n) \in Int
        /\ Holds(After(run.left, o), n) =
             Holds(run.left, n) - (IF n = o.network THEN o.price ELSE 0)
  <2>1. IsWallet(run.left) BY <1>2 DEF IsRun
  <2> QED BY <1>4, <2>1, AfterIs
<1> QED BY <1>1, <1>2, <1>3, <1>4, <1>6, <1>7

\* Nothing that is counted is taken back.
LEMMA CountsGrow ==
  ASSUME NEW t, IsTask(t), IsExact(t), NEW f, IsWallet(f), Simulate(t, f).wants = {},
         NEW n \in Networks
  PROVE  \A k \in 0..Len(t) : Simulation(t, f)[k].used[n] <= Simulate(t, f).used[n]
<1>1. t \in Seq(Purchase) /\ Len(t) \in Nat BY DEF IsTask
<1> DEFINE T == {j \in Nat : Simulation(t, f)[Len(t) - j].used[n] <= Simulate(t, f).used[n]}
<1>2. \A k \in 0..Len(t) : Simulation(t, f)[k].used[n] \in Nat BY RunsAre DEF IsRun
<1>3. 0 \in T
  <2>1. Len(t) - 0 = Len(t) /\ Len(t) \in 0..Len(t) BY <1>1
  <2> QED BY <1>2, <2>1 DEF Simulate
<1>4. ASSUME NEW j \in 0..(Len(t) - 1), j \in T PROVE j + 1 \in T
  <2>1. PICK k : k = Len(t) - j OBVIOUS
  <2>2. k \in 1..Len(t) /\ k - 1 = Len(t) - (j + 1) /\ k \in 0..Len(t) /\ k - 1 \in 0..Len(t)
    BY <1>1, <2>1
  <2>3. PICK o : o = Choice(Simulation(t, f)[k - 1].left, t[k].offers) OBVIOUS
  <2>4. /\ o \in Offers
        /\ Simulation(t, f)[k].used[n] =
             Simulation(t, f)[k - 1].used[n] + (IF n = o.network THEN o.price ELSE 0)
    BY <2>2, <2>3, CountedIsPaid
  <2>5. o.price \in Nat BY <2>4 DEF Offers
  <2>6. Simulation(t, f)[k].used[n] <= Simulate(t, f).used[n] BY <1>4, <2>1
  <2>7. Len(t) \in 0..Len(t) BY <1>1
  <2>8. Simulate(t, f).used[n] \in Nat BY <1>2, <2>7 DEF Simulate
  <2>9. Simulation(t, f)[k - 1].used[n] <= Simulate(t, f).used[n]
    BY <1>2, <2>2, <2>4, <2>5, <2>6, <2>8
  <2> QED BY <2>2, <2>9
<1>5. T \in SUBSET Nat OBVIOUS
<1> HIDE DEF T
<1>6. \A j \in 0..(Len(t) - 1) : j \in T => j + 1 \in T BY <1>4
<1>7. \A j \in 0..Len(t) : j \in T BY <1>1, <1>3, <1>5, <1>6, StepByStep
<1>8. ASSUME NEW k \in 0..Len(t)
      PROVE  Simulation(t, f)[k].used[n] <= Simulate(t, f).used[n]
  <2>1. Len(t) - k \in 0..Len(t) /\ Len(t) - (Len(t) - k) = k BY <1>1
  <2>2. Len(t) - k \in T BY <1>7, <2>1
  <2> QED BY <2>1, <2>2 DEF T
<1> QED BY <1>8

\* Another wallet that has no more, and of each network as much or enough for what the plan
\* counts there, pays for the task as well: each purchase is paid the same way.
LEMMA FollowsThePlan ==
  ASSUME NEW t, IsTask(t), IsExact(t), NEW f, IsWallet(f), Simulate(t, f).wants = {},
         NEW g, IsWallet(g),
         \A n \in Networks : /\ Holds(g, n) <= Holds(f, n)
                             /\ \/ Holds(g, n) = Holds(f, n)
                                \/ Simulate(t, f).used[n] <= Holds(g, n)
  PROVE  Simulate(t, g).wants = {}
<1>1. t \in Seq(Purchase) /\ Len(t) \in Nat BY DEF IsTask
<1>2. \A n \in Networks : Holds(f, n) \in Int /\ Holds(g, n) \in Int BY DEF IsWallet, Holds
<1> DEFINE A(k) == Simulation(t, f)[k]
           B(k) == Simulation(t, g)[k]
           Same(k) == /\ B(k).wants = {}
                      /\ \A n \in Networks :
                           /\ Holds(A(k).left, n) = Holds(f, n) - A(k).used[n]
                           /\ Holds(B(k).left, n) = Holds(g, n) - A(k).used[n]
           T == {k \in Nat : Same(k)}
<1>3. 0 \in T
  <2>1. A(0) = Beginning(f) /\ B(0) = Beginning(g) BY <1>1, SimulationIs
  <2>2. \A n \in Networks : A(0).used[n] = 0 /\ A(0).left = f /\ B(0).left = g /\ B(0).wants = {}
    BY <2>1 DEF Beginning
  <2>3. B(0).wants = {} BY <2>1 DEF Beginning
  <2> HIDE DEF A, B
  <2>4. Same(0) BY <1>2, <2>2, <2>3
  <2> QED BY <2>4
<1>4. ASSUME NEW j \in 0..(Len(t) - 1), Same(j) PROVE Same(j + 1)
  <2>1. PICK k : k = j + 1 OBVIOUS
  <2>2. k \in 1..Len(t) /\ k - 1 = j /\ k \in 0..Len(t) /\ j \in 0..Len(t) BY <1>1, <2>1
  <2>3. PICK o : o = Choice(A(j).left, t[k].offers) OBVIOUS
  <2>4. /\ o \in Offers /\ o # NoOffer /\ (o.free => o.price = 0)
        /\ o.free \/ Holds(A(j).left, o.network) >= o.price
        /\ \A n \in Networks :
             /\ A(k).used[n] = A(j).used[n] + (IF n = o.network THEN o.price ELSE 0)
             /\ Holds(A(j).left, n) \in Int
             /\ Holds(A(k).left, n) =
                  Holds(A(j).left, n) - (IF n = o.network THEN o.price ELSE 0)
    <3>1. o = Choice(A(k - 1).left, t[k].offers) BY <2>2, <2>3
    <3>2. /\ o \in Offers /\ o # NoOffer /\ (o.free => o.price = 0)
          /\ o.free \/ Holds(A(k - 1).left, o.network) >= o.price
      BY <2>2, <3>1, CountedIsPaid
    <3>3. \A n \in Networks :
            /\ A(k).used[n] = A(k - 1).used[n] + (IF n = o.network THEN o.price ELSE 0)
            /\ Holds(A(k - 1).left, n) \in Int
            /\ Holds(A(k).left, n) =
                 Holds(A(k - 1).left, n) - (IF n = o.network THEN o.price ELSE 0)
      BY <2>2, <3>1, CountedIsPaid
    <3> QED BY <2>2, <3>2, <3>3
  <2>5. /\ B(k) = Assign(B(j), t[k])
        /\ t[k] \in Purchase /\ Paying(t[k].offers) /\ IsRun(B(j)) /\ IsRun(A(j))
    BY <2>2, StepIs, RunsAre
  <2>6. \A n \in Networks : A(j).used[n] \in Nat /\ A(k).used[n] \in Nat
    BY <2>2, RunsAre DEF IsRun
  <2>7. o.price \in Nat /\ o.network \in Networks BY <2>4 DEF Offers
  <2>8. \A n \in Networks : A(k).used[n] <= Simulate(t, f).used[n] BY <2>2, CountsGrow
  <2>9. \A n \in Networks : Simulate(t, f).used[n] \in Nat
    <3>1. Len(t) \in 0..Len(t) BY <1>1
    <3> QED BY <3>1, RunsAre DEF Simulate, IsRun
  <2>10. IsWallet(A(j).left) /\ IsWallet(B(j).left) BY <2>5 DEF IsRun
  <2>11. t[k].offers \in SUBSET Offers BY <2>5 DEF Paying
  <2> HIDE DEF A, B
  <2>12. o.free \/ Holds(B(j).left, o.network) >= o.price
    <3>1. PICK n \in Networks : n = o.network BY <2>7
    <3>2. /\ Holds(A(j).left, n) = Holds(f, n) - A(j).used[n]
          /\ Holds(B(j).left, n) = Holds(g, n) - A(j).used[n]
      BY <1>4
    <3>3. Holds(f, n) \in Int /\ Holds(g, n) \in Int /\ A(j).used[n] \in Nat
      BY <1>2, <2>6
    <3>4. CASE Holds(g, n) = Holds(f, n) BY <2>4, <3>1, <3>2, <3>3, <3>4
    <3>5. CASE Simulate(t, f).used[n] <= Holds(g, n)
      <4>1. A(k).used[n] = A(j).used[n] + o.price BY <2>4, <3>1
      <4>2. A(k).used[n] <= Simulate(t, f).used[n] /\ Simulate(t, f).used[n] \in Nat
        BY <2>8, <2>9
      <4>3. Holds(g, n) - A(j).used[n] >= o.price BY <2>7, <3>3, <3>5, <4>1, <4>2
      <4> QED BY <3>1, <3>2, <4>3
    <3> QED BY <3>4, <3>5
  <2>13. \A n \in Networks : Holds(B(j).left, n) <= Holds(A(j).left, n)
    <3>1. ASSUME NEW n \in Networks PROVE Holds(B(j).left, n) <= Holds(A(j).left, n)
      <4>1. /\ Holds(A(j).left, n) = Holds(f, n) - A(j).used[n]
            /\ Holds(B(j).left, n) = Holds(g, n) - A(j).used[n]
            /\ Holds(g, n) <= Holds(f, n)
        BY <1>4
      <4>2. Holds(f, n) \in Int /\ Holds(g, n) \in Int /\ A(j).used[n] \in Nat
        BY <1>2, <2>6
      <4> QED BY <4>1, <4>2
    <3> QED BY <3>1
  <2>14. o = Choice(B(j).left, t[k].offers)
    BY <2>3, <2>4, <2>10, <2>11, <2>12, <2>13, SameChoice
  <2>15. Assign(B(j), t[k]).wants = B(j).wants /\ Assign(B(j), t[k]).left = After(B(j).left, o)
    BY <2>4, <2>5, <2>14, PaidIs
  <2>16. ASSUME NEW n \in Networks
         PROVE  /\ Holds(A(k).left, n) = Holds(f, n) - A(k).used[n]
                /\ Holds(B(k).left, n) = Holds(g, n) - A(k).used[n]
    <3>1. PICK price : price = IF n = o.network THEN o.price ELSE 0 OBVIOUS
    <3>2. price \in Nat BY <2>7, <3>1
    <3>3. Holds(B(k).left, n) = Holds(B(j).left, n) - price
      BY <2>4, <2>5, <2>10, <2>12, <2>15, <3>1, AfterIs
    <3>4. Holds(A(k).left, n) = Holds(A(j).left, n) - price BY <2>4, <3>1
    <3>5. A(k).used[n] = A(j).used[n] + price BY <2>4, <3>1
    <3>6. /\ Holds(A(j).left, n) = Holds(f, n) - A(j).used[n]
          /\ Holds(B(j).left, n) = Holds(g, n) - A(j).used[n]
      BY <1>4
    <3>7. Holds(f, n) \in Int /\ Holds(g, n) \in Int /\ A(j).used[n] \in Nat
      BY <1>2, <2>6
    <3> QED BY <3>2, <3>3, <3>4, <3>5, <3>6, <3>7
  <2>17. B(k).wants = {} BY <1>4, <2>5, <2>15
  <2> QED BY <2>1, <2>16, <2>17
<1>5. T \in SUBSET Nat OBVIOUS
<1>6. \A j \in 0..(Len(t) - 1) : j \in T => j + 1 \in T
  <2> HIDE DEF Same
  <2> QED BY <1>4
<1> HIDE DEF T
<1>7. \A j \in 0..Len(t) : j \in T BY <1>1, <1>3, <1>5, <1>6, StepByStep
<1>8. Len(t) \in T BY <1>1, <1>7
<1> QED BY <1>8 DEF T, Simulate

-----------------------------------------------------------------------------
(***************************************************************************)
(* A move.                                                                 *)
(***************************************************************************)
LEMMA MostIs ==
  ASSUME NEW S \in SUBSET Networks, S # {}, NEW v \in [S -> Int]
  PROVE  \E m \in S : \A k \in S : v[m] > v[k] \/ (v[m] = v[k] /\ Rank(m) <= Rank(k))
<1>1. PICK b \in Int : \A k \in S : v[k] <= b
  <2>1. PICK u : u = [k \in Networks |-> IF k \in S THEN AtLeast(0, v[k]) ELSE 0] OBVIOUS
  <2>2. \A k \in Networks : u[k] \in Nat BY <2>1 DEF AtLeast
  <2>3. \A k \in S : v[k] <= u[k] BY <2>1 DEF AtLeast
  <2>4. PICK b : b = u["base"] + u["solana"] + u["tempo"] OBVIOUS
  <2>5. u["base"] \in Nat /\ u["solana"] \in Nat /\ u["tempo"] \in Nat BY <2>2, RanksDiffer
  <2>6. b \in Int /\ u["base"] <= b /\ u["solana"] <= b /\ u["tempo"] <= b BY <2>4, <2>5
  <2>7. \A k \in S : u[k] <= b BY <2>6, RanksDiffer
  <2>8. \A k \in S : v[k] <= b
    <3>1. ASSUME NEW k \in S PROVE v[k] <= b
      <4>1. v[k] <= u[k] /\ u[k] <= b /\ v[k] \in Int /\ u[k] \in Nat BY <2>2, <2>3, <2>7
      <4> QED BY <2>6, <4>1
    <3> QED BY <3>1
  <2> QED BY <2>6, <2>8
<1>2. PICK D : D = {b - v[k] : k \in S} OBVIOUS
<1>3. PICK x \in D : \A y \in D : x <= y
  <2>1. D \in SUBSET Nat BY <1>1, <1>2
  <2>2. D # {} BY <1>2
  <2> QED BY <2>1, <2>2, FundingLeastOf
<1>4. PICK R : R = {Rank(k) : k \in {q \in S : b - v[q] = x}} OBVIOUS
<1>5. PICK r \in R : \A y \in R : r <= y
  <2>1. R \in SUBSET Nat BY <1>4, RanksDiffer
  <2>2. R # {} BY <1>2, <1>3, <1>4
  <2> QED BY <2>1, <2>2, FundingLeastOf
<1>6. PICK m \in S : b - v[m] = x /\ Rank(m) = r BY <1>4, <1>5
<1>7. ASSUME NEW k \in S PROVE v[m] > v[k] \/ (v[m] = v[k] /\ Rank(m) <= Rank(k))
  <2>1. x <= b - v[k] /\ v[k] \in Int /\ v[m] \in Int BY <1>2, <1>3
  <2>2. CASE v[k] = v[m]
    <3>1. Rank(k) \in R BY <1>4, <1>6, <2>2
    <3> QED BY <1>5, <1>6, <2>2, <3>1
  <2>3. CASE v[k] # v[m] BY <1>1, <1>6, <2>1, <2>3
  <2> QED BY <2>2, <2>3
<1> QED BY <1>6, <1>7

LEMMA FinalRun ==
  ASSUME NEW t, IsTask(t), NEW f, IsWallet(f)
  PROVE  IsRun(Simulate(t, f))
<1>1. t \in Seq(Purchase) /\ Len(t) \in Nat BY DEF IsTask
<1>2. Len(t) \in 0..Len(t) BY <1>1
<1> QED BY <1>2, RunsAre DEF Simulate

LEMMA WithDomain == ASSUME NEW f, NEW n, NEW c PROVE DOMAIN With(f, n, c) = DOMAIN f \cup {n}
BY DEF With

LEMMA WithThere == ASSUME NEW f, NEW n, NEW c PROVE Holds(With(f, n, c), n) = c
BY DEF With, Holds

LEMMA WithElsewhere ==
  ASSUME NEW f, NEW n, NEW c, NEW m, m # n
  PROVE  Holds(With(f, n, c), m) = Holds(f, m)
BY DEF With, Holds

LEMMA WithIs ==
  ASSUME NEW f, IsWallet(f), NEW n \in Networks, NEW c, c \in Int, NEW g, g = With(f, n, c)
  PROVE  IsWallet(g)
<1>1. g = [m \in DOMAIN f \cup {n} |-> IF m = n THEN c ELSE f[m]] BY DEF With
<1>2. DOMAIN g = DOMAIN f \cup {n} BY <1>1
<1>3. \A m \in DOMAIN f \cup {n} : (IF m = n THEN c ELSE f[m]) \in Int BY DEF IsWallet
<1>4. g \in [DOMAIN f \cup {n} -> Int] BY <1>1, <1>3
<1>5. DOMAIN f \cup {n} \subseteq Networks BY DEF IsWallet
<1> QED BY <1>2, <1>4, <1>5 DEF IsWallet

\* What a move that a plan may list takes, and leaves at its source.
LEMMA MoveIs ==
  ASSUME NEW t, IsTask(t), NEW f, IsWallet(f), NEW n \in Networks, NEW move \in Moves(t, f, n)
  PROVE  /\ Unlimited(t, f, n).wants = {} /\ Arrive(t, f, n) \in Nat
         /\ Arrive(t, f, n) >= Unlimited(t, f, n).used[n] - Holds(f, n)
         /\ move.from \in DOMAIN f \ {n} /\ move.to = n /\ move.units \in Nat
         /\ move.units >= Arrive(t, f, n) + Allowance
         /\ f[move.from] - Unlimited(t, f, n).used[move.from] >= move.units
<1>1. PICK all : all = Unlimited(t, f, n) OBVIOUS
<1>2. PICK from : from = Source(t, f, n) OBVIOUS
<1>3. PICK arrive : arrive = Arrive(t, f, n) OBVIOUS
<1>4. PICK units : units = Up(arrive + Allowance) OBVIOUS
<1>5. /\ move = [from |-> from, to |-> n, units |-> units]
      /\ ~Unpaid(all) /\ ~(DOMAIN f \subseteq {n}) /\ ~(Spare(t, f, n, from) < units)
  BY <1>1, <1>2, <1>3, <1>4 DEF Moves
<1>6. IsRun(all)
  <2>1. Huge \in Int BY FundingAssumption
  <2>2. PICK u : u = With(f, n, Huge) OBVIOUS
  <2>3. IsWallet(u) BY <2>1, <2>2, WithIs
  <2> QED BY <1>1, <2>2, <2>3, FinalRun DEF Unlimited
<1>7. \A m \in Networks : all.used[m] \in Nat BY <1>6 DEF IsRun
<1>8. \A m \in DOMAIN f : m \in Networks /\ f[m] \in Int BY DEF IsWallet
<1>9. PICK S : S = DOMAIN f \ {n} OBVIOUS
<1>10. S \in SUBSET Networks /\ S # {} BY <1>5, <1>8, <1>9
<1>11. PICK v : v = [m \in S |-> Spare(t, f, n, m)] OBVIOUS
<1>12. \A m \in S : Spare(t, f, n, m) = f[m] - all.used[m] BY <1>1 DEF Spare
<1>13. v \in [S -> Int] BY <1>7, <1>8, <1>9, <1>11, <1>12
<1>14. \E m \in S : \A k \in S : v[m] > v[k] \/ (v[m] = v[k] /\ Rank(m) <= Rank(k))
  BY <1>10, <1>13, MostIs
<1>15. from \in S
  <2>1. \E m \in S : \A k \in S :
          \/ Spare(t, f, n, m) > Spare(t, f, n, k)
          \/ Spare(t, f, n, m) = Spare(t, f, n, k) /\ Rank(m) <= Rank(k)
    BY <1>11, <1>14
  <2>2. from = CHOOSE m \in S : \A k \in S :
          \/ Spare(t, f, n, m) > Spare(t, f, n, k)
          \/ Spare(t, f, n, m) = Spare(t, f, n, k) /\ Rank(m) <= Rank(k)
    BY <1>2, <1>9 DEF Source
  <2> QED BY <2>1, <2>2
<1>16. Holds(f, n) \in Int BY DEF IsWallet, Holds
<1>17. arrive \in Nat /\ arrive >= all.used[n] - Holds(f, n)
  <2>1. arrive = AtLeast(0, all.used[n] - Holds(f, n)) BY <1>1, <1>3 DEF Arrive
  <2> QED BY <1>7, <1>16, <2>1 DEF AtLeast
<1>18. units \in Nat /\ units >= arrive + Allowance
  <2>1. arrive + Allowance \in Nat BY <1>17, FundingAssumption
  <2> QED BY <1>4, <2>1, RoundedUp
<1>19. f[from] - all.used[from] >= units
  <2>1. Spare(t, f, n, from) = f[from] - all.used[from] BY <1>12, <1>15
  <2>2. f[from] \in Int /\ all.used[from] \in Nat BY <1>7, <1>8, <1>9, <1>15
  <2> QED BY <1>5, <1>18, <2>1, <2>2
<1>20. move.from = from /\ move.to = n /\ move.units = units BY <1>5
<1> QED BY <1>1, <1>3, <1>5, <1>9, <1>15, <1>17, <1>18, <1>19, <1>20 DEF Unpaid

\* What each network has after a move that arrives.
LEMMA MovedIs ==
  ASSUME NEW f, IsWallet(f), NEW move, move.from \in DOMAIN f, move.to \in Networks,
         move.units \in Int, NEW arrives, arrives \in Int, NEW h, h = Moved(f, move, arrives)
  PROVE  IsWallet(h) /\ DOMAIN h = DOMAIN f \cup {move.to} /\ move.from \in Networks
<1>1. f[move.from] \in Int /\ move.from \in Networks BY DEF IsWallet
<1>2. Holds(f, move.to) \in Int BY DEF IsWallet, Holds
<1>3. PICK c : c = Holds(f, move.to) + arrives OBVIOUS
<1>4. PICK d : d = f[move.from] - move.units OBVIOUS
<1>5. c \in Int /\ d \in Int BY <1>1, <1>2, <1>3, <1>4
<1>6. PICK g : g = With(f, move.to, c) OBVIOUS
<1>7. IsWallet(g) BY <1>5, <1>6, WithIs
<1>8. DOMAIN g = DOMAIN f \cup {move.to} BY <1>6, WithDomain
<1>9. h = With(g, move.from, d) BY <1>3, <1>4, <1>6 DEF Moved
<1>10. IsWallet(h) BY <1>1, <1>5, <1>7, <1>9, WithIs
<1>11. DOMAIN h = DOMAIN g \cup {move.from} BY <1>9, WithDomain
<1> QED BY <1>1, <1>8, <1>10, <1>11

LEMMA MovedThere ==
  ASSUME NEW f, NEW move, NEW arrives, move.from # move.to
  PROVE  Holds(Moved(f, move, arrives), move.to) = Holds(f, move.to) + arrives
BY WithThere, WithElsewhere DEF Moved

LEMMA MovedHere ==
  ASSUME NEW f, NEW move, NEW arrives
  PROVE  Holds(Moved(f, move, arrives), move.from) = f[move.from] - move.units
BY WithThere DEF Moved

LEMMA MovedElsewhere ==
  ASSUME NEW f, NEW move, NEW arrives, NEW m, m \notin {move.from, move.to}
  PROVE  Holds(Moved(f, move, arrives), m) = Holds(f, m)
BY WithElsewhere DEF Moved

\* The move leaves the task paid for, whatever fee the bridge keeps: the wallet after it has
\* no more than the one with all it could want on the network, and follows its plan.
LEMMA MoveIsEnough ==
  ASSUME NEW t, IsTask(t), IsExact(t), NEW f, IsWallet(f),
         \A m, k \in DOMAIN f : f[m] + f[k] <= Huge,
         NEW n \in Networks, NEW move \in Moves(t, f, n), NEW fee \in 0..Allowance
  PROVE  Simulate(t, Moved(f, move, move.units - fee)).wants = {}
<1>1. PICK all : all = Unlimited(t, f, n) OBVIOUS
<1>2. PICK arrive : arrive = Arrive(t, f, n) OBVIOUS
<1>3. /\ all.wants = {} /\ arrive \in Nat /\ arrive >= all.used[n] - Holds(f, n)
      /\ move.from \in DOMAIN f /\ move.from # n /\ move.to = n /\ move.units \in Nat
      /\ move.units >= arrive + Allowance
      /\ f[move.from] - all.used[move.from] >= move.units
  BY <1>1, <1>2, MoveIs
<1>4. Huge \in Nat /\ Allowance \in Nat /\ fee \in Nat /\ fee <= Allowance BY FundingAssumption
<1>5. PICK u : u = With(f, n, Huge) OBVIOUS
<1>6. /\ IsWallet(u) /\ Holds(u, n) = Huge
      /\ \A m \in Networks \ {n} : Holds(u, m) = Holds(f, m)
  <2>1. Huge \in Int BY <1>4
  <2>2. IsWallet(u) BY <1>5, <2>1, WithIs
  <2>3. Holds(u, n) = Huge BY <1>5, WithThere
  <2>4. \A m \in Networks \ {n} : Holds(u, m) = Holds(f, m) BY <1>5, WithElsewhere
  <2> QED BY <2>2, <2>3, <2>4
<1>7. all = Simulate(t, u) BY <1>1, <1>5 DEF Unlimited
<1>8. \A m \in Networks : all.used[m] \in Nat BY <1>6, <1>7, FinalRun DEF IsRun
<1>9. PICK g : g = Moved(f, move, move.units - fee) OBVIOUS
<1>10. /\ IsWallet(g) /\ move.from \in Networks
       /\ Holds(g, n) = Holds(f, n) + (move.units - fee)
       /\ Holds(g, move.from) = f[move.from] - move.units
       /\ \A m \in Networks \ {move.from, n} : Holds(g, m) = Holds(f, m)
  <2>1. move.units - fee \in Int /\ move.units \in Int BY <1>3, <1>4
  <2>2. move.to \in Networks /\ move.from # move.to BY <1>3
  <2>3. IsWallet(g) /\ move.from \in Networks BY <1>3, <1>9, <2>1, <2>2, MovedIs
  <2>4. Holds(g, move.to) = Holds(f, move.to) + (move.units - fee) BY <1>9, <2>2, MovedThere
  <2>5. Holds(g, move.from) = f[move.from] - move.units BY <1>9, MovedHere
  <2>6. \A m \in Networks \ {move.from, move.to} : Holds(g, m) = Holds(f, m)
    BY <1>9, MovedElsewhere
  <2> QED BY <1>3, <2>3, <2>4, <2>5, <2>6
<1>11. f[move.from] \in Int /\ Holds(f, n) \in Int /\ Holds(f, move.from) = f[move.from]
  BY <1>3 DEF IsWallet, Holds
<1>12. all.used[move.from] \in Nat /\ all.used[n] \in Nat BY <1>8, <1>10
<1>13. Holds(f, n) + move.units <= Huge
  <2>1. CASE n \in DOMAIN f
    <3>1. Holds(f, n) = f[n] /\ f[n] + f[move.from] <= Huge BY <1>3, <2>1 DEF Holds
    <3> QED BY <1>3, <1>4, <1>11, <1>12, <3>1
  <2>2. CASE n \notin DOMAIN f
    <3>1. Holds(f, n) = 0 /\ f[move.from] + f[move.from] <= Huge BY <1>3, <2>2 DEF Holds
    <3> QED BY <1>3, <1>4, <1>11, <1>12, <3>1
  <2> QED BY <2>1, <2>2
<1>14. ASSUME NEW m \in Networks
       PROVE  /\ Holds(g, m) <= Holds(u, m)
              /\ Holds(g, m) = Holds(u, m) \/ all.used[m] <= Holds(g, m)
  <2>1. CASE m = n
    <3>1. Holds(g, n) <= Huge BY <1>3, <1>4, <1>10, <1>11, <1>13
    <3>2. all.used[n] <= Holds(g, n) BY <1>3, <1>4, <1>10, <1>11, <1>12
    <3> QED BY <1>6, <2>1, <3>1, <3>2
  <2>2. CASE m = move.from
    <3>1. Holds(u, m) = f[move.from] BY <1>3, <1>6, <1>10, <1>11, <2>2
    <3>2. Holds(g, m) = f[move.from] - move.units BY <1>10, <2>2
    <3>3. Holds(g, m) <= f[move.from] BY <1>3, <1>11, <3>2
    <3>4. all.used[m] <= Holds(g, m) BY <1>3, <1>11, <1>12, <2>2, <3>2
    <3> QED BY <3>1, <3>3, <3>4
  <2>3. CASE m \notin {n, move.from}
    <3>1. Holds(g, m) = Holds(f, m) /\ Holds(u, m) = Holds(f, m) BY <1>6, <1>10, <2>3
    <3>2. Holds(f, m) \in Int BY DEF IsWallet, Holds
    <3> QED BY <3>1, <3>2
  <2> QED BY <2>1, <2>2, <2>3
<1>15. Simulate(t, u).wants = {} BY <1>3, <1>7
<1>16. \A m \in Networks : /\ Holds(g, m) <= Holds(u, m)
                           /\ Holds(g, m) = Holds(u, m) \/ Simulate(t, u).used[m] <= Holds(g, m)
  BY <1>7, <1>14
<1> QED BY <1>6, <1>9, <1>10, <1>15, <1>16, FollowsThePlan

-----------------------------------------------------------------------------
(***************************************************************************)
(* The task's steps.                                                       *)
(***************************************************************************)
FundingTyped ==
  /\ task \in Tasks /\ bought \in 0..Len(task) /\ IsWallet(left)
  /\ plan = [outcome |-> plan.outcome, moves |-> plan.moves, short |-> plan.short]
  /\ plan.outcome \in Outcomes

\* No network is overdrawn.
Covered == \A n \in DOMAIN left : Available[n] >= 0

\* The move that a plan lists is one of those that it looked at, for these funds.
MoveIsPlanned ==
  /\ plan.outcome = "one_move" \/ (plan = NoPlan /\ bought = 0) =>
       \A m, k \in DOMAIN left : left[m] + left[k] <= Huge
  /\ plan.outcome = "one_move" =>
       bought = 0 /\ \A move \in plan.moves : \E n \in Networks : move \in Moves(task, left, n)

\* The move that a hint names brings what the refused offer asks, and after it that is there.
HintIsEnough ==
  /\ plan.outcome = "hinted" =>
       /\ plan.short \in Offers
       /\ \A move \in plan.moves :
            /\ move.from \in DOMAIN left /\ move.from # move.to /\ move.to = plan.short.network
            /\ move.units \in Nat /\ move.units >= plan.short.price + Allowance
            /\ move.units <= Available[move.from]
  /\ plan.outcome = "none" /\ plan.short # NoOffer =>
       plan.short.network \in DOMAIN left /\ Available[plan.short.network] >= plan.short.price

\* What is left is what the plan's own simulation has left at this purchase, and that
\* simulation pays for the whole task.
OnPlan ==
  plan.outcome = "no_move" \/ (plan.outcome = "moved" /\ CountsExactly) =>
    \E s : /\ IsWallet(s) /\ left = Simulation(task, s)[bought].left
           /\ Simulate(task, s).wants = {}

FundingInv == FundingTyped /\ Covered /\ MoveIsPlanned /\ HintIsEnough /\ OnPlan

LEMMA TasksAre == ASSUME NEW t \in Tasks PROVE IsTask(t)
BY TasksAssumption DEF IsTask

LEMMA ExactlyIs == ASSUME FundingTyped, CountsExactly PROVE IsExact(task)
<1>1. task \in Seq(Purchase) BY TasksAssumption DEF FundingTyped
<1>2. DOMAIN task = 1..Len(task) BY <1>1
<1> QED BY <1>2 DEF CountsExactly, IsExact, Whole

LEMMA AvailableIs ==
  ASSUME NEW f, IsWallet(f), NEW n \in DOMAIN f
  PROVE  /\ [m \in DOMAIN f |-> f[m] + (IF m = "base" THEN Kept ELSE 0)][n] \in Int
         /\ [m \in DOMAIN f |-> f[m] + (IF m = "base" THEN Kept ELSE 0)][n]
              = f[n] + (IF n = "base" THEN Kept ELSE 0)
<1>1. Kept \in Nat BY FundingAssumption
<1>2. f[n] \in Int BY DEF IsWallet
<1> QED BY <1>1, <1>2

LEMMA FundingStarts == FundingInit => FundingInv
<1> SUFFICES ASSUME FundingInit PROVE FundingInv OBVIOUS
<1>1. PICK w \in Wallets : left = WalletFunds(w) BY DEF FundingInit
<1>2. /\ DOMAIN w \subseteq Networks /\ w \in [DOMAIN w -> Nat]
      /\ \A m, n \in DOMAIN w : w[m] + w[n] <= Huge
  BY TasksAssumption
<1>3. Kept \in Nat /\ Huge \in Nat BY FundingAssumption
<1>4. /\ DOMAIN left = DOMAIN w
      /\ \A n \in DOMAIN w : left[n] = w[n] - (IF n = "base" THEN Kept ELSE 0)
      /\ left = [n \in DOMAIN w |-> left[n]]
  BY <1>1 DEF WalletFunds
<1>5. \A n \in DOMAIN w : left[n] \in Int /\ left[n] <= w[n] BY <1>2, <1>3, <1>4
<1>6. left \in [DOMAIN w -> Int] BY <1>4, <1>5
<1>7. IsWallet(left) BY <1>2, <1>4, <1>6 DEF IsWallet
<1>8. ASSUME NEW n \in DOMAIN left PROVE Available[n] >= 0
  <2>1. Available[n] = left[n] + (IF n = "base" THEN Kept ELSE 0) BY DEF Available
  <2>2. w[n] \in Nat BY <1>2, <1>4
  <2> QED BY <1>3, <1>4, <2>1, <2>2
<1>9. ASSUME NEW m \in DOMAIN left, NEW k \in DOMAIN left PROVE left[m] + left[k] <= Huge
  <2>1. /\ w[m] \in Nat /\ w[k] \in Nat /\ w[m] + w[k] <= Huge
        /\ left[m] \in Int /\ left[k] \in Int /\ left[m] <= w[m] /\ left[k] <= w[k]
    BY <1>2, <1>4, <1>5
  <2> QED BY <1>3, <2>1
<1>10. plan = [outcome |-> "none", moves |-> {}, short |-> NoOffer] /\ bought = 0 /\ task \in Tasks
  BY DEF FundingInit, NoPlan
<1>11. task \in Seq(Purchase) BY <1>10, TasksAssumption
<1>12. FundingTyped BY <1>7, <1>10, <1>11 DEF FundingTyped, Outcomes
<1>13. Covered BY <1>8 DEF Covered
<1>14. MoveIsPlanned BY <1>9, <1>10 DEF MoveIsPlanned
<1>15. HintIsEnough BY <1>10 DEF HintIsEnough
<1>16. OnPlan BY <1>10 DEF OnPlan
<1> QED BY <1>12, <1>13, <1>14, <1>15, <1>16 DEF FundingInv

\* A plan's move is one of those it looked at.
LEMMA PlanIs ==
  ASSUME NEW t, IsTask(t), NEW f, IsWallet(f), NEW p, p = PlanTaskFunding(t, f)
  PROVE  /\ p = [outcome |-> p.outcome, moves |-> p.moves, short |-> p.short]
         /\ p.outcome \in {"no_move", "one_move", "short"}
         /\ p.outcome = "no_move" => Simulate(t, f).wants = {}
         /\ p.outcome = "one_move" =>
              \A move \in p.moves : \E n \in Networks : move \in Moves(t, f, n)
<1>1. PICK now : now = Simulate(t, f) OBVIOUS
<1>2. PICK found : found = UNION {Moves(t, f, n) : n \in now.wants} OBVIOUS
<1>3. now.wants \subseteq Networks BY <1>1, FinalRun DEF IsRun
<1>4. CASE now.wants = {}
  <2>1. p = [outcome |-> "no_move", moves |-> {}, short |-> NoOffer]
    BY <1>1, <1>4 DEF PlanTaskFunding, Unpaid
  <2> QED BY <1>1, <1>4, <2>1
<1>5. CASE now.wants # {} /\ found # {}
  <2>1. PICK best : best = CHOOSE m \in found : \A k \in found :
          m.units < k.units \/ (m.units = k.units /\ Rank(m.to) <= Rank(k.to))
    OBVIOUS
  <2>2. p = [outcome |-> "one_move", moves |-> {best}, short |-> NoOffer]
    BY <1>1, <1>2, <1>5, <2>1 DEF PlanTaskFunding, Unpaid
  <2>3. \A m \in found : m.units \in Nat /\ m.to \in Networks /\ \E n \in Networks : m \in Moves(t, f, n)
    <3>1. ASSUME NEW m \in found
          PROVE  m.units \in Nat /\ m.to \in Networks /\ \E n \in Networks : m \in Moves(t, f, n)
      <4>1. PICK n \in Networks : m \in Moves(t, f, n) BY <1>2, <1>3
      <4>2. m.units \in Nat /\ m.to = n BY <4>1, MoveIs
      <4> QED BY <4>1, <4>2
    <3> QED BY <3>1
  <2>4. PICK U : U = {m.units : m \in found} OBVIOUS
  <2>5. PICK x \in U : \A y \in U : x <= y
    <3>1. U \in SUBSET Nat /\ U # {} BY <1>5, <2>3, <2>4
    <3> QED BY <3>1, FundingLeastOf
  <2>6. PICK R : R = {Rank(m.to) : m \in {k \in found : k.units = x}} OBVIOUS
  <2>7. PICK r \in R : \A y \in R : r <= y
    <3>1. R \in SUBSET Nat BY <2>3, <2>6, RanksDiffer
    <3>2. R # {} BY <2>4, <2>5, <2>6
    <3> QED BY <3>1, <3>2, FundingLeastOf
  <2>8. PICK m \in found : m.units = x /\ Rank(m.to) = r BY <2>6, <2>7
  <2>9. ASSUME NEW k \in found
        PROVE  m.units < k.units \/ (m.units = k.units /\ Rank(m.to) <= Rank(k.to))
    <3>1. x <= k.units /\ x \in Nat /\ k.units \in Nat BY <2>3, <2>4, <2>5
    <3>2. CASE k.units = x
      <4>1. Rank(k.to) \in R BY <2>6, <3>2
      <4> QED BY <2>7, <2>8, <3>2, <4>1
    <3>3. CASE k.units # x BY <2>8, <3>1, <3>3
    <3> QED BY <3>2, <3>3
  <2>10. best \in found BY <2>1, <2>8, <2>9
  <2> QED BY <2>2, <2>3, <2>10
<1>6. CASE now.wants # {} /\ found = {}
  <2>1. PICK o : o = LET s == Short(t, f) IN Offer(s.network, s.units) OBVIOUS
  <2>2. p = [outcome |-> "short", moves |-> {}, short |-> o]
    BY <1>1, <1>2, <1>6, <2>1 DEF PlanTaskFunding, Unpaid
  <2> QED BY <2>2
<1> QED BY <1>4, <1>5, <1>6

LEMMA PlanKeeps == ASSUME FundingInv, Plan PROVE FundingInv'
<1>1. /\ task \in Tasks /\ bought = 0 /\ IsWallet(left) /\ plan = NoPlan
      /\ UNCHANGED <<task, left, bought>> /\ bought \in 0..Len(task)
  BY DEF FundingInv, FundingTyped, Plan
<1>2. PICK t : t = task OBVIOUS
<1>3. PICK f : f = left OBVIOUS
<1>4. PICK p : p = PlanTaskFunding(t, f) OBVIOUS
<1>5. IsTask(t) /\ IsWallet(f) BY <1>1, <1>2, <1>3, TasksAre
<1>6. /\ p = [outcome |-> p.outcome, moves |-> p.moves, short |-> p.short]
      /\ p.outcome \in {"no_move", "one_move", "short"}
      /\ p.outcome = "no_move" => Simulate(t, f).wants = {}
      /\ p.outcome = "one_move" =>
           \A move \in p.moves : \E n \in Networks : move \in Moves(t, f, n)
  BY <1>4, <1>5, PlanIs
<1>7. plan' = p /\ task' = t /\ left' = f /\ bought' = 0 BY <1>1, <1>2, <1>3, <1>4 DEF Plan
<1>8. FundingTyped'
  <2>1. bought' \in 0..Len(task') BY <1>1, <1>7
  <2>2. p.outcome \in Outcomes BY <1>6 DEF Outcomes
  <2> QED BY <1>1, <1>5, <1>6, <1>7, <2>1, <2>2 DEF FundingTyped
<1>9. Covered' BY <1>1 DEF FundingInv, Covered, Available
<1>10. MoveIsPlanned'
  <2>1. \A m, k \in DOMAIN left : left[m] + left[k] <= Huge BY <1>1 DEF FundingInv, MoveIsPlanned
  <2> QED BY <1>3, <1>6, <1>7, <2>1 DEF MoveIsPlanned
<1>11. HintIsEnough' BY <1>6, <1>7 DEF HintIsEnough
<1>12. OnPlan'
  <2>1. Simulation(t, f)[0].left = f
    <3>1. t \in Seq(Purchase) BY <1>5 DEF IsTask
    <3>2. Simulation(t, f)[0] = Beginning(f) BY <3>1, SimulationIs
    <3> QED BY <3>2 DEF Beginning
  <2>2. plan'.outcome = "no_move" =>
          \E s : IsWallet(s) /\ f = Simulation(t, s)[0].left /\ Simulate(t, s).wants = {}
    BY <1>5, <1>6, <1>7, <2>1
  <2>3. plan'.outcome # "moved" BY <1>6, <1>7
  <2> QED BY <1>7, <2>2, <2>3 DEF OnPlan
<1> QED BY <1>8, <1>9, <1>10, <1>11, <1>12 DEF FundingInv

\* The hinted move brings more than what is asked, from a network that has it.
LEMMA HintIs ==
  ASSUME NEW n \in Networks, NEW asked \in Nat, NEW f, f \in [DOMAIN f -> Int],
         DOMAIN f \subseteq Networks, NEW move \in PlanFundingMove(n, asked, f)
  PROVE  /\ move.from \in DOMAIN f /\ move.from # move.to /\ move.to = n
         /\ move.units \in Nat /\ move.units >= asked + Allowance /\ move.units <= f[move.from]
<1>1. PICK others : others = DOMAIN f \ {n} OBVIOUS
<1>2. PICK from : from = CHOOSE m \in others : \A k \in others :
                           f[m] > f[k] \/ (f[m] = f[k] /\ Rank(m) <= Rank(k))
  OBVIOUS
<1>3. PICK needed : needed = Up(asked + Allowance) OBVIOUS
<1>4. PICK spare : spare = Down(AtLeast(0, f[from] - (IF from = "base" THEN Reserve ELSE 0)))
  OBVIOUS
<1>5. PICK most : most = AtMost(AtLeast(needed, spare), Down(f[from])) OBVIOUS
<1>6. PICK units : units = AtMost(AtLeast(Preferred, needed), most) OBVIOUS
<1>7. others # {} /\ ~(units < needed) /\ move = [from |-> from, to |-> n, units |-> units]
  BY <1>1, <1>2, <1>3, <1>4, <1>5, <1>6 DEF PlanFundingMove
<1>8. from \in others
  <2>1. PICK v : v = [m \in others |-> f[m]] OBVIOUS
  <2>2. others \in SUBSET Networks /\ v \in [others -> Int] BY <1>1, <2>1
  <2>3. \E m \in others : \A k \in others : v[m] > v[k] \/ (v[m] = v[k] /\ Rank(m) <= Rank(k))
    BY <1>7, <2>2, MostIs
  <2>4. \E m \in others : \A k \in others : f[m] > f[k] \/ (f[m] = f[k] /\ Rank(m) <= Rank(k))
    BY <2>1, <2>3
  <2> QED BY <1>2, <2>4
<1>9. f[from] \in Int BY <1>1, <1>8
<1>10. Allowance \in Nat /\ Preferred \in Nat /\ Reserve \in Nat BY FundingAssumption
<1>11. needed \in Nat /\ needed >= asked + Allowance
  <2>1. asked + Allowance \in Nat BY <1>10
  <2> QED BY <1>3, <2>1, RoundedUp
<1>12. spare \in Int
  <2>1. AtLeast(0, f[from] - (IF from = "base" THEN Reserve ELSE 0)) \in Int
    BY <1>9, <1>10 DEF AtLeast
  <2> QED BY <1>4, <2>1, RoundedDown
<1>13. Down(f[from]) \in Int /\ Down(f[from]) <= f[from] BY <1>9, RoundedDown
<1>14. most \in Int /\ most <= f[from] BY <1>5, <1>9, <1>11, <1>12, <1>13 DEF AtMost, AtLeast
<1>15. units \in Int /\ units <= most BY <1>6, <1>10, <1>11, <1>14 DEF AtMost, AtLeast
<1>16. units \in Nat /\ units >= asked + Allowance /\ units <= f[from]
  BY <1>7, <1>9, <1>10, <1>11, <1>14, <1>15
<1> QED BY <1>1, <1>7, <1>8, <1>16

LEMMA HintKeeps == ASSUME FundingInv, Hint PROVE FundingInv'
<1>1. /\ task \in Tasks /\ bought \in 0..Len(task) /\ IsWallet(left) /\ bought < Len(task)
      /\ UNCHANGED <<task, left, bought>>
  BY DEF FundingInv, FundingTyped, Hint, Remaining
<1>2. PICK f : f = Available OBVIOUS
<1>3. PICK o \in task[bought + 1].offers :
        plan' = [outcome |-> "hinted", short |-> o, moves |-> PlanFundingMove(o.network, o.price, f)]
  BY <1>2 DEF Hint
<1>4. o \in Offers
  <2>1. task \in Seq(Purchase) BY <1>1, TasksAssumption
  <2>2. bought + 1 \in 1..Len(task) BY <1>1, <2>1
  <2>3. task[bought + 1] \in Purchase BY <2>1, <2>2
  <2> QED BY <1>3, <2>3 DEF Purchase
<1>5. f \in [DOMAIN f -> Int] /\ DOMAIN f = DOMAIN left /\ DOMAIN f \subseteq Networks
  <2>1. Kept \in Nat BY FundingAssumption
  <2>2. f = [n \in DOMAIN left |-> left[n] + (IF n = "base" THEN Kept ELSE 0)]
    BY <1>2 DEF Available
  <2>3. \A n \in DOMAIN left : left[n] + (IF n = "base" THEN Kept ELSE 0) \in Int
    BY <1>1, <2>1 DEF IsWallet
  <2> QED BY <1>1, <2>2, <2>3 DEF IsWallet
<1>6. o.network \in Networks /\ o.price \in Nat BY <1>4 DEF Offers
<1>7. \A move \in plan'.moves :
        /\ move.from \in DOMAIN left /\ move.from # move.to /\ move.to = o.network
        /\ move.units \in Nat /\ move.units >= o.price + Allowance
        /\ move.units <= f[move.from]
  <2>1. plan'.moves = PlanFundingMove(o.network, o.price, f) BY <1>3
  <2> QED BY <1>5, <1>6, <2>1, HintIs
<1>8. FundingTyped' BY <1>1, <1>3 DEF FundingTyped, Outcomes
<1>9. Covered' BY <1>1 DEF FundingInv, Covered, Available
<1>10. MoveIsPlanned' BY <1>3 DEF MoveIsPlanned, NoPlan
<1>11. HintIsEnough'
  <2>1. f = Available' BY <1>1, <1>2 DEF Available
  <2> QED BY <1>1, <1>3, <1>4, <1>7, <2>1 DEF HintIsEnough
<1>12. OnPlan' BY <1>3 DEF OnPlan
<1> QED BY <1>8, <1>9, <1>10, <1>11, <1>12 DEF FundingInv

\* After a move: what it took was there, and more arrives than was asked.
LEMMA MoveLeaves ==
  ASSUME NEW f, IsWallet(f), NEW move, move.from \in DOMAIN f, move.to \in Networks,
         move.from # move.to, move.units \in Nat, NEW fee \in 0..Allowance,
         move.units >= Allowance,
         \A n \in DOMAIN f : f[n] + (IF n = "base" THEN Kept ELSE 0) >= 0,
         move.units <= f[move.from] + (IF move.from = "base" THEN Kept ELSE 0),
         NEW h, h = Moved(f, move, move.units - fee)
  PROVE  /\ IsWallet(h) /\ DOMAIN h = DOMAIN f \cup {move.to}
         /\ \A n \in DOMAIN h : h[n] + (IF n = "base" THEN Kept ELSE 0) >= 0
         /\ h[move.to] + (IF move.to = "base" THEN Kept ELSE 0) >= move.units - fee
<1>1. Kept \in Nat /\ Allowance \in Nat /\ fee \in Nat /\ fee <= Allowance BY FundingAssumption
<1>2. move.units - fee \in Int /\ move.units \in Int BY <1>1
<1>3. IsWallet(h) /\ DOMAIN h = DOMAIN f \cup {move.to} /\ move.from \in Networks
  BY <1>2, MovedIs
<1>4. \A n \in DOMAIN h : h[n] \in Int /\ h[n] = Holds(h, n) BY <1>3 DEF IsWallet, Holds
<1>5. \A n \in Networks : Holds(f, n) \in Int BY DEF IsWallet, Holds
<1>6. Holds(f, move.to) + (IF move.to = "base" THEN Kept ELSE 0) >= 0 /\ Holds(f, move.to) \in Int
  BY <1>1, <1>5 DEF Holds
<1>7. h[move.to] = Holds(f, move.to) + (move.units - fee)
  <2>1. Holds(h, move.to) = Holds(f, move.to) + (move.units - fee) BY MovedThere
  <2> QED BY <1>3, <1>4, <2>1
<1>8. h[move.to] + (IF move.to = "base" THEN Kept ELSE 0) >= move.units - fee
  <2>1. PICK kept \in Nat : kept = IF move.to = "base" THEN Kept ELSE 0 BY <1>1
  <2> QED BY <1>1, <1>6, <1>7, <2>1
<1>9. h[move.from] = f[move.from] - move.units
  <2>1. Holds(h, move.from) = f[move.from] - move.units BY MovedHere
  <2> QED BY <1>3, <1>4, <2>1
<1>10. ASSUME NEW n \in DOMAIN h PROVE h[n] + (IF n = "base" THEN Kept ELSE 0) >= 0
  <2>1. CASE n = move.to
    <3>1. h[move.to] \in Int BY <1>3, <1>4
    <3> QED BY <1>1, <1>8, <2>1, <3>1
  <2>2. CASE n = move.from
    <3>1. f[move.from] \in Int BY DEF IsWallet
    <3> QED BY <1>1, <1>9, <2>2, <3>1
  <2>3. CASE n \notin {move.from, move.to}
    <3>1. Holds(h, n) = Holds(f, n) BY <2>3, MovedElsewhere
    <3>2. n \in DOMAIN f BY <1>3, <2>3
    <3>3. h[n] = f[n] BY <1>4, <3>1, <3>2 DEF Holds
    <3> QED BY <3>2, <3>3
  <2> QED BY <2>1, <2>2, <2>3
<1> QED BY <1>3, <1>8, <1>10

LEMMA TransferKeeps == ASSUME FundingInv, NEW fee \in 0..Allowance, Move(fee) PROVE FundingInv'
<1>1. /\ task \in Tasks /\ bought \in 0..Len(task) /\ IsWallet(left)
      /\ UNCHANGED <<task, bought>> /\ plan.outcome \in {"one_move", "hinted"}
      /\ plan = [outcome |-> plan.outcome, moves |-> plan.moves, short |-> plan.short]
  BY DEF FundingInv, FundingTyped, Move
<1>2. PICK move \in plan.moves : left' = Moved(left, move, move.units - fee) BY DEF Move
<1>3. PICK f : f = left OBVIOUS
<1>4. PICK h : h = Moved(f, move, move.units - fee) OBVIOUS
<1>5. IsWallet(f) /\ left' = h BY <1>1, <1>2, <1>3, <1>4
<1>6. PICK t : t = task OBVIOUS
<1>7. IsTask(t) BY <1>1, <1>6, TasksAre
<1>8. Kept \in Nat /\ Allowance \in Nat BY FundingAssumption
<1>9. \A n \in DOMAIN f : /\ Available[n] = f[n] + (IF n = "base" THEN Kept ELSE 0)
                          /\ f[n] + (IF n = "base" THEN Kept ELSE 0) >= 0
  BY <1>3 DEF FundingInv, Covered, Available
<1>10. plan.outcome = "one_move" => \E n \in Networks : move \in Moves(t, f, n)
  BY <1>2, <1>3, <1>6 DEF FundingInv, MoveIsPlanned
<1>11. plan.outcome = "hinted" =>
         /\ plan.short \in Offers
         /\ move.from \in DOMAIN f /\ move.from # move.to /\ move.to = plan.short.network
         /\ move.units \in Nat /\ move.units >= plan.short.price + Allowance
         /\ move.units <= Available[move.from]
  BY <1>2, <1>3 DEF FundingInv, HintIsEnough
<1>12. /\ move.from \in DOMAIN f /\ move.from # move.to /\ move.to \in Networks
       /\ move.units \in Nat /\ move.units >= Allowance
       /\ move.units <= f[move.from] + (IF move.from = "base" THEN Kept ELSE 0)
  <2>1. CASE plan.outcome = "one_move"
    <3>1. PICK n \in Networks : move \in Moves(t, f, n) BY <1>10, <2>1
    <3>2. PICK all : all = Unlimited(t, f, n) OBVIOUS
    <3>3. PICK arrive : arrive = Arrive(t, f, n) OBVIOUS
    <3>4. /\ arrive \in Nat /\ move.from \in DOMAIN f \ {n} /\ move.to = n /\ move.units \in Nat
          /\ move.units >= arrive + Allowance /\ f[move.from] - all.used[move.from] >= move.units
      BY <1>5, <1>7, <3>1, <3>2, <3>3, MoveIs
    <3>5. IsRun(all)
      <4>1. Huge \in Int BY FundingAssumption
      <4>2. PICK u : u = With(f, n, Huge) OBVIOUS
      <4>3. IsWallet(u) BY <1>5, <4>1, <4>2, WithIs
      <4> QED BY <1>7, <3>2, <4>2, <4>3, FinalRun DEF Unlimited
    <3>6. all.used[move.from] \in Nat /\ f[move.from] \in Int
      BY <1>5, <3>4, <3>5 DEF IsRun, IsWallet
    <3>7. move.units <= f[move.from] BY <3>4, <3>6
    <3> QED BY <1>8, <3>4, <3>6, <3>7
  <2>2. CASE plan.outcome = "hinted"
    <3>1. plan.short.network \in Networks /\ plan.short.price \in Nat BY <1>11, <2>2 DEF Offers
    <3>2. move.units <= f[move.from] + (IF move.from = "base" THEN Kept ELSE 0)
      BY <1>9, <1>11, <2>2
    <3>3. move.units >= Allowance BY <1>8, <1>11, <2>2, <3>1
    <3> QED BY <1>11, <2>2, <3>1, <3>2, <3>3
  <2> QED BY <1>1, <2>1, <2>2
<1>13. /\ IsWallet(h) /\ DOMAIN h = DOMAIN f \cup {move.to}
       /\ \A n \in DOMAIN h : h[n] + (IF n = "base" THEN Kept ELSE 0) >= 0
       /\ h[move.to] + (IF move.to = "base" THEN Kept ELSE 0) >= move.units - fee
  BY <1>4, <1>5, <1>9, <1>12, MoveLeaves
<1>14. plan' = [outcome |-> IF plan.outcome = "hinted" THEN "none" ELSE "moved",
                moves |-> {}, short |-> plan.short]
  <2>1. plan' = [plan EXCEPT !.outcome = IF plan.outcome = "hinted" THEN "none" ELSE "moved",
                             !.moves = {}]
    BY DEF Move
  <2> QED BY <1>1, <2>1
<1>15. FundingTyped' BY <1>1, <1>5, <1>13, <1>14 DEF FundingTyped, Outcomes
<1>16. \A n \in DOMAIN h : (Available')[n] = h[n] + (IF n = "base" THEN Kept ELSE 0)
  <2>1. Available' = [n \in DOMAIN h |-> h[n] + (IF n = "base" THEN Kept ELSE 0)]
    BY <1>5 DEF Available
  <2> QED BY <2>1
<1>17. Covered' BY <1>5, <1>13, <1>16 DEF Covered
<1>18. plan.outcome = "hinted" => plan.short # NoOffer
  <2>1. NoOffer \notin Offers BY RanksDiffer DEF NoOffer, Offers
  <2> QED BY <1>11, <2>1
<1>19. MoveIsPlanned' BY <1>1, <1>14, <1>18 DEF MoveIsPlanned, NoPlan
<1>20. HintIsEnough'
  <2>1. CASE plan.outcome = "hinted"
    <3>1. move.to = plan.short.network /\ move.units >= plan.short.price + Allowance
      BY <1>11, <2>1
    <3>2. plan.short.price \in Nat BY <1>11, <2>1 DEF Offers
    <3>3. h[move.to] \in Int BY <1>13 DEF IsWallet
    <3>4. fee \in Nat /\ fee <= Allowance BY <1>8
    <3>5. move.units - fee >= plan.short.price BY <1>8, <1>12, <3>1, <3>2, <3>4
    <3>6. h[move.to] + (IF move.to = "base" THEN Kept ELSE 0) >= plan.short.price
      BY <1>8, <1>12, <1>13, <3>2, <3>3, <3>4, <3>5
    <3>7. move.to \in DOMAIN h BY <1>13
    <3>8. (Available')[move.to] >= plan.short.price BY <1>16, <3>6, <3>7
    <3>9. plan'.short.network \in DOMAIN left' /\ (Available')[plan'.short.network] >= plan'.short.price
      BY <1>5, <1>14, <3>1, <3>7, <3>8
    <3>10. plan'.outcome # "hinted" BY <1>14
    <3> QED BY <3>9, <3>10 DEF HintIsEnough
  <2>2. CASE plan.outcome # "hinted"
    <3>1. plan'.outcome = "moved" BY <1>14, <2>2
    <3> QED BY <3>1 DEF HintIsEnough
  <2> QED BY <2>1, <2>2
<1>21. OnPlan'
  <2>1. SUFFICES ASSUME plan'.outcome = "moved", CountsExactly'
                 PROVE  \E s : /\ IsWallet(s) /\ left' = Simulation(task', s)[bought'].left
                               /\ Simulate(task', s).wants = {}
    BY <1>14 DEF OnPlan
  <2>2. plan.outcome = "one_move" BY <1>1, <1>14, <2>1
  <2>3. PICK n \in Networks : move \in Moves(t, f, n) BY <1>10, <2>2
  <2>4. CountsExactly BY <1>1, <2>1 DEF CountsExactly
  <2>5. IsExact(t)
    <3>1. FundingTyped BY DEF FundingInv
    <3> QED BY <1>6, <2>4, <3>1, ExactlyIs
  <2>6. bought = 0 /\ \A m, k \in DOMAIN f : f[m] + f[k] <= Huge
    BY <1>3, <2>2 DEF FundingInv, MoveIsPlanned
  <2>7. Simulate(t, h).wants = {} BY <1>4, <1>5, <1>7, <2>3, <2>5, <2>6, MoveIsEnough
  <2>8. Simulation(t, h)[0].left = h
    <3>1. t \in Seq(Purchase) BY <1>7 DEF IsTask
    <3>2. Simulation(t, h)[0] = Beginning(h) BY <3>1, SimulationIs
    <3> QED BY <3>2 DEF Beginning
  <2>9. task' = t /\ bought' = 0 /\ left' = h BY <1>1, <1>5, <1>6, <2>6
  <2> QED BY <1>13, <2>7, <2>8, <2>9
<1> QED BY <1>15, <1>17, <1>19, <1>20, <1>21 DEF FundingInv

LEMMA ChosenPays ==
  ASSUME FundingInv, Remaining
  PROVE  /\ IsTask(task) /\ bought + 1 \in 1..Len(task) /\ (bought + 1) - 1 = bought
         /\ bought \in 0..Len(task) /\ bought + 1 \in 0..Len(task)
         /\ task[bought + 1] \in Purchase /\ Paying(task[bought + 1].offers)
<1>1. task \in Tasks /\ bought \in 0..Len(task) /\ bought < Len(task)
  BY DEF FundingInv, FundingTyped, Remaining
<1>2. IsTask(task) BY <1>1, TasksAre
<1>3. task \in Seq(Purchase) BY <1>2 DEF IsTask
<1>4. Len(task) \in Nat BY <1>3
<1>5. bought + 1 \in 1..Len(task) /\ (bought + 1) - 1 = bought /\ bought + 1 \in 0..Len(task)
  BY <1>1, <1>4
<1> QED BY <1>1, <1>2, <1>5, PurchasesPay

\* A planned purchase is paid: the plan's simulation pays for it out of the same funds.
LEMMA PlannedIsPaid ==
  ASSUME FundingInv, Remaining, plan.outcome \in {"no_move", "moved"},
         plan.outcome = "moved" => CountsExactly
  PROVE  Chosen # NoOffer
<1>1. PICK s : /\ IsWallet(s) /\ left = Simulation(task, s)[bought].left
               /\ Simulate(task, s).wants = {}
  BY DEF FundingInv, OnPlan
<1>2. Chosen = Choice(left, task[bought + 1].offers) BY DEF Chosen
<1>3. IsTask(task) /\ bought + 1 \in 1..Len(task) /\ (bought + 1) - 1 = bought BY ChosenPays
<1>4. Choice(Simulation(task, s)[(bought + 1) - 1].left, task[bought + 1].offers) # NoOffer
  BY <1>1, <1>3, PaidThroughout
<1> QED BY <1>1, <1>2, <1>3, <1>4

LEMMA FundingInvPays == ASSUME FundingInv PROVE PlanPays
<1>1. ASSUME plan.outcome = "no_move" \/ CountsExactly,
             plan.outcome \in {"no_move", "moved"}, Remaining
      PROVE  Chosen # NoOffer
  BY <1>1, PlannedIsPaid
<1>2. ASSUME plan.outcome = "none", plan.short # NoOffer
      PROVE  Available[plan.short.network] >= plan.short.price
  BY <1>2 DEF FundingInv, HintIsEnough
<1> QED BY <1>1, <1>2 DEF PlanPays, PlannedIsBought

LEMMA BuyKeeps == ASSUME FundingInv, Buy PROVE FundingInv'
<1>1. /\ task \in Tasks /\ IsWallet(left) /\ task' = task /\ bought' = bought + 1
      /\ plan = [outcome |-> plan.outcome, moves |-> plan.moves, short |-> plan.short]
      /\ plan.outcome \in {"none", "no_move", "moved"} /\ Remaining
      /\ plan' = IF plan.outcome = "none" THEN NoPlan ELSE plan
  BY DEF FundingInv, FundingTyped, Buy
<1>2. PICK offers : offers = task[bought + 1].offers OBVIOUS
<1>3. /\ IsTask(task) /\ bought + 1 \in 1..Len(task) /\ (bought + 1) - 1 = bought
      /\ bought \in 0..Len(task) /\ bought + 1 \in 0..Len(task)
      /\ task[bought + 1] \in Purchase /\ Paying(offers)
  BY <1>1, <1>2, ChosenPays
<1>4. PICK has : has = IF plan.outcome = "none" THEN Available ELSE left OBVIOUS
<1>5. PICK o : o = Choice(has, offers) OBVIOUS
<1>6. o = Chosen /\ o # NoOffer /\ left' = After(left, o)
  BY <1>2, <1>4, <1>5 DEF Chosen, Buy, After
<1>7. Kept \in Nat BY FundingAssumption
<1>8. /\ Available = [n \in DOMAIN left |-> left[n] + (IF n = "base" THEN Kept ELSE 0)]
      /\ \A n \in DOMAIN left : left[n] \in Int
  BY <1>1 DEF Available, IsWallet
<1>9. IsWallet(Available)
  <2>1. /\ DOMAIN Available = DOMAIN left
        /\ \A n \in DOMAIN left : Available[n] \in Int
        /\ Available = [n \in DOMAIN left |-> Available[n]]
    BY <1>7, <1>8
  <2>2. Available \in [DOMAIN left -> Int] BY <2>1
  <2>3. DOMAIN left \subseteq Networks BY <1>1 DEF IsWallet
  <2> QED BY <2>1, <2>2, <2>3 DEF IsWallet
<1>10. IsWallet(has) BY <1>1, <1>4, <1>9
<1>11. /\ o \in Offers /\ (o.free => o.price = 0)
       /\ o.free \/ Holds(has, o.network) >= o.price
  <2>1. offers \in SUBSET Offers BY <1>3 DEF Paying
  <2>2. o \in offers \cup {NoOffer} BY <1>5, <1>10, <2>1, ChoiceIs
  <2>3. o.free \/ Holds(has, o.network) >= o.price BY <1>5, <1>6, <1>10, <2>1, ChoiceIs
  <2> QED BY <1>3, <1>6, <2>2, <2>3 DEF Paying
<1>12. o.price \in Nat /\ o.network \in Networks BY <1>11 DEF Offers
<1>13. /\ DOMAIN left' = DOMAIN left
       /\ \A n \in DOMAIN left :
            left'[n] = left[n] - (IF ~o.free /\ n = o.network THEN o.price ELSE 0)
       /\ left' = [n \in DOMAIN left |-> left'[n]]
  <2>1. CASE o.free
    <3>1. left' = left BY <1>6, <2>1 DEF After
    <3> QED BY <1>1, <1>8, <2>1, <3>1 DEF IsWallet
  <2>2. CASE ~o.free
    <3>1. left' = [left EXCEPT ![o.network] = @ - o.price] BY <1>6, <2>2 DEF After
    <3>2. PICK g : g = left' OBVIOUS
    <3>3. g = [left EXCEPT ![o.network] = @ - o.price] BY <3>1, <3>2
    <3>4. DOMAIN g = DOMAIN left /\ g = [n \in DOMAIN left |-> g[n]] BY <3>3
    <3>5. \A n \in DOMAIN left : g[n] = left[n] - (IF n = o.network THEN o.price ELSE 0)
      BY <1>8, <1>12, <3>3
    <3> QED BY <2>2, <3>2, <3>4, <3>5
  <2> QED BY <2>1, <2>2
<1>14. \A n \in DOMAIN left' : left'[n] \in Int BY <1>8, <1>12, <1>13
<1>15. IsWallet(left')
  <2>1. left' \in [DOMAIN left' -> Int] BY <1>13, <1>14
  <2>2. DOMAIN left' \subseteq Networks BY <1>1, <1>13 DEF IsWallet
  <2> QED BY <2>1, <2>2 DEF IsWallet
<1>16. Covered'
  <2>1. Available' = [n \in DOMAIN left |-> left'[n] + (IF n = "base" THEN Kept ELSE 0)]
    BY <1>13 DEF Available
  <2>2. ASSUME NEW n \in DOMAIN left PROVE (Available')[n] >= 0
    <3>1. PICK kept \in Nat : kept = IF n = "base" THEN Kept ELSE 0 BY <1>7
    <3>2. left[n] \in Int /\ left[n] + kept >= 0 /\ Available[n] = left[n] + kept
      BY <1>8, <3>1 DEF FundingInv, Covered
    <3>3. (Available')[n] = left'[n] + kept BY <2>1, <3>1
    <3>4. CASE ~o.free /\ n = o.network
      <4>1. left'[n] = left[n] - o.price BY <1>13, <3>4
      <4>2. DOMAIN has = DOMAIN left BY <1>4, <1>8
      <4>3. has[n] >= o.price /\ (has[n] = left[n] \/ has[n] = left[n] + kept)
        BY <1>4, <1>11, <3>2, <3>4, <4>2 DEF Holds
      <4> QED BY <1>12, <3>1, <3>2, <3>3, <4>1, <4>3
    <3>5. CASE ~(~o.free /\ n = o.network)
      <4>1. left'[n] = left[n] BY <1>8, <1>13, <3>5
      <4> QED BY <3>2, <3>3, <4>1
    <3> QED BY <3>4, <3>5
  <2> QED BY <1>13, <2>2 DEF Covered
<1>17. FundingTyped'
  <2>1. bought' \in 0..Len(task') BY <1>1, <1>3
  <2> QED BY <1>1, <1>15, <2>1 DEF FundingTyped, NoPlan, Outcomes
<1>18. MoveIsPlanned'
  <2>1. bought' # 0 BY <1>1, <1>3
  <2>2. plan'.outcome # "one_move" BY <1>1 DEF NoPlan
  <2> QED BY <2>1, <2>2 DEF MoveIsPlanned
<1>19. HintIsEnough' BY <1>1 DEF HintIsEnough, NoPlan
<1>20. OnPlan'
  <2>1. SUFFICES ASSUME plan'.outcome = "no_move" \/ (plan'.outcome = "moved" /\ CountsExactly')
                 PROVE  \E s : /\ IsWallet(s) /\ left' = Simulation(task', s)[bought'].left
                               /\ Simulate(task', s).wants = {}
    BY DEF OnPlan
  <2>2. plan.outcome # "none" /\ plan' = plan BY <1>1, <2>1 DEF NoPlan
  <2>3. CountsExactly' = CountsExactly BY <1>1 DEF CountsExactly
  <2>4. PICK s : /\ IsWallet(s) /\ left = Simulation(task, s)[bought].left
                 /\ Simulate(task, s).wants = {}
    BY <2>1, <2>2, <2>3 DEF FundingInv, OnPlan
  <2>5. PICK run : run = Simulation(task, s)[bought] OBVIOUS
  <2>6. PICK p : p = task[bought + 1] OBVIOUS
  <2>7. Simulation(task, s)[bought + 1] = Assign(run, p)
    <3>1. Simulation(task, s)[bought + 1]
            = Assign(Simulation(task, s)[(bought + 1) - 1], task[bought + 1])
      BY <1>3, StepIs
    <3> QED BY <1>3, <2>5, <2>6, <3>1
  <2>8. IsRun(run) BY <1>3, <2>4, <2>5, RunsAre
  <2>9. o = Choice(run.left, p.offers) BY <1>2, <1>4, <1>5, <2>2, <2>4, <2>5, <2>6
  <2>10. Assign(run, p).left = After(run.left, o) BY <1>2, <1>3, <1>6, <2>6, <2>8, <2>9, PaidIs
  <2>11. left' = Simulation(task, s)[bought + 1].left BY <1>6, <2>4, <2>5, <2>7, <2>10
  <2> QED BY <1>1, <2>4, <2>11
<1> QED BY <1>16, <1>17, <1>18, <1>19, <1>20 DEF FundingInv

LEMMA FundingKeeps == FundingInv /\ [FundingNext]_fundingVars => FundingInv'
<1> SUFFICES ASSUME FundingInv, [FundingNext]_fundingVars PROVE FundingInv' OBVIOUS
<1>1. CASE Plan BY <1>1, PlanKeeps
<1>2. CASE Hint BY <1>2, HintKeeps
<1>3. CASE \E fee \in 0..Allowance : Move(fee) BY <1>3, TransferKeeps
<1>4. CASE Buy BY <1>4, BuyKeeps
<1>5. CASE UNCHANGED fundingVars
  <2>1. UNCHANGED <<task, left, plan, bought>> BY <1>5 DEF fundingVars
  <2>2. FundingTyped' BY <2>1 DEF FundingInv, FundingTyped
  <2>3. Covered' BY <2>1 DEF FundingInv, Covered, Available
  <2>4. MoveIsPlanned' BY <2>1 DEF FundingInv, MoveIsPlanned
  <2>5. HintIsEnough' BY <2>1 DEF FundingInv, HintIsEnough, Available
  <2>6. OnPlan' BY <2>1 DEF FundingInv, OnPlan, CountsExactly
  <2> QED BY <2>2, <2>3, <2>4, <2>5, <2>6 DEF FundingInv
<1> QED BY <1>1, <1>2, <1>3, <1>4, <1>5 DEF FundingNext

\* Whatever there is to buy and with whatever funds: a task that its plan leaves without a
\* move is bought to its end, after one move too where the plan counts exactly, and a refused
\* purchase is paid after the move that its hint names (funding-plan.ts:15-18).
THEOREM PlannedTasksArePaid == FundingSpec => []PlanPays
<1>1. FundingInv => PlanPays BY FundingInvPays
<1> QED BY <1>1, FundingStarts, FundingKeeps, PTL DEF FundingSpec

\* No purchase and no move takes more of a network than it has, with what Base keeps for
\* hosting and for the run's own calls: not the planned ones, and not those that were made
\* without a plan or after a hint (hosted-economy.ts:384-417).
THEOREM NothingIsOverdrawn == FundingSpec => []Covered
<1>1. FundingInv => Covered BY DEF FundingInv
<1> QED BY <1>1, FundingStarts, FundingKeeps, PTL DEF FundingSpec

-----------------------------------------------------------------------------
(***************************************************************************)
(* Models again: what is chosen was offered by its provider.               *)
(***************************************************************************)
LEMMA HasGreatest ==
  ASSUME NEW S, IsFiniteSet(S), S # {}, NEW f \in [S -> Nat]
  PROVE  \E m \in S : \A n \in S : f[n] <= f[m]
<1> DEFINE Tops(U) == \E m \in U : \A n \in U : f[n] <= f[m]
<1>1. PICK T : T = {k \in Nat : \A U \in SUBSET S : Cardinality(U) = k => U = {} \/ Tops(U)}
  OBVIOUS
<1>2. \A U \in SUBSET S : IsFiniteSet(U) /\ Cardinality(U) \in Nat
                          /\ (Cardinality(U) = 0 <=> U = {})
  BY FS_Subset, FS_CardinalityType, FS_EmptySet
<1>3. 0 \in T BY <1>1, <1>2
<1>4. ASSUME NEW k \in Nat, k \in T PROVE k + 1 \in T
  <2> SUFFICES ASSUME NEW U \in SUBSET S, Cardinality(U) = k + 1, U # {} PROVE Tops(U)
    BY <1>1
  <2>1. PICK x \in U : TRUE OBVIOUS
  <2>2. PICK V : V = U \ {x} OBVIOUS
  <2>3. V \in SUBSET S /\ Cardinality(V) = k
    <3>1. Cardinality(U \ {x}) = Cardinality(U) - 1 BY <1>2, <2>1, FS_RemoveElement
    <3> QED BY <2>2, <3>1
  <2>4. V = {} \/ Tops(V) BY <1>1, <1>4, <2>3
  <2>5. \A n \in U : f[n] \in Nat OBVIOUS
  <2>6. CASE V = {}
    <3>1. \A n \in U : n = x BY <2>2, <2>6
    <3> QED BY <2>1, <2>5, <3>1
  <2>7. CASE Tops(V)
    <3>1. PICK m \in V : \A n \in V : f[n] <= f[m] BY <2>7
    <3>2. \A n \in U : n = x \/ n \in V BY <2>2
    <3>3. m \in U BY <2>2, <3>1
    <3>4. CASE f[x] <= f[m] BY <3>1, <3>2, <3>3, <3>4
    <3>5. CASE ~(f[x] <= f[m])
      <4>1. \A n \in U : f[n] <= f[x] BY <2>1, <2>5, <3>1, <3>2, <3>3, <3>5
      <4> QED BY <2>1, <4>1
    <3> QED BY <3>4, <3>5
  <2> QED BY <2>4, <2>6, <2>7
<1>5. \A k \in 0..Cardinality(S) : k \in T
  <2>1. Cardinality(S) \in Nat BY <1>2
  <2>2. T \in SUBSET Nat BY <1>1
  <2> QED BY <1>3, <1>4, <2>1, <2>2, StepByStep
<1>6. Cardinality(S) \in T BY <1>2, <1>5
<1> QED BY <1>1, <1>6

\* Of those that pass, or of all where none does.
LEMMA OrAllIs == ASSUME NEW S, NEW all, S \subseteq all, all # {}
                 PROVE  OrAll(S, all) # {} /\ OrAll(S, all) \subseteq all
BY DEF OrAll

IsListed(models) == \E c \in Catalogs : models \subseteq c

LEMMA EntriesAre ==
  ASSUME NEW models, IsListed(models)
  PROVE  IsFiniteSet(models) /\ \A m \in models : m.place \in Nat /\ Blended(m) \in Nat
<1>1. PICK c \in Catalogs : models \subseteq c BY DEF IsListed
<1>2. IsFiniteSet(c) /\ \A m \in c : m.place \in Nat /\ m.price \in Int
  BY ModelChoiceAssumption
<1>3. IsFiniteSet(models) BY <1>1, <1>2, FS_Subset
<1> QED BY <1>1, <1>2, <1>3 DEF Blended

\* Among entries of one price the first of the catalog can be told.
LEMMA FirstPlace ==
  ASSUME NEW S, S # {}, \A m \in S : m.place \in Nat
  PROVE  \E m \in S : \A n \in S : m.place <= n.place
<1>1. PICK P : P = {m.place : m \in S} OBVIOUS
<1>2. PICK x \in P : \A y \in P : x <= y
  <2>1. P \in SUBSET Nat /\ P # {} BY <1>1
  <2> QED BY <2>1, FundingLeastOf
<1> QED BY <1>1, <1>2

\* The dearest model that takes tools, and the cheapest that is wide enough: there is one.
LEMMA AutoIsListed ==
  ASSUME NEW models, IsListed(models), models # {}
  PROVE  AutoMain(models) \in models /\ AutoSub(models) \in models
<1>1. PICK able : able = Able(models) OBVIOUS
<1>2. able # {} /\ able \subseteq models BY <1>1, OrAllIs DEF Able
<1>3. /\ IsFiniteSet(able) /\ \A m \in able : m.place \in Nat /\ Blended(m) \in Nat
  BY <1>2, EntriesAre, FS_Subset
<1>4. AutoMain(models) \in able
  <2>1. PICK f : f = [m \in able |-> Blended(m)] OBVIOUS
  <2>2. f \in [able -> Nat] BY <1>3, <2>1
  <2>3. PICK top \in able : \A n \in able : f[n] <= f[top] BY <1>2, <1>3, <2>2, HasGreatest
  <2>4. PICK S : S = {m \in able : Blended(m) = Blended(top)} OBVIOUS
  <2>5. PICK m \in S : \A n \in S : m.place <= n.place BY <1>3, <2>4, FirstPlace
  <2>6. \A n \in able : Blended(m) > Blended(n) \/ (Blended(m) = Blended(n) /\ m.place <= n.place)
    <3> SUFFICES ASSUME NEW n \in able
                 PROVE  Blended(m) > Blended(n) \/ (Blended(m) = Blended(n) /\ m.place <= n.place)
      OBVIOUS
    <3>1. Blended(n) <= Blended(top) /\ Blended(m) = Blended(top) BY <2>1, <2>3, <2>4, <2>5
    <3>2. Blended(n) = Blended(top) => m.place <= n.place BY <2>4, <2>5
    <3> QED BY <1>3, <3>1, <3>2
  <2>7. m \in able BY <2>4, <2>5
  <2>8. \E b \in able : \A n \in able :
          Blended(b) > Blended(n) \/ (Blended(b) = Blended(n) /\ b.place <= n.place)
    BY <2>6, <2>7
  <2> QED BY <1>1, <2>8 DEF AutoMain
<1>5. AutoSub(models) \in able
  <2>1. PICK wide : wide = OrAll({m \in able : Window(m) >= Floor}, able) OBVIOUS
  <2>2. wide # {} /\ wide \subseteq able BY <1>2, <2>1, OrAllIs
  <2>3. PICK priced : priced = OrAll({m \in wide : Blended(m) > 0}, wide) OBVIOUS
  <2>4. priced # {} /\ priced \subseteq wide BY <2>2, <2>3, OrAllIs
  <2>5. \A m \in priced : m.place \in Nat /\ Blended(m) \in Nat BY <1>3, <2>2, <2>4
  <2>6. PICK P : P = {Blended(m) : m \in priced} OBVIOUS
  <2>7. PICK x \in P : \A y \in P : x <= y
    <3>1. P \in SUBSET Nat /\ P # {} BY <2>4, <2>5, <2>6
    <3> QED BY <3>1, FundingLeastOf
  <2>8. PICK S : S = {m \in priced : Blended(m) = x} OBVIOUS
  <2>9. S # {} BY <2>6, <2>7, <2>8
  <2>10. PICK m \in S : \A n \in S : m.place <= n.place BY <2>5, <2>8, <2>9, FirstPlace
  <2>11. ASSUME NEW n \in priced
         PROVE  Blended(m) < Blended(n) \/ (Blended(m) = Blended(n) /\ m.place <= n.place)
    <3>1. x <= Blended(n) /\ Blended(m) = x BY <2>6, <2>7, <2>8, <2>10
    <3>2. Blended(n) = x => m.place <= n.place BY <2>8, <2>10
    <3>3. x \in Nat /\ Blended(n) \in Nat BY <2>5, <2>8, <2>10, <3>1
    <3> QED BY <3>1, <3>2, <3>3
  <2>12. m \in priced BY <2>8, <2>10
  <2>13. \E b \in priced : \A n \in priced :
           Blended(b) < Blended(n) \/ (Blended(b) = Blended(n) /\ b.place <= n.place)
    BY <2>11, <2>12
  <2>14. AutoSub(models) \in priced BY <1>1, <2>1, <2>3, <2>13 DEF AutoSub
  <2> QED BY <2>2, <2>4, <2>14
<1> QED BY <1>2, <1>4, <1>5

LEMMA ResolvedIsListed ==
  ASSUME NEW p, NEW models, NEW want, IsListed(models), Resolves(models, want)
  PROVE  /\ Resolved(p, models, want).of = p
         /\ {Resolved(p, models, want).main, Resolved(p, models, want).sub}
              \subseteq NamesOf(models) \cup {"off"}
<1>1. models # {} /\ {want.main, want.sub} \subseteq NamesOf(models) \cup {"auto", "off"}
  BY DEF Resolves
<1>2. AutoMain(models).name \in NamesOf(models) /\ AutoSub(models).name \in NamesOf(models)
  BY <1>1, AutoIsListed DEF NamesOf
<1> QED BY <1>1, <1>2 DEF Resolved

\* A choice names what its provider has offered.
IsOffered(m) ==
  m # NoModels =>
    /\ m = [of |-> m.of, old |-> m.old, main |-> m.main, sub |-> m.sub]
    /\ m.of \in Providers /\ {m.main, m.sub} \subseteq offered[m.of] \cup {"off"}

SettingsAre == /\ settings = [provider |-> settings.provider, of |-> settings.of]
               /\ settings.provider \in Providers

OfferInv ==
  /\ lists \in [Providers -> Catalogs]
  /\ DOMAIN seen = Providers /\ DOMAIN offered = Providers
  /\ \A p \in Providers : seen[p] = NotSeen \/ IsListed(seen[p])
  /\ SettingsAre
  /\ IsOffered(chosen) /\ IsOffered(stored) /\ IsOffered(asks)

LEMMA SeenIsListed ==
  ASSUME OfferInv, NEW p \in Providers, NEW models,
         models \in Seen(p) \/ models \in {Normalized(lists[p]), {}}
  PROVE  IsListed(models)
<1>1. lists[p] \in Catalogs BY DEF OfferInv
<1> QED BY <1>1 DEF Seen, Normalized, IsListed, OfferInv

\* What was offered stays offered.
LEMMA OfferGrows ==
  ASSUME OfferInv, NEW p \in Providers, NEW models, IsListed(models), KeepsList(p, models)
  PROVE  /\ DOMAIN seen' = Providers /\ DOMAIN offered' = Providers
         /\ \A q \in Providers : seen'[q] = NotSeen \/ IsListed(seen'[q])
         /\ \A q \in Providers : offered[q] \subseteq offered'[q]
         /\ NamesOf(models) \subseteq offered'[p]
BY DEF OfferInv, KeepsList

LEMMA StaysOffered ==
  ASSUME NEW m, IsOffered(m), \A q \in Providers : offered[q] \subseteq offered'[q]
  PROVE  m # NoModels =>
           /\ m = [of |-> m.of, old |-> m.old, main |-> m.main, sub |-> m.sub]
           /\ m.of \in Providers /\ {m.main, m.sub} \subseteq offered'[m.of] \cup {"off"}
BY DEF IsOffered

\* Nothing is chosen anew.
LEMMA KeepsOffers ==
  ASSUME OfferInv, \A q \in Providers : offered[q] \subseteq offered'[q],
         DOMAIN seen' = Providers, DOMAIN offered' = Providers,
         \A q \in Providers : seen'[q] = NotSeen \/ IsListed(seen'[q]),
         lists' \in [Providers -> Catalogs], SettingsAre',
         chosen' \in {chosen, stored}, stored' = stored, asks' \in {chosen, asks, NoModels}
  PROVE  OfferInv'
<1>1. PICK a, b, c : a = chosen' /\ b = stored' /\ c = asks' OBVIOUS
<1>2. IsOffered(a) /\ IsOffered(b) /\ IsOffered(c) BY <1>1 DEF OfferInv, IsOffered
<1>3. IsOffered(chosen)' BY <1>1, <1>2, StaysOffered DEF IsOffered
<1>4. IsOffered(stored)' BY <1>1, <1>2, StaysOffered DEF IsOffered
<1>5. IsOffered(asks)' BY <1>1, <1>2, StaysOffered DEF IsOffered
<1> QED BY <1>3, <1>4, <1>5 DEF OfferInv

\* A choice is resolved from what the provider lists, and kept or not.
LEMMA ChoosesOffered ==
  ASSUME OfferInv, NEW p \in Providers, NEW models \in Seen(p), NEW want, KeepsList(p, models),
         Resolves(models, want), Chooses(Resolved(p, models, want)), UNCHANGED <<settings, lists>>,
         asks' \in {asks, chosen', NoModels}
  PROVE  OfferInv'
<1>1. PICK m : m = Resolved(p, models, want) OBVIOUS
<1>2. IsListed(models) BY SeenIsListed
<1>3. m.of = p /\ {m.main, m.sub} \subseteq NamesOf(models) \cup {"off"}
  BY <1>1, <1>2, ResolvedIsListed
<1>4. m = [of |-> m.of, old |-> m.old, main |-> m.main, sub |-> m.sub] BY <1>1 DEF Resolved
<1>5. /\ DOMAIN seen' = Providers /\ DOMAIN offered' = Providers
      /\ \A q \in Providers : seen'[q] = NotSeen \/ IsListed(seen'[q])
      /\ \A q \in Providers : offered[q] \subseteq offered'[q]
      /\ NamesOf(models) \subseteq offered'[p]
  BY <1>2, OfferGrows
<1>6. chosen' = m /\ stored' \in {m, stored} BY <1>1 DEF Chooses
<1>7. IsOffered(chosen)' BY <1>3, <1>4, <1>5, <1>6 DEF IsOffered
<1>8. IsOffered(stored)'
  <2>1. CASE stored' = m BY <1>3, <1>4, <1>5, <2>1 DEF IsOffered
  <2>2. CASE stored' = stored
    <3>1. PICK b : b = stored OBVIOUS
    <3>2. IsOffered(b) BY <3>1 DEF OfferInv
    <3> QED BY <1>5, <2>2, <3>1, <3>2, StaysOffered DEF IsOffered
  <2> QED BY <1>6, <2>1, <2>2
<1>9. IsOffered(asks)'
  <2>1. CASE asks' = m BY <1>3, <1>4, <1>5, <2>1 DEF IsOffered
  <2>2. CASE asks' = asks
    <3>1. PICK b : b = asks OBVIOUS
    <3>2. IsOffered(b) BY <3>1 DEF OfferInv
    <3> QED BY <1>5, <2>2, <3>1, <3>2, StaysOffered DEF IsOffered
  <2>3. CASE asks' = NoModels BY <2>3 DEF IsOffered
  <2> QED BY <1>6, <2>1, <2>2, <2>3
<1> QED BY <1>5, <1>7, <1>8, <1>9 DEF OfferInv, SettingsAre

LEMMA OfferStarts == ChoiceInit => OfferInv
<1> SUFFICES ASSUME ChoiceInit PROVE OfferInv OBVIOUS
<1>1. FirstOne \in Providers BY ModelChoiceAssumption
<1>2. /\ lists \in [Providers -> Catalogs] /\ seen = [p \in Providers |-> NotSeen]
      /\ settings = [provider |-> FirstOne, of |-> [p \in Providers |-> FirstPreferences]]
      /\ chosen = stored /\ asks = NoModels
      /\ offered = [p \in Providers |-> IF stored.of = p THEN {stored.main} ELSE {}]
  BY DEF ChoiceInit
<1>3. IsOffered(stored)
  <2> SUFFICES ASSUME stored # NoModels
               PROVE  /\ stored = [of |-> stored.of, old |-> stored.old, main |-> stored.main,
                                   sub |-> stored.sub]
                      /\ stored.of \in Providers
                      /\ {stored.main, stored.sub} \subseteq offered[stored.of] \cup {"off"}
    BY DEF IsOffered
  <2>1. PICK O, N : stored \in [of : {FirstOne}, old : O, main : N, sub : {"off"}]
    BY DEF ChoiceInit
  <2>2. stored.of = FirstOne /\ stored.sub = "off" BY <2>1
  <2> QED BY <1>1, <1>2, <2>1, <2>2
<1> QED BY <1>1, <1>2, <1>3 DEF OfferInv, IsOffered, SettingsAre

LEMMA ActiveIs == ASSUME OfferInv PROVE Active \in Providers
BY DEF OfferInv, SettingsAre, IsOffered, Active

LEMMA OfferKeeps == OfferInv /\ [ChoiceNext]_choiceVars => OfferInv'
<1> SUFFICES ASSUME OfferInv, [ChoiceNext]_choiceVars PROVE OfferInv' OBVIOUS
<1>1. ASSUME UNCHANGED <<seen, offered, stored>>, lists' \in [Providers -> Catalogs], SettingsAre',
             chosen' \in {chosen, stored},
             asks' \in {chosen, asks, NoModels}
      PROVE  OfferInv'
  <2>1. /\ \A q \in Providers : offered[q] \subseteq offered'[q]
        /\ DOMAIN seen' = Providers /\ DOMAIN offered' = Providers
        /\ \A q \in Providers : seen'[q] = NotSeen \/ IsListed(seen'[q])
    BY <1>1 DEF OfferInv
  <2> QED BY <1>1, <2>1, KeepsOffers
<1>2. ASSUME NEW p \in Providers, NEW main, NEW sub, Begin(p, main, sub) PROVE OfferInv'
  <2>1. PICK want : want = Wanting(p, main, sub) OBVIOUS
  <2>2. PICK models \in Seen(p) :
          /\ KeepsList(p, models) /\ Resolves(models, want)
          /\ Chooses(Resolved(p, models, want)) /\ asks' \in {chosen', NoModels}
          /\ UNCHANGED <<settings, lists>>
    BY <1>2, <2>1 DEF Begin
  <2> QED BY <2>2, ChoosesOffered
<1>3. ASSUME NEW p \in Providers, SetProvider(p) PROVE OfferInv'
  BY <1>3, ChoosesOffered DEF SetProvider
<1>4. ASSUME NEW want, SetsTo(want), UNCHANGED <<settings, lists, asks>> PROVE OfferInv'
  BY <1>4, ActiveIs, ChoosesOffered DEF SetsTo, Updates
<1>5. ASSUME NEW p \in Providers, Resume(p) PROVE OfferInv'
  <2>1. /\ UNCHANGED <<chosen, stored, settings, lists>>
        /\ chosen # NoModels /\ chosen.of = p /\ asks' = [chosen EXCEPT !.of = p]
    BY <1>5 DEF Resume, Recorded
  <2>2. asks' = chosen
    <3>1. chosen = [of |-> chosen.of, old |-> chosen.old, main |-> chosen.main, sub |-> chosen.sub]
      BY <2>1 DEF OfferInv, IsOffered
    <3> QED BY <2>1, <3>1
  <2>3. lists' \in [Providers -> Catalogs] /\ SettingsAre'
    BY <2>1 DEF OfferInv, SettingsAre
  <2>4. CASE UNCHANGED <<seen, offered>> BY <1>1, <2>1, <2>2, <2>3, <2>4
  <2>5. CASE \E models \in Seen(p) : KeepsList(p, models)
    <3>1. PICK models \in Seen(p) : KeepsList(p, models) BY <2>5
    <3>2. IsListed(models) BY SeenIsListed
    <3> QED BY <2>1, <2>2, <2>3, <3>1, <3>2, OfferGrows, KeepsOffers
  <2> QED BY <1>5, <2>4, <2>5 DEF Resume
<1>6. CASE Refresh
  <2>1. PICK models \in {Normalized(lists[Active]), {}} : KeepsList(Active, models)
    BY <1>6 DEF Refresh
  <2>2. PICK p \in Providers : p = Active BY ActiveIs
  <2>3. IsListed(models) /\ KeepsList(p, models) BY <2>1, <2>2, SeenIsListed
  <2>4. /\ UNCHANGED <<chosen, stored, asks>> /\ lists' \in [Providers -> Catalogs]
        /\ SettingsAre'
    BY <1>6 DEF Refresh, OfferInv, SettingsAre
  <2> QED BY <2>3, <2>4, OfferGrows, KeepsOffers
<1>7. CASE Configure
  <2>1. UNCHANGED <<chosen, stored, lists, seen, asks, offered>> BY <1>7 DEF Configure
  <2>2. SettingsAre'
    <3>1. settings = [provider |-> settings.provider, of |-> settings.of]
      BY DEF OfferInv, SettingsAre
    <3>2. CASE \E p \in Providers : settings' = [settings EXCEPT !.provider = p]
      BY <3>1, <3>2 DEF SettingsAre
    <3>3. ASSUME NEW preferences, settings' = [settings EXCEPT !.of = preferences]
          PROVE  SettingsAre'
      BY <3>1, <3>3 DEF SettingsAre, OfferInv
    <3> QED BY <1>7, <3>2, <3>3 DEF Configure
  <2> QED BY <1>1, <2>1, <2>2 DEF OfferInv
<1>8. CASE Relist
  <2>1. UNCHANGED <<chosen, stored, settings, seen, asks, offered>> BY <1>8 DEF Relist
  <2>2. lists' \in [Providers -> Catalogs] BY <1>8 DEF Relist, OfferInv
  <2> QED BY <1>1, <2>1, <2>2 DEF OfferInv, SettingsAre
<1>9. CASE EndQuery \/ UNCHANGED choiceVars
  <2>1. /\ UNCHANGED <<chosen, stored, settings, lists, seen, offered>>
        /\ asks' \in {asks, NoModels}
    BY <1>9 DEF EndQuery, choiceVars
  <2> QED BY <1>1, <2>1 DEF OfferInv, SettingsAre
<1>10. CASE StartAgain
  <2>1. /\ chosen' = stored /\ asks' = NoModels /\ seen' = [p \in Providers |-> NotSeen]
        /\ UNCHANGED <<stored, settings, lists, offered>>
    BY <1>10 DEF StartAgain
  <2>2. /\ \A q \in Providers : offered[q] \subseteq offered'[q]
        /\ DOMAIN seen' = Providers /\ DOMAIN offered' = Providers
        /\ \A q \in Providers : seen'[q] = NotSeen \/ IsListed(seen'[q])
        /\ lists' \in [Providers -> Catalogs] /\ SettingsAre'
    BY <2>1 DEF OfferInv, SettingsAre
  <2> QED BY <2>1, <2>2, KeepsOffers
<1>11. ASSUME NEW main, SetModel(main) PROVE OfferInv' BY <1>4, <1>11 DEF SetModel
<1>12. ASSUME NEW sub, SetSubmodel(sub) PROVE OfferInv' BY <1>4, <1>12 DEF SetSubmodel
<1> QED BY <1>2, <1>3, <1>5, <1>6, <1>7, <1>8, <1>9, <1>10, <1>11, <1>12 DEF ChoiceNext

\* A query asks its provider for models which that provider has offered to this machine, or
\* for none: whatever is switched, resolved to "auto", refreshed, lost or started again, a
\* name never follows the user to another provider (llm-runtime.ts:119-138).
THEOREM QueriesAskWhatIsListed == ChoiceSpec => []AsksWhatIsListed
<1>1. OfferInv => AsksWhatIsListed BY DEF OfferInv, IsOffered, AsksWhatIsListed
<1> QED BY <1>1, OfferStarts, OfferKeeps, PTL DEF ChoiceSpec
=============================================================================
