------------------------------ MODULE Reputation ------------------------------
(***************************************************************************)
(* What CrowdCode knows of a service, on the way to a payment: the list of *)
(* services by endpoint, kept for a while, with the identifiers it gave    *)
(* kept for good (ServiceDirectory of agent-runtime/src/hosted-economy.ts),*)
(* the score that is read by identifier, the owner's preference            *)
(* (economy/src/crowdcode-preferences.ts), and the decision to pay         *)
(* (economy/src/gateway.ts).                                               *)
(*                                                                         *)
(* A request to CrowdCode may fail at any time.  An endpoint has one       *)
(* identifier for as long as it is listed.                                 *)
(***************************************************************************)
EXTENDS Naturals, FiniteSets

CONSTANTS
  Endpoints,     \* services
  Buyers,        \* calls of the session that may be under way at once
  MaxRatings,    \* bound: changes at CrowdCode
  MaxPreferences \* bound: changes of the preference

ASSUME ReputationAssumption == MaxRatings \in Nat /\ MaxPreferences \in Nat

VARIABLES
  rated,      \* at CrowdCode: what it says of each endpoint
  directory,  \* the endpoints of the list that is kept, and those with a known identifier
  preference, \* crowdcode-preferences.json: of the session, by default, and what is being set
  promised,   \* history: what CrowdCodePreferences.status may answer
  buying,     \* each call: its endpoint, its step, what it was told
  changes     \* ratings and preferences changed so far
reputationVars == <<rated, directory, preference, promised, buying, changes>>

\* Not listed; listed with too few reviews; with a score below minServiceScore, or not.
Says     == {"nothing", "unproven", "bad", "good"}
NoList   == [here |-> FALSE, services |-> {}]
NoBuying == [of |-> "nothing", step |-> "none", on |-> FALSE, listOut |-> FALSE, heldBad |-> FALSE]

ReputationInit ==
  /\ rated \in [Endpoints -> Says] /\ directory = [list |-> NoList, ids |-> {}]
  /\ preference = [session |-> "unset", default |-> "unset", setting |-> "nothing"]
  /\ promised = {TRUE} /\ buying = [b \in Buyers |-> NoBuying]
  /\ changes = [ratings |-> 0, preferences |-> 0]

-----------------------------------------------------------------------------
(***************************************************************************)
(* The preference.                                                         *)
(***************************************************************************)
\* CrowdCodePreferences.status: of the session, else the default, else on.
IsOn(p) == IF p.session # "unset" THEN p.session = "on" ELSE p.default # "off"
Said(on) == IF on THEN "on" ELSE "off"

\* set: for the session with one file; by default with two, one after the other.
SetForSession(on) ==
  /\ preference.setting = "nothing" /\ changes.preferences < MaxPreferences
  /\ preference' = [preference EXCEPT !.session = Said(on)] /\ promised' = {on}
  /\ changes' = [changes EXCEPT !.preferences = @ + 1] /\ UNCHANGED <<rated, directory, buying>>
WritesDefault(on) == [preference EXCEPT !.default = Said(on), !.setting = Said(on)]
SetByDefault(on) ==
  /\ preference.setting = "nothing" /\ changes.preferences < MaxPreferences
  /\ preference' = WritesDefault(on) /\ promised' = promised \cup {on}
  /\ changes' = [changes EXCEPT !.preferences = @ + 1] /\ UNCHANGED <<rated, directory, buying>>
ClearSession ==
  /\ preference.setting # "nothing"
  /\ preference' = [session |-> "unset", default |-> preference.setting, setting |-> "nothing"]
  /\ promised' = {preference.setting = "on"}
  /\ UNCHANGED <<rated, directory, buying, changes>>

-----------------------------------------------------------------------------
(***************************************************************************)
(* A paid call, as far as its payment.                                     *)
(***************************************************************************)
ListedNow == {e \in Endpoints : rated[e] # "nothing"}
\* Directory.list: what is kept unless it is told to look again.
Read == [list |-> [here |-> TRUE, services |-> ListedNow], ids |-> directory.ids \cup ListedNow]
MovesTo(b, step) == buying' = [buying EXCEPT ![b].step = step]

\* serviceEvidence: nothing is asked when CrowdCode is off; and resolveServiceId, to the
\* detail of an identifier that is known, or to the list first.
Knows(e) == IF e \in directory.ids THEN "detail" ELSE "list"
BuyFrom(b, e) ==
  /\ buying[b] = NoBuying
  /\ buying' = [buying EXCEPT ![b] = [of |-> e, step |-> IF IsOn(preference) THEN Knows(e) ELSE "approval",
                                      on |-> IsOn(preference), listOut |-> FALSE,
                                      heldBad |-> IsOn(preference) /\ rated[e] = "bad"]]
  /\ UNCHANGED <<rated, directory, preference, promised, changes>>

Found(b, known) == IF buying[b].of \in known THEN "detail" ELSE "approval"
KeptList(b) == directory.list.here
\* list(true): the kept list is not looked at.
FreshList(b) == FALSE
ListAnswers(b) ==
  /\ buying[b].step = "list"
  /\ IF FreshList(b)
       THEN MovesTo(b, Found(b, directory.ids)) /\ UNCHANGED directory
       ELSE MovesTo(b, Found(b, Read.ids)) /\ directory' = Read
  /\ UNCHANGED <<rated, preference, promised, changes>>
\* A list that cannot be read is passed over: what was known is looked at again.
ListFails(b) ==
  /\ buying[b].step = "list"
  /\ buying' = [buying EXCEPT ![b].step = Found(b, directory.ids), ![b].listOut = TRUE]
  /\ UNCHANGED <<rated, directory, preference, promised, changes>>

\* getServiceScore, and the gate: a service that is not found is not yet reviewed; a
\* score below the floor refuses, and so does a detail that cannot be read.
DetailAnswers(b) ==
  /\ buying[b].step = "detail"
  /\ MovesTo(b, IF rated[buying[b].of] = "bad" THEN "refused" ELSE "approval")
  /\ UNCHANGED <<rated, directory, preference, promised, changes>>
DetailFails(b) ==
  /\ buying[b].step = "detail" /\ MovesTo(b, "refused")
  /\ UNCHANGED <<rated, directory, preference, promised, changes>>
\* resolveApproval: the user, a rule, or the budget.
ApprovalSays(b, step) ==
  /\ buying[b].step = "approval" /\ MovesTo(b, step)
  /\ UNCHANGED <<rated, directory, preference, promised, changes>>
EndBuying(b) ==
  /\ buying[b].step \in {"paid", "refused"} /\ buying' = [buying EXCEPT ![b] = NoBuying]
  /\ UNCHANGED <<rated, directory, preference, promised, changes>>

\* Any other reader of the list, a list that grows too old, reviews of others, a restart.
Browse ==
  /\ ~directory.list.here /\ directory' = Read
  /\ UNCHANGED <<rated, preference, promised, buying, changes>>
ListExpires ==
  /\ directory.list.here /\ directory' = [directory EXCEPT !.list = NoList]
  /\ UNCHANGED <<rated, preference, promised, buying, changes>>
Rate(e, says) ==
  /\ changes.ratings < MaxRatings /\ rated' = [rated EXCEPT ![e] = says]
  /\ changes' = [changes EXCEPT !.ratings = @ + 1]
  /\ buying' = [b \in Buyers |-> IF buying[b].of = e /\ buying[b].step \in {"list", "detail"}
                                   THEN [buying[b] EXCEPT !.heldBad = FALSE] ELSE buying[b]]
  /\ UNCHANGED <<directory, preference, promised>>
WakeUp ==
  /\ directory' = [list |-> NoList, ids |-> {}] /\ buying' = [b \in Buyers |-> NoBuying]
  /\ preference' = [preference EXCEPT !.setting = "nothing"]
  /\ UNCHANGED <<rated, promised, changes>>

ReputationNext ==
  \/ \E on \in BOOLEAN : SetForSession(on) \/ SetByDefault(on)
  \/ ClearSession \/ Browse \/ ListExpires \/ WakeUp
  \/ \E b \in Buyers :
       \/ \E e \in Endpoints : BuyFrom(b, e)
       \/ ListAnswers(b) \/ ListFails(b) \/ DetailAnswers(b) \/ DetailFails(b)
       \/ \E step \in {"paid", "refused"} : ApprovalSays(b, step)
       \/ EndBuying(b)
  \/ \E e \in Endpoints, says \in Says : Rate(e, says)

-----------------------------------------------------------------------------
\* A service that CrowdCode rated below the floor all the while it was looked up is not
\* paid with CrowdCode on, whatever an older list left out - but where the list of
\* services could not be read (gateway.ts:365-379, hosted-economy.ts:135-143).
BadIsRefused ==
  \A b \in Buyers : buying[b].step = "paid" /\ buying[b].heldBad => buying[b].listOut

\* While a preference is being set, and after a crash in the middle of it, CrowdCode is
\* what it was or what it was set to (crowdcode-preferences.ts:31-35).
NoThirdStatus == IsOn(preference) \in promised

\* "CrowdCode pre-check re-runs at call time; an outage or rejection blocks payment."
\* (gateway.ts:365)
OutageBlocks == \A b \in Buyers : buying[b].step = "paid" => ~buying[b].listOut
=============================================================================
