------------------------------ MODULE Approvals ------------------------------
(***************************************************************************)
(* The owner's rules about services (economy/src/approvals.ts) and what a  *)
(* purchase makes of them (gateway.ts, resolveApproval and checkCaps).     *)
(*                                                                         *)
(* The rules are one file that every session of the owner reads, changes   *)
(* and writes back, with no lock and in place: a write truncates the file, *)
(* and a process that dies in it leaves a file nobody can parse.           *)
(***************************************************************************)
EXTENDS Integers, Sequences, FiniteSetsExt

CONSTANTS
  Desks,      \* sessions in which the owner decides
  Methods,    \* methods of the endpoint
  Beginnings, \* other services that the endpoint begins with, the longest first
  MaxStores   \* bound: decisions stored, at most

Prefixed == {Beginnings[i] : i \in DOMAIN Beginnings}
ASSUME ApprovalsAssumption == /\ MaxStores \in Nat
                              /\ Prefixed \cap {"none", "endpoint", "origin"} = {}

\* Services a rule may name, in the order in which one is looked for: the endpoint
\* itself, its origin, whatever it begins with.
Ranks    == <<{"endpoint"}, {"origin"}, Prefixed>>
Services == {"endpoint", "origin"} \cup Prefixed

VARIABLES
  file,    \* approvals.json: its rules, or torn
  desks,   \* what each session is storing
  latest,  \* the rule the owner decided on last, for each service
  clash,   \* two sessions stored at the same time, or one died storing
  stores   \* decisions begun
approvalVars == <<file, desks, latest, clash, stores>>

\* since: which decision of all put the rule in the file; a rule is added at the end,
\* so the rules of a file stand in this order.
Rule(service, decision, methods) ==
  [service |-> service, decision |-> decision, methods |-> methods, since |-> 0]
NoRule  == Rule("none", "none", {})
Allows  == {Rule(s, "allow", m) : s \in Services, m \in SUBSET Methods}
Blocks  == {Rule(s, "block", {}) : s \in Services}
Removes == {[NoRule EXCEPT !.service = s] : s \in Services}
Idle    == [at |-> "idle", rule |-> NoRule, rules |-> {}]

\* The mistake of putting the new rule behind the old one.
AppendsRule(rules, rule) == rules \cup {r \in {rule} : r.decision # "none"}
\* upsertApprovalRule, removeApprovalRule: the service's old rules go, the new
\* one comes last.
Upsert(rules, rule) ==
  {r \in rules : r.service # rule.service} \cup {r \in {rule} : r.decision # "none"}

\* matchApprovalRule: the first rule in the file of the first rank that has one.
First(rules) == CHOOSE r \in rules : \A q \in rules : r.since <= q.since
MatchRule(rules) ==
  LET of(i)   == {r \in rules : r.service \in Ranks[i]}
      decided == {i \in DOMAIN Ranks : of(i) # {}}
  IN  IF decided = {} THEN NoRule ELSE First(of(Min(decided)))

\* resolveApproval and checkCaps: what becomes of a call.  Money caps are left to
\* the thresholds of the query every call of today's sessions belongs to.
Resolve(rule, method) ==
  CASE rule.decision = "block" -> "refused"
    [] rule.decision = "allow" -> IF rule.methods # {} /\ method \notin rule.methods
                                  THEN "refused" ELSE "cleared"
    [] OTHER                   -> "asked"

-----------------------------------------------------------------------------
ApprovalsInit ==
  /\ file = [torn |-> FALSE, rules |-> {}] /\ desks = [d \in Desks |-> Idle]
  /\ latest = [s \in Services |-> NoRule]
  /\ clash = FALSE /\ stores = 0

Others(d) == \E e \in Desks \ {d} : desks[e].at # "idle"

\* The rules are read; a torn file is an error, and nothing is stored.
Load(d, decided) ==
  LET rule == [decided EXCEPT !.since = stores + 1]
  IN  /\ desks[d].at = "idle" /\ ~file.torn /\ stores < MaxStores
      /\ desks' = [desks EXCEPT ![d] =
                     [at |-> "loaded", rule |-> rule, rules |-> Upsert(file.rules, rule)]]
      /\ clash' = (clash \/ Others(d)) /\ stores' = stores + 1
      /\ UNCHANGED <<file, latest>>

Truncate(d) ==
  /\ desks[d].at = "loaded"
  /\ file' = [torn |-> TRUE, rules |-> {}]
  /\ desks' = [desks EXCEPT ![d].at = "writing"]
  /\ UNCHANGED <<latest, clash, stores>>

Store(d) ==
  /\ desks[d].at = "writing"
  /\ file' = [torn |-> FALSE, rules |-> desks[d].rules]
  /\ latest' = [latest EXCEPT ![desks[d].rule.service] =
                  IF desks[d].rule.decision = "none" THEN NoRule ELSE desks[d].rule]
  /\ desks' = [desks EXCEPT ![d] = Idle]
  /\ UNCHANGED <<clash, stores>>

\* A session ends in the middle.
Dies(d) ==
  /\ desks[d].at # "idle"
  /\ clash' = (clash \/ desks[d].at = "writing")
  /\ desks' = [desks EXCEPT ![d] = Idle]
  /\ UNCHANGED <<file, latest, stores>>

ApprovalsNext ==
  \/ \E d \in Desks, rule \in Allows \cup Blocks \cup Removes : Load(d, rule)
  \/ \E d \in Desks : Truncate(d) \/ Store(d) \/ Dies(d)

-----------------------------------------------------------------------------
\* The decisions that stand about some services: the last one about each.
Standing(services) == {latest[s] : s \in services} \ {NoRule}
Stands(rule) == \A method \in Methods :
                  Resolve(MatchRule(file.rules), method) = Resolve(rule, method)

\* What the owner decided last about a service is what its calls get: a decision
\* is replaced by the next one about the same service, the endpoint's goes before
\* its origin's, and that before those of services the endpoint begins with; of
\* these the one that was decided on first stands, whichever is longer.  Only two
\* sessions storing at once, or one that dies storing, come between; a torn file
\* lets no call through.
LatestDecisionStands ==
  ~clash /\ ~file.torn =>
    Stands(CASE latest["endpoint"] # NoRule -> latest["endpoint"]
             [] latest["endpoint"] = NoRule /\ latest["origin"] # NoRule -> latest["origin"]
             [] OTHER -> IF Standing(Prefixed) = {} THEN NoRule ELSE First(Standing(Prefixed)))

\* What the comment of matchApprovalRule says (approvals.ts:93): the longest match
\* decides.  Of two services that an endpoint begins with it is the earlier one.
LongestMatchDecides ==
  LET decided == {i \in DOMAIN Beginnings : latest[Beginnings[i]] # NoRule}
  IN  ~clash /\ ~file.torn /\ Standing({"endpoint", "origin"}) = {} /\ decided # {} =>
        Stands(latest[Beginnings[Min(decided)]])
=============================================================================
