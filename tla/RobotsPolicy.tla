----------------------------- MODULE RobotsPolicy -----------------------------
(***************************************************************************)
(* evaluate_robots (robots/policy.py): the lines of a robots.txt are read  *)
(* into groups one by one, the groups for this crawler are merged, and     *)
(* their rules are tried one after the other against the path.             *)
(*                                                                         *)
(* A line is what is left after comments, white space and case: a          *)
(* User-agent with its product token, a rule, or something else.  Size and *)
(* encoding of the file and the form of the path are checked by            *)
(* RobotsGate.                                                             *)
(***************************************************************************)
EXTENDS RobotsMatcher, SequencesExt

CONSTANTS
  File,        \* robots.txt files, as sequences of lines
  Target,      \* paths asked about, as sequences of octets
  RobotsPath   \* the path /robots.txt

OWN == "GrowthOSBot"
ANY == "*"

\* "invalid" is a token of the wrong form; other is a product of somebody else.
AgentLine == [field : {"user-agent"}, agent : {OWN, ANY, "other", "invalid"}]
\* valid is FALSE for a value that is empty, does not start with '/' or is not well formed.
RuleLine  == [field : {"rule"}, valid : BOOLEAN, rule : Rule]
NoLine    == [field : {"other"}]

FileLine  == AgentLine \cup RuleLine \cup NoLine

ASSUME PolicyAssumption ==
  /\ \A f \in File : f \in Seq(FileLine)
  /\ \A t \in Target : t \in Seq(Octet)

VARIABLES
  file,     \* the lines
  target,   \* the path
  pc,       \* parse, try, match or decided
  line,     \* lines read
  groups,   \* the groups so far: agents, and rules in order
  tried,    \* rules that were tried
  trying,   \* {} or {the rule that is tried}
  at,       \* the loop of _matches on it
  winner,   \* {} or {the best rule that matched}
  matched,  \* what _matches returned last, for the properties: {} or {[rule, result]}
  decision  \* {} or {[allowed, reason]}

vars == <<file, target, pc, line, groups, tried, trying, at, winner, matched, decision>>

Init ==
  /\ file \in File /\ target \in Target
  /\ pc = "parse" /\ line = 0
  /\ groups = << >> /\ tried = {} /\ trying = {} /\ at = LoopStart
  /\ winner = {} /\ matched = {} /\ decision = {}

Decide(a, r) == decision' = {[allowed |-> a, reason |-> r]} /\ pc' = "decided"

-------------------------------------------------------------------------------
(* _parse_groups *)

\* A User-agent line starts a group unless it follows another one of the same group.
StartsGroup(gs) == gs = << >> \/ Last(gs).rules # << >>

WithAgent(gs, a) ==
  IF StartsGroup(gs)
  THEN Append(gs, [agents |-> {a}, rules |-> << >>])
  ELSE [gs EXCEPT ![Len(gs)].agents = @ \cup {a}]

ParseLine(gs, l) ==
  CASE l.field = "user-agent" /\ l.agent # "invalid" -> WithAgent(gs, l.agent)
    [] l.field = "rule" /\ gs # << >> /\ l.valid ->
         [gs EXCEPT ![Len(gs)].rules = Append(@, l.rule)]
    [] OTHER -> gs

ReadLine ==
  /\ pc = "parse" /\ line < Len(file)
  /\ line' = line + 1
  /\ groups' = ParseLine(groups, file[line + 1])
  /\ UNCHANGED <<file, target, pc, tried, trying, at, winner, matched, decision>>

-------------------------------------------------------------------------------
(* evaluate_robots *)

BeforeQuery(path) ==
  IF Contains(path, "?") THEN SubSeq(path, 1, SelectInSeq(path, LAMBDA o : o = "?") - 1) ELSE path

For(gs, agent) == {g \in DOMAIN gs : agent \in gs[g].agents}

\* The groups that name this crawler, or else those that name any.
Selected(gs) == IF For(gs, OWN) # {} THEN For(gs, OWN) ELSE For(gs, ANY)

\* Where the selected groups hold a rule that has not been tried.
Untried ==
  UNION {{<<g, k>> : k \in {i \in DOMAIN groups[g].rules : groups[g].rules[i] \notin tried}}
           : g \in Selected(groups)}

Before(p, q) == p[1] < q[1] \/ (p[1] = q[1] /\ p[2] < q[2])

\* The file has been read; the path of robots.txt itself is allowed without it.
SelectRules ==
  /\ pc = "parse" /\ line = Len(file)
  /\ IF BeforeQuery(target) = RobotsPath
     THEN Decide(TRUE, "robots_uri")
     ELSE IF Selected(groups) = {}
     THEN Decide(TRUE, "no_matching_group")
     ELSE pc' = "try" /\ UNCHANGED decision
  /\ UNCHANGED <<file, target, line, groups, tried, trying, at, winner, matched>>

\* The rules of the groups in order, each once.
TryRule ==
  /\ pc = "try"
  /\ \E p \in Untried :
       /\ \A q \in Untried \ {p} : Before(p, q)
       /\ trying' = {groups[p[1]].rules[p[2]]}
  /\ at' = LoopStart
  /\ pc' = "match"
  /\ UNCHANGED <<file, target, line, groups, tried, winner, matched, decision>>

\* Mutant: of two rules that match, the later one wins unless it is less specific.
BetterLater(r, w) == specificity(r) >= specificity(w)

\* A rule replaces the winner if it is more specific, or an Allow as specific as a Disallow.
Better(r, w) ==
  \/ specificity(r) > specificity(w)
  \/ specificity(r) = specificity(w) /\ r.allowed /\ ~w.allowed

\* _matches returns b for the rule r.
Return(r, b) ==
  /\ matched' = {[rule |-> r, result |-> b]}
  /\ winner' = IF b /\ \A w \in winner : Better(r, w) THEN {r} ELSE winner
  /\ tried' = tried \cup {r}
  /\ trying' = {}
  /\ pc' = "try"

\* One iteration of the loop, or its end.
Match ==
  /\ pc = "match"
  /\ \E r \in trying :
       LET pat == Pattern(r) IN
       IF ~Unfinished(at, target) THEN Return(r, RestMatches(at, pat)) /\ UNCHANGED at
       ELSE IF Stuck(at, pat, target) THEN Return(r, FALSE) /\ UNCHANGED at
       ELSE at' = Iterate(at, pat, target) /\ UNCHANGED <<pc, tried, trying, winner, matched>>
  /\ UNCHANGED <<file, target, line, groups, decision>>

AllTried ==
  /\ pc = "try" /\ Untried = {}
  /\ IF winner = {} THEN Decide(TRUE, "no_matching_rule")
     ELSE \E w \in winner :
            Decide(w.allowed, IF w.allowed THEN "matched_allow" ELSE "matched_disallow")
  /\ UNCHANGED <<file, target, line, groups, tried, trying, at, winner, matched>>

Run == ReadLine \/ SelectRules \/ TryRule \/ Match \/ AllTried

Next == Run \/ (pc = "decided" /\ UNCHANGED vars)

Spec == Init /\ [][Next]_vars /\ WF_vars(Run)

-------------------------------------------------------------------------------
(* What a file f means for a path t, without groups, order and loops *)

IsAgent(f, i) == f[i].field = "user-agent" /\ f[i].agent # "invalid"
IsRule(f, i)  == f[i].field = "rule" /\ f[i].valid

\* User-agent line j governs rule line i: no later User-agent line begins a new group
\* between them.
Governs(f, j, i) ==
  /\ j < i /\ IsAgent(f, j) /\ IsRule(f, i)
  /\ ~\E r, u \in j..i : r < u /\ IsRule(f, r) /\ IsAgent(f, u)

Addressed(f, a) == \E j \in DOMAIN f : IsAgent(f, j) /\ f[j].agent = a

RulesFor(f, a) ==
  {f[i].rule : i \in {k \in DOMAIN f :
                        \E j \in DOMAIN f : Governs(f, j, k) /\ f[j].agent = a}}

\* The rules addressed to this crawler, or else to all.
Meant(f) == RulesFor(f, IF Addressed(f, OWN) THEN OWN ELSE ANY)

\* Allowed unless the longest of the rules that match are all Disallow.
Allowed(f, t) ==
  LET Applicable == {r \in Meant(f) : MatchesPath(r, t)} IN
  \/ BeforeQuery(t) = RobotsPath
  \/ Applicable = {}
  \/ \E r \in Applicable :
       r.allowed /\ \A q \in Applicable : specificity(q) <= specificity(r)

-------------------------------------------------------------------------------
(* Properties *)

\* The loop with one backtracking point finds a match exactly when there is one.
MatchesTrue ==
  \A m \in matched : m.result <=> MatchesPath(m.rule, target)

\* The decision is what the file means: wherever its groups stand, in whatever order
\* its rules come, and however often a group is repeated.
DecisionTrue ==
  \A d \in decision : d.allowed <=> Allowed(file, target)

\* Every file and path get a decision: backtracking comes to an end.
Decides == <>(pc = "decided")
===============================================================================
