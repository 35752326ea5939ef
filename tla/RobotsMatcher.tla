---------------------------- MODULE RobotsMatcher ----------------------------
(***************************************************************************)
(* Matching a path against a rule of robots.txt (robots/policy.py): the    *)
(* loop of _matches with its single backtracking point, one iteration a    *)
(* step, and what it should compute.  Octets of a path or a pattern are    *)
(* tokens after _normalize.                                                *)
(***************************************************************************)
EXTENDS Naturals, Sequences, FiniteSets

CONSTANTS
  Octet,  \* octets of paths
  Star    \* the token of '*', which is no octet

ASSUME MatcherAssumption == Star \notin Octet

Rule == [allowed : BOOLEAN, tokens : Seq(Octet \cup {Star}), anchored : BOOLEAN]

\* The pattern _matches walks over: unless anchored by '$' it may end anywhere.
Pattern(rule) == IF rule.anchored THEN rule.tokens ELSE Append(rule.tokens, Star)

specificity(rule) == Cardinality({i \in DOMAIN rule.tokens : rule.tokens[i] # Star})

-------------------------------------------------------------------------------
(* The loop.  at.p and at.t are the next positions of pattern and path, at.star and *)
(* at.from the last star met and the position its tail was tried from.              *)

Cursor == [p : Nat, t : Nat, star : Nat, from : Nat]

CursorAt(p, t, star, from) == [p |-> p, t |-> t, star |-> star, from |-> from]

LoopStart == CursorAt(1, 1, 0, 0)

AtToken(at, pat, x)  == at.p <= Len(pat) /\ pat[at.p] = x
Unfinished(at, path) == at.t <= Len(path)

\* Mutant: the tail of the star is tried from the same octet for ever.
Backtrack1(at) == CursorAt(at.star + 1, at.from + 1, at.star, at.from)

\* The star takes one octet more.
Backtrack(at) == CursorAt(at.star + 1, at.from + 1, at.star, at.from + 1)

\* One iteration; stuck when no star is left to widen.
Stuck(at, pat, path) ==
  ~AtToken(at, pat, path[at.t]) /\ ~AtToken(at, pat, Star) /\ at.star = 0

Iterate(at, pat, path) ==
  IF AtToken(at, pat, path[at.t]) THEN CursorAt(at.p + 1, at.t + 1, at.star, at.from)
  ELSE IF AtToken(at, pat, Star)  THEN CursorAt(at.p + 1, at.t, at.p, at.t)
  ELSE Backtrack(at)

\* Mutant: what is left of the pattern is not looked at.
RestMatchesAlways(at, pat) == TRUE

\* After the loop: only stars may be left of the pattern.
RestMatches(at, pat) == \A i \in at.p..Len(pat) : pat[i] = Star

-------------------------------------------------------------------------------
(* What a match is: the pattern can be cut to the path, each star to any run of octets. *)
(* A cut says where the octets that each star takes end; the literals follow at once.    *)

Stops(pat) == {0} \cup {i \in DOMAIN pat : pat[i] = Star}

\* Between stop s and token i of the pattern there are only literals.
Follows(pat, s, i) == s < i /\ \A k \in (s + 1)..(i - 1) : pat[k] # Star

\* The first n tokens lie on the path where the ends of the stars put them.
Laid(ends, pat, path, n) ==
  /\ ends[0] = 0
  /\ \A i \in 1..n : \A s \in Stops(pat) :
       Follows(pat, s, i) =>
         IF pat[i] = Star
         THEN ends[s] + (i - 1 - s) <= ends[i]
         ELSE ends[s] + (i - s) <= Len(path) /\ path[ends[s] + (i - s)] = pat[i]

\* The literals after the last star end where the path ends.
Complete(ends, pat, path) ==
  \A s \in Stops(pat) :
    Follows(pat, s, Len(pat) + 1) => ends[s] + (Len(pat) - s) = Len(path)

MatchesPath(rule, path) ==
  LET pat == Pattern(rule)
  IN  \E ends \in [Stops(pat) -> 0..Len(path)] :
        Laid(ends, pat, path, Len(pat)) /\ Complete(ends, pat, path)
===============================================================================
