------------------------------ MODULE RobotsGate ------------------------------
(***************************************************************************)
(* From a fetched robots.txt to a decision about a page: robots/binding.py *)
(* over gate.py over access.py, applied by a caller to what fetch_robots   *)
(* gave it.  These functions keep no state; what they are handed is the    *)
(* end of a behaviour of Fetch, together with URLs of the caller's choice. *)
(* What the file says of a path is one of Said; RobotsPolicy decides it.   *)
(***************************************************************************)
EXTENDS Fetch

CONSTANTS
  Target,         \* raw URLs of pages asked about
  MaxRobotsBytes  \* _MAX_ROBOTS_BYTES of policy.py, in the units of BodyLimit

ASSUME GateAssumption == Target \subseteq RawUrl /\ MaxRobotsBytes \in Nat

Said == {"allow", "disallow", "undecodable"}

Decided(a, r)  == [raised |-> NONE, allowed |-> a, reason |-> r]
Raised(e)      == [raised |-> e, allowed |-> FALSE, reason |-> NONE]

\* What fetch_robots returned, or {}.
FetchedRobots ==
  IF outcome \in Returned /\ fetcher = "robots"
  THEN {[requested_site_url |-> u,
         robots_url         |-> [u EXCEPT !.path = "/robots.txt"],
         final_url          |-> Here,
         status_code        |-> status,
         body               |-> IF outcome = FETCHED THEN {body} ELSE {},
         redirect_chain     |-> chain] : u \in site}
  ELSE {}

\* The code fetch_robots raised, or {}.
FetchErrorCode == IF outcome \in ErrorCode /\ fetcher = "robots" THEN {outcome} ELSE {}

-------------------------------------------------------------------------------
(* access.py, and the checks of evaluate_robots *)

ValidTarget(path) == path # "//page"

\* evaluate_robots on a body of n units.
evaluate_robots(n, path, said) ==
  IF n > MaxRobotsBytes THEN Decided(FALSE, "too_large")
  ELSE IF said = "undecodable" THEN Decided(FALSE, "invalid_encoding")
  ELSE Decided(path = "/robots.txt" \/ said = "allow", "policy")

\* st is the class of the status, or "none" when there was no response.
evaluate_robots_access(st, b, path, said) ==
  IF ~ValidTarget(path) THEN Raised("invalid_policy_input")
  ELSE IF st = "ok" THEN evaluate_robots(CHOOSE n \in b : TRUE, path, said)
  ELSE IF st \in {NONE, "unreachable"} THEN Decided(FALSE, "unreachable")
  ELSE IF st = "unavailable" THEN Decided(TRUE, "unavailable")
  ELSE Decided(FALSE, "indeterminate")

-------------------------------------------------------------------------------
(* gate.py *)

Unreachable == {"dns_failure", "timeout", "tls_failure", "network_failure"}

\* Mutant: a robots.txt is taken from the URL it was asked for only.
ValidFetchedUnredirected(f) ==
  /\ f.robots_url = f.redirect_chain[1] /\ f.final_url = f.robots_url
  /\ f.status_code \notin {NONE, "beyond"}
  /\ (f.status_code = "ok") <=> (f.body # {})

ValidFetched(f) ==
  /\ f.redirect_chain # << >>
  /\ f.robots_url = f.redirect_chain[1]
  /\ f.final_url = f.redirect_chain[Len(f.redirect_chain)]
  /\ f.status_code \notin {NONE, "beyond"}
  /\ (f.status_code = "ok") <=> (f.body # {})

\* fetched and error are sets of at most one element.
evaluate_robots_gate(fetched, error, path, said) ==
  IF (fetched = {}) = (error = {}) THEN Raised("invalid_gate_input")
  ELSE IF fetched # {} THEN
    LET f == CHOOSE g \in fetched : TRUE IN
    IF ValidFetched(f) THEN evaluate_robots_access(f.status_code, f.body, path, said)
    ELSE Raised("invalid_gate_input")
  ELSE
    LET a == evaluate_robots_access(NONE, {}, path, said) IN
    IF a.raised # NONE THEN a
    ELSE Decided(FALSE, IF error \subseteq Unreachable THEN "fetch_unreachable"
                        ELSE "fetch_rejected")

-------------------------------------------------------------------------------
(* binding.py *)

Origin(u) == <<u.scheme, u.host>>

\* Mutant: the robots.txt of any site is taken for the site's own.
ProvenAlways(fetched, s) == TRUE

\* The robots.txt was fetched for this very site.
Proven(fetched, s) == \A f \in fetched : f.requested_site_url = s

evaluate_bound_robots(site_url, target_url, fetched, error, said) ==
  LET s == normalize_url(site_url, {}, "invalid_url")
      t == normalize_url(target_url, {}, "invalid_url")
  IN
  IF (fetched = {}) = (error = {}) THEN Raised("invalid_input")
  ELSE IF ~s.ok THEN Raised(s.code)
  ELSE IF ~t.ok THEN Raised(t.code)
  ELSE IF Origin(s.url) # Origin(t.url) THEN Raised("cross_origin")
  ELSE IF ~Proven(fetched, s.url) THEN Raised("provenance_mismatch")
  ELSE evaluate_robots_gate(fetched, error, t.url.path, said)

-------------------------------------------------------------------------------
(* Properties *)

\* Every use a caller can make of a finished fetch of robots.txt.
ForAnyUse(P(_, _, _, _)) ==
  pc = "done" =>
    \A s \in Start, t \in Target, v \in Said :
      P(s, t, v, evaluate_bound_robots(s, t, FetchedRobots, FetchErrorCode, v))

\* A page is allowed only on evidence from its own origin: the first request of the
\* fetch went to that origin's robots.txt, and either the server said there is none or
\* the whole file was read and allows the page.
FailClosed ==
  ForAnyUse(LAMBDA s, t, v, d :
    d.allowed =>
      LET page == normalize_url(t, {}, "invalid_url").url IN
      /\ Origin(asked[1]) = Origin(page) /\ asked[1].path = "/robots.txt"
      /\ \/ outcome = STATUS_ONLY /\ status = "unavailable"
         \/ outcome = FETCHED /\ body = sent /\ (v = "allow" \/ page.path = "/robots.txt"))

\* However the fetch ended, short of being cancelled or of a status above 599, it is
\* decided upon for the site it was made for; its body is never too large to decide.
EveryFetchDecided ==
  ForAnyUse(LAMBDA s, t, v, d :
    LET s1 == normalize_url(s, {}, "invalid_url")
        t1 == normalize_url(t, {}, "invalid_url")
    IN  fetcher = "robots" /\ outcome # CANCELLED /\ status # "beyond"
        /\ s1.ok /\ site = {s1.url} /\ t1.ok /\ Origin(s1.url) = Origin(t1.url)
        /\ ValidTarget(t1.url.path)
        => d.raised = NONE /\ d.reason # "too_large")
===============================================================================
