---------------------------- MODULE MCRobotsPolicy ----------------------------
(* Files and paths for checking RobotsPolicy with TLC. *)
EXTENDS RobotsPolicy

MCRobotsPath == <<"/", "r">>

Of(n, S) == UNION {[1..k -> S] : k \in 0..n}

Agent(a)   == [field |-> "user-agent", agent |-> a]
ARule(a, ts, z) == [field |-> "rule", valid |-> TRUE,
                    rule |-> [allowed |-> a, tokens |-> ts, anchored |-> z]]
Invalid    == [field |-> "rule", valid |-> FALSE,
               rule |-> [allowed |-> FALSE, tokens |-> <<"/">>, anchored |-> FALSE]]
Comment    == [field |-> "other"]

\* One rule with every pattern of up to four tokens after the slash.
PatternFile ==
  {<<Agent(ANY), ARule(FALSE, <<"/">> \o ts, z)>> : ts \in Of(4, {"a", "b", Star}), z \in BOOLEAN}

Short  == ARule(FALSE, <<"/", "a">>, FALSE)
Long   == ARule(FALSE, <<"/", "a", Star, "b">>, FALSE)
Grant  == ARule(TRUE, <<"/", Star, "b">>, FALSE)

\* Every order of agents, rules and lines that are ignored, and longer files that
\* come back to a group.
GroupFile ==
  Of(4, {Agent(OWN), Agent(ANY), Agent("other"), Agent("invalid"), Short, Long, Grant, Invalid, Comment})
  \cup Of(6, {Agent(OWN), Agent(ANY), Short, Grant})

MCFile == PatternFile \cup GroupFile

\* Pattern files meet every path of up to four octets, group files one path.
MCTarget == {<<"/">> \o t : t \in Of(4, {"a", "b"})} \cup {<<"/", "r", "?", "a">>}

MCInit == Init /\ (file \in GroupFile => target \in {<<"/", "a", "b">>, <<"/", "r", "?", "a">>})

MCSpec == MCInit /\ [][Next]_vars /\ WF_vars(Run)
===============================================================================
