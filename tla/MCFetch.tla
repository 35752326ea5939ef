------------------------------- MODULE MCFetch -------------------------------
(* Names, addresses and URLs for checking Fetch and RobotsGate with TLC. *)
EXTENDS RobotsGate

MCAddress == {"public", "other public", "loopback", "multicast", "mapped"}

MCFacts(flags, m) == [parses |-> TRUE, scoped |-> FALSE, is |-> flags, mapped |-> m]

\* 224.0.1.1 is global and multicast; ::ffff:10.0.0.1 counts as global in older Pythons.
MCAddressIs ==
  [a \in MCAddress |->
     CASE a = "loopback"  -> MCFacts({"loopback", "private"}, NONE)
       [] a = "multicast" -> MCFacts({"global", "multicast"}, NONE)
       [] a = "mapped"    -> MCFacts({"global"}, "other")
       [] OTHER           -> MCFacts({"global"}, NONE)]

MCRaw(s, h, p) == [scheme |-> s, host |-> h, user |-> FALSE, port |-> NONE, path |-> p]

MCStart ==
  {MCRaw("https", "name", "/page"),
   MCRaw("http", "loopback", "/"),
   MCRaw("ftp", "name", "/"),
   MCRaw(NONE, NONE, "/page"),
   [MCRaw("http", "public", "/") EXCEPT !.port = "80"],
   [MCRaw("https", "name", "/") EXCEPT !.port = "80"],
   [MCRaw("https", "name", "/") EXCEPT !.port = MALFORMED],
   [MCRaw("https", "name", "/") EXCEPT !.user = TRUE]}

\* A relative redirect, one to another host, one to a bad URL.
MCLocation ==
  {MCRaw(NONE, NONE, "/"),
   [MCRaw("https", "other name", "/page") EXCEPT !.port = "443"],
   MCRaw("http", BAD_HOST, "/"),
   MCRaw("http", "multicast", "/")}

\* Pages of the site, of another origin, and one whose path robots/policy.py refuses.
MCTarget ==
  {MCRaw("https", "name", "/page"),
   MCRaw("https", "name", "/robots.txt"),
   MCRaw("https", "name", "//page"),
   MCRaw("http", "name", "/page"),
   MCRaw("https", "other name", "/page")}

MCBodyLimit == [html |-> 3, robots |-> 2]
===============================================================================
