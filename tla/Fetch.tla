-------------------------------- MODULE Fetch --------------------------------
(***************************************************************************)
(* One call of fetch_html or fetch_robots (acquisition/html.py, robots.py  *)
(* over _transport.py): resolve, request, follow redirects, read the body, *)
(* close, under a deadline of 30 seconds and a caller that may cancel.     *)
(*                                                                         *)
(* The task suspends at pc in Await; the server, the resolver, the timer   *)
(* and the caller act there.  Between two suspensions the code runs in one *)
(* step, split only where the model names its stages.                      *)
(***************************************************************************)
EXTENDS Transport, Sequences

CONSTANTS
  Fetcher,       \* which of the two functions may be called
  Start,         \* raw URLs a caller passes
  Location,      \* values of a Location header
  MaxRedirects,  \* _MAX_REDIRECTS
  BodyLimit,     \* _BODY_LIMIT of each fetcher, in units of data
  MaxChunk       \* _CHUNK_SIZE in the same units

ASSUME FetchAssumption ==
  /\ Fetcher \subseteq {"html", "robots"}
  /\ Start \subseteq RawUrl /\ Location \subseteq RawUrl
  /\ MaxRedirects \in Nat
  /\ BodyLimit \in [{"html", "robots"} -> Nat]
  /\ MaxChunk \in Nat \ {0}

VARIABLES
  fetcher,    \* the function called
  pc,         \* where the task is
  site,       \* {} or {the caller's URL, normalised}
  current,    \* {} or {the URL of this hop, or of the next once redirected}
  chain,      \* redirect_chain
  redirects,  \* redirect_count
  addresses,  \* the addresses this hop may connect to
  open,       \* what is open: connector, session, response
  status,     \* class of the status of the last response
  body,       \* length of the body read so far
  pending,    \* how the try statement is being left, or "none" for another hop
  outcome,    \* what the caller got, or "none"
  expired,    \* the deadline has fired
  cancelled   \* the caller has cancelled the task

\* What happened outside the code, for the properties only.
VARIABLES
  asked,    \* the URLs requests were started for, in order
  answers,  \* what the host of this hop stands for: its DNS answers, or itself
  peers,    \* the addresses connected to in this hop
  sent      \* length of the body the server has sent

call   == <<fetcher, site>>
route  == <<current, chain, redirects>>
reply  == <<status, body>>
code   == <<call, route, addresses, open, reply, pending, outcome>>
clock  == <<expired, cancelled>>
world  == <<asked, answers, peers, sent>>
vars   == <<code, pc, clock, world>>

FETCHED     == "fetched"       \* FetchedHtml, or FetchedRobots with a body
STATUS_ONLY == "status only"   \* FetchedRobots of a status other than 200
INTERRUPTED == "interrupted"   \* CancelledError is on its way out
CANCELLED   == "cancelled"     \* CancelledError reached the caller

IoError   == {"timeout", "tls_failure", "network_failure"}
ErrorCode == IoError \cup {"invalid_url", "disallowed_port", "dns_failure", "disallowed_address",
               "too_many_redirects", "invalid_redirect", "http_status",
               "unsupported_content_type", "body_too_large", "unsupported_charset"}
Returned  == {FETCHED, STATUS_ONLY}
Outcome   == ErrorCode \cup Returned \cup {CANCELLED}
\* Other than 200 and the redirects followed: 101, 300, 304..., 4xx, 5xx and 600 to 999.
OtherStatus == {"indeterminate", "unavailable", "unreachable", "beyond"}
Status      == {NONE, "ok", "redirect"} \cup OtherStatus
Await     == {"dns", "get", "body", "closing"}
Place     == Await \cup {"start", "hop", "request", "reply", "exit", "done"}

Here == CHOOSE u \in current : TRUE

Init ==
  /\ fetcher \in Fetcher
  /\ pc = "start"
  /\ site = {} /\ current = {} /\ chain = << >> /\ redirects = 0
  /\ addresses = {} /\ open = {} /\ status = NONE /\ body = 0
  /\ pending = NONE /\ outcome = NONE
  /\ expired = FALSE /\ cancelled = FALSE
  /\ asked = << >> /\ answers = {} /\ peers = {} /\ sent = 0

-------------------------------------------------------------------------------
(* The steps of the code *)

\* The URL of the first request.
First(u) == IF fetcher = "robots" THEN [u EXCEPT !.path = "/robots.txt"] ELSE u

\* The entry of fetch_html and fetch_robots; the deadline starts with it.
Enter(raw) ==
  LET n == normalize_url(raw, {}, "invalid_url") IN
  /\ pc = "start"
  /\ IF n.ok
     THEN /\ site' = {n.url}
          /\ current' = {First(n.url)}
          /\ pc' = "hop"
          /\ UNCHANGED pending
     ELSE /\ pending' = n.code
          /\ pc' = "exit"
          /\ UNCHANGED <<site, current>>
  /\ UNCHANGED <<fetcher, chain, redirects, addresses, open, reply, outcome, clock, world>>

\* Mutant: the addresses of the first hop are kept for the hops that follow.
PinOnce(found) ==
  IF found.ok
  THEN /\ addresses' = IF addresses = {} THEN found.addresses ELSE addresses
       /\ pc' = "request" /\ UNCHANGED pending
  ELSE pending' = found.code /\ pc' = "exit" /\ UNCHANGED addresses

\* What resolve found: the hop goes on with every address, or the fetch ends.
Pin(found) ==
  IF found.ok
  THEN addresses' = found.addresses /\ pc' = "request" /\ UNCHANGED pending
  ELSE pending' = found.code /\ pc' = "exit" /\ UNCHANGED addresses

\* The top of the loop; a literal address is admitted without a DNS query.
BeginHop ==
  /\ pc = "hop"
  /\ chain' = Append(chain, Here)
  /\ IF Here.host \in Address
     THEN /\ answers' = {Here.host}
          /\ Pin(AdmitAnswers({Here.host}))
     ELSE /\ answers' = {}
          /\ pc' = "dns"
          /\ UNCHANGED <<addresses, pending>>
  /\ UNCHANGED <<call, current, redirects, open, reply, outcome, clock, asked, peers, sent>>

\* getaddrinfo answers, or fails, which is as if it answered nothing.
DnsAnswers(s) ==
  /\ pc = "dns"
  /\ answers' = s
  /\ Pin(AdmitAnswers(s))
  /\ UNCHANGED <<call, route, open, reply, outcome, clock, asked, peers, sent>>

\* request_hop up to session.get: a connector of its own, and a session that owns it.
StartRequest ==
  /\ pc = "request"
  /\ open' = {"connector", "session"}
  /\ asked' = Append(asked, Here)
  /\ pc' = "get"
  /\ UNCHANGED <<call, route, addresses, reply, pending, outcome, clock, answers, peers, sent>>

\* Leaving the try statement: response.close, and session.close up to where it may wait.
Leave(p) ==
  /\ pending' = p
  /\ open' = {}
  /\ pc' = "closing"

\* ClientSession raises; the connector is closed and the error goes on.
SessionFails ==
  /\ pc = "request"
  /\ Leave("network_failure")
  /\ UNCHANGED <<call, route, addresses, reply, outcome, clock, world>>

\* A response arrives from one of the pinned addresses; others may have been tried.
GetAnswers ==
  /\ pc = "get"
  /\ peers' \in (SUBSET addresses) \ {{}}
  /\ open' = open \cup {"response"}
  /\ pc' = "reply"
  /\ UNCHANGED <<call, route, addresses, reply, pending, outcome, clock, asked, answers, sent>>

\* The connection, the TLS handshake or the response fails or takes too long.
IoFails(e) ==
  /\ pc \in {"get", "body"}
  /\ peers' \in {s \in SUBSET addresses : peers \subseteq s}
  /\ Leave(e)
  /\ UNCHANGED <<call, route, addresses, reply, outcome, clock, asked, answers, sent>>

\* The URL a redirect leads to; loc is {the one Location header}, or {} when it is
\* absent, repeated or blank.
Followed(loc) ==
  IF redirects >= MaxRedirects THEN NormalError("too_many_redirects")
  ELSE IF loc = {} THEN NormalError("invalid_redirect")
  ELSE normalize_url(CHOOSE raw \in loc : TRUE, current, "invalid_redirect")

\* A status of 301, 302, 303, 307 or 308.
ReplyRedirect(loc) ==
  LET n == Followed(loc) IN
  /\ pc = "reply"
  /\ status' = "redirect"
  /\ IF n.ok
     THEN /\ current' = {n.url}
          /\ redirects' = redirects + 1
          /\ Leave(NONE)
     ELSE /\ Leave(n.code)
          /\ UNCHANGED <<current, redirects>>
  /\ UNCHANGED <<call, chain, addresses, body, outcome, clock, world>>

\* Any other status but 200.
ReplyOther(s) ==
  /\ pc = "reply"
  /\ status' = s
  /\ Leave(IF fetcher = "robots" THEN STATUS_ONLY ELSE "http_status")
  /\ UNCHANGED <<call, route, addresses, body, outcome, clock, world>>

\* 200; h is "ok" or what is wrong with the Content-Type header.
ReplyOk(h) ==
  /\ pc = "reply"
  /\ status' = "ok"
  /\ IF h = "ok"
     THEN pc' = "body" /\ body' = 0 /\ sent' = 0 /\ UNCHANGED <<open, pending>>
     ELSE Leave(h) /\ UNCHANGED <<body, sent>>
  /\ UNCHANGED <<call, route, addresses, outcome, clock, asked, answers, peers>>

\* Mutant: a body of exactly the limit is refused.
FitsStrictly(n) == n < BodyLimit[fetcher]

Fits(n) == n <= BodyLimit[fetcher]

Chunk(n) ==
  /\ pc = "body"
  /\ sent' = sent + n
  /\ IF Fits(body + n)
     THEN body' = body + n /\ UNCHANGED <<pc, open, pending>>
     ELSE Leave("body_too_large") /\ UNCHANGED body
  /\ UNCHANGED <<call, route, addresses, status, outcome, clock, asked, answers, peers>>

\* The end of the body; decoding fails for codecs that do not decode text.
BodyEnds(p) ==
  /\ pc = "body"
  /\ p = FETCHED \/ (fetcher = "html" /\ p = "unsupported_charset")
  /\ Leave(p)
  /\ UNCHANGED <<call, route, addresses, reply, outcome, clock, world>>

\* session.close returns: the next hop, or out of the function.
Closed ==
  /\ pc = "closing"
  /\ pc' = IF pending = NONE THEN "hop" ELSE "exit"
  /\ peers' = {}
  /\ UNCHANGED <<code, clock, asked, answers, sent>>

\* Mutant: once the deadline has fired the caller is told of a timeout.
VerdictExpired(p) ==
  IF p # INTERRUPTED THEN p ELSE IF expired THEN "timeout" ELSE CANCELLED

\* asyncio.timeout turns the interruption into TimeoutError unless the caller
\* cancelled too.
Verdict(p) ==
  IF p # INTERRUPTED THEN p ELSE IF cancelled THEN CANCELLED ELSE "timeout"

Exit ==
  /\ pc = "exit"
  /\ outcome' = Verdict(pending)
  /\ pc' = "done"
  /\ UNCHANGED <<call, route, addresses, open, reply, pending, clock, world>>

-------------------------------------------------------------------------------
(* The deadline and the caller *)

\* Mutant: request_hop closes the session for an Exception only, which CancelledError is not.
InterruptLeaking ==
  /\ pc \in Await
  /\ pending' = INTERRUPTED
  /\ IF pc = "body" THEN open' = {} /\ pc' = "closing" ELSE UNCHANGED open /\ pc' = "exit"
  /\ UNCHANGED <<call, route, addresses, reply, outcome, world>>

\* Mutant: the time limit covers the wait for the response only.
InterruptGetOnly ==
  /\ pc = "get"
  /\ pending' = INTERRUPTED
  /\ open' = {} /\ pc' = "closing"
  /\ UNCHANGED <<call, route, addresses, reply, outcome, world>>

\* CancelledError is raised where the task waits.  A hop that has a session closes
\* it first; a close already under way is abandoned.
Interrupt ==
  /\ pc \in Await
  /\ pending' = INTERRUPTED
  /\ IF pc \in {"get", "body"}
     THEN open' = {} /\ pc' = "closing"
     ELSE UNCHANGED open /\ pc' = "exit"
  /\ UNCHANGED <<call, route, addresses, reply, outcome, world>>

Deadline == ~expired /\ expired' = TRUE /\ Interrupt /\ UNCHANGED cancelled

Cancel == ~cancelled /\ cancelled' = TRUE /\ Interrupt /\ UNCHANGED expired

-------------------------------------------------------------------------------
(* Specification *)

Run ==
  \/ \E raw \in Start : Enter(raw)
  \/ BeginHop
  \/ StartRequest
  \/ Exit

Server ==
  \/ \E s \in SUBSET (Address \cup {MALFORMED}) : DnsAnswers(s)
  \/ GetAnswers
  \/ \E e \in IoError : IoFails(e)
  \/ \E loc \in {{}} \cup {{raw} : raw \in Location} : ReplyRedirect(loc)
  \/ \E s \in OtherStatus : ReplyOther(s)
  \/ \E h \in {"ok", "unsupported_content_type", "unsupported_charset"} : ReplyOk(h)
  \/ \E n \in 1..MaxChunk : Chunk(n)
  \/ \E p \in {FETCHED, "unsupported_charset"} : BodyEnds(p)

Done == pc = "done" /\ UNCHANGED vars

Next == Run \/ SessionFails \/ Server \/ Closed \/ Deadline \/ Cancel \/ Done

Spec == Init /\ [][Next]_vars

\* The task runs on, an answer that has arrived is handled, session.close returns
\* and the timer fires; a server or a resolver may keep silent for ever.
FairSpec == Spec /\ WF_vars(Run) /\ WF_vars(pc = "reply" /\ Server) /\ WF_vars(Closed)
                 /\ WF_vars(Deadline)

-------------------------------------------------------------------------------
(* Properties *)

TypeOK ==
  /\ fetcher \in Fetcher /\ pc \in Place
  /\ site \in SUBSET Url /\ current \in SUBSET Url
  /\ chain \in Seq(Url) /\ redirects \in 0..MaxRedirects
  /\ addresses \in SUBSET Address
  /\ open \in SUBSET {"connector", "session", "response"}
  /\ status \in Status /\ body \in Nat
  /\ pending \in {NONE, INTERRUPTED} \cup ErrorCode \cup Returned
  /\ outcome \in {NONE} \cup Outcome
  /\ expired \in BOOLEAN /\ cancelled \in BOOLEAN
  /\ asked \in Seq(Url)
  /\ answers \in SUBSET (Address \cup {MALFORMED})
  /\ peers \in SUBSET Address
  /\ sent \in Nat

\* A page or robots.txt that is returned tells the truth about itself: the chain is
\* the URLs that were really requested, from the one the caller meant to the final
\* one, and the body is everything the server sent, within the limit.  A refusal for size
\* or for redirects is given for a larger body and one redirect too many, not for the
\* last that is allowed.
AnswerTrue ==
  /\ outcome \in Returned =>
    /\ chain = asked
    /\ \E u \in site :
         asked[1] = IF fetcher = "robots" THEN [u EXCEPT !.path = "/robots.txt"] ELSE u
    /\ current = {asked[Len(asked)]}
    /\ Len(asked) = redirects + 1
    /\ outcome = FETCHED => body = sent /\ sent <= BodyLimit[fetcher]
  /\ outcome = "body_too_large" => sent > BodyLimit[fetcher]
  /\ outcome = "too_many_redirects" => Len(asked) = MaxRedirects + 1

\* A hop connects only to what its own host stands for, and only when all of that is
\* public unicast: not to an address of an earlier hop, nor to the good half of a
\* mixed answer.
PeersAdmitted ==
  peers # {} =>
    /\ peers \subseteq answers
    /\ \A a \in answers : /\ a # MALFORMED
                          /\ AddressIs[a].is = {"global"} /\ ~AddressIs[a].scoped
                          /\ AddressIs[a].mapped \in {NONE, "global"}

\* A cancelled call ends in CancelledError and nothing else does; a deadline that
\* has fired is told as a timeout, whatever the fetch was about to answer.
InterruptionTold ==
  pc = "done" =>
    /\ outcome = CANCELLED <=> cancelled
    /\ expired /\ ~cancelled => outcome = "timeout"

\* What the caller may rely on: bounded requests, one at a time, and one outcome,
\* which comes when nothing is open.
Caller == INSTANCE FetchPromise
            WITH MaxRequests <- MaxRedirects + 1, Outcome <- Outcome,
                 requests <- Len(asked), holds <- open # {}, result <- outcome

KeepsPromise == Caller!Promise

\* Every fetch ends, however long servers and resolvers keep silent.
Ends == Caller!Answered
===============================================================================
