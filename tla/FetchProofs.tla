----------------------------- MODULE FetchProofs -----------------------------
(***************************************************************************)
(* Proofs about Fetch for every set of names, addresses, URLs and limits:  *)
(* what is returned is true, and the fetch keeps its promise to the        *)
(* caller; and about RobotsGate, for whatever such a fetch hands to it.    *)
(***************************************************************************)
EXTENDS RobotsGate, TLAPS

Connected == {"get", "reply", "body"}
Underway  == Connected \cup {"hop", "dns", "request"}

\* A hop is under way, or the next one is about to begin.
Hopping == pc \in Underway \/ (pc = "closing" /\ pending = NONE)

\* What holds wherever the task stands.
Stage ==
  /\ pc = "start" => current = {} /\ chain = << >> /\ asked = << >> /\ redirects = 0
  /\ Hopping => Here \in Url /\ current = {Here}
  /\ pc \in Underway \cup {"start"} => pending = NONE
  /\ pc \in {"exit", "done"} => pending # NONE
  /\ outcome = IF pc = "done" THEN Verdict(pending) ELSE NONE
  /\ open # {} <=> pc \in Connected

\* The requests made and the URLs noted for them.
Route ==
  /\ Len(asked) <= MaxRedirects + 1
  /\ pc = "hop" \/ (pc = "closing" /\ pending = NONE) => chain = asked /\ Len(asked) = redirects
  /\ pc \in {"dns", "request"} => chain = Append(asked, Here) /\ Len(asked) = redirects
  /\ pc \in Connected =>
       chain = asked /\ Len(asked) = redirects + 1 /\ asked[Len(asked)] = Here
  /\ pending \in Returned =>
       chain = asked /\ Len(asked) = redirects + 1 /\ current = {asked[Len(asked)]}
  /\ pending = "too_many_redirects" => Len(asked) = MaxRedirects + 1

FirstAsked ==
  /\ Len(asked) > 0 => \E u \in site : asked[1] = First(u)
  /\ Hopping /\ Len(asked) = 0 => \E u \in site : Here = First(u)

\* The body read is the body sent while it fits.
Amount ==
  /\ pc = "body" \/ pending = FETCHED => body = sent /\ sent <= BodyLimit[fetcher]
  /\ pending = "body_too_large" => sent > BodyLimit[fetcher]

\* Where the addresses come from.
Contact ==
  /\ pc \in {"start", "hop", "dns", "request"} => peers = {}
  /\ pc \in Connected \cup {"request"} =>
       addresses = answers /\ \A a \in answers : a \in Address /\ admit_ip(a)
  /\ peers # {} => peers \subseteq answers /\ \A a \in answers : a \in Address /\ admit_ip(a)

Told ==
  /\ pending = INTERRUPTED <=> expired \/ cancelled

Inv == TypeOK /\ Stage /\ Route /\ FirstAsked /\ Amount /\ Contact /\ Told

-------------------------------------------------------------------------------
(* Operators *)

\* A URL that normalize_url accepts is a URL of the instance.
LEMMA NormalizeType ==
  ASSUME NEW raw \in RawUrl, NEW base \in SUBSET Url, NEW c \in ErrorCode
  PROVE  LET n == normalize_url(raw, base, c) IN
         /\ n.ok \in BOOLEAN
         /\ n.ok => n.url \in Url
         /\ ~n.ok => n.code \in {c, "disallowed_port"}
<1> DEFINE j == Joined(raw, base)
<1>1. j.scheme \in Scheme \cup {"ftp", NONE} /\ j.path \in Path
  <2>1. CASE base = {} \/ raw.scheme # NONE
    BY <2>1 DEF Joined, RawUrl
  <2>2. CASE base # {} /\ raw.scheme = NONE
    <3>1. PICK b : b = CHOOSE u \in base : TRUE
      OBVIOUS
    <3>2. b \in Url
      BY <2>2, <3>1
    <3> QED
      BY <2>2, <3>1, <3>2 DEF Joined, RawUrl, Url
  <2> QED
    BY <2>1, <2>2
<1> HIDE DEF j
<1>2. normalize_url(raw, base, c) =
        IF raw.port = MALFORMED THEN NormalError("disallowed_port")
        ELSE IF j.scheme \notin Scheme \/ j.host \notin Host \/ j.user THEN NormalError(c)
        ELSE IF j.port \notin {NONE, DefaultPort(j.scheme)} THEN NormalError("disallowed_port")
        ELSE Normalized([scheme |-> j.scheme, host |-> j.host, path |-> j.path])
  BY DEF normalize_url, j
<1> QED
  BY <1>1, <1>2 DEF NormalError, Normalized, Url, ErrorCode, IoError

\* Answers that are resolved are the addresses of public unicast hosts, all of them.
LEMMA AdmitSound ==
  ASSUME NEW s \in SUBSET (Address \cup {MALFORMED})
  PROVE  LET r == AdmitAnswers(s) IN
         /\ r.ok \in BOOLEAN
         /\ r.ok => r.addresses = s /\ \A a \in s : a \in Address /\ admit_ip(a)
         /\ ~r.ok => r.code \in {"dns_failure", "disallowed_address"}
BY DEF AdmitAnswers, Resolved, ResolveError

\* A redirect that is followed leads to such a URL, within the limit.
LEMMA FollowedType ==
  ASSUME TypeOK, NEW loc \in {{}} \cup {{raw} : raw \in Location}
  PROVE  LET n == Followed(loc) IN
         /\ n.ok \in BOOLEAN
         /\ n.ok => n.url \in Url /\ redirects < MaxRedirects
         /\ ~n.ok => n.code \in ErrorCode \ {"body_too_large"}
         /\ ~n.ok /\ n.code = "too_many_redirects" => redirects = MaxRedirects
<1>1. CASE redirects >= MaxRedirects
  BY <1>1, FetchAssumption DEF Followed, NormalError, ErrorCode, IoError, TypeOK
<1>2. CASE redirects < MaxRedirects /\ loc = {}
  BY <1>2, FetchAssumption DEF Followed, NormalError, ErrorCode, IoError, TypeOK
<1>3. CASE redirects < MaxRedirects /\ loc # {}
  <2>1. PICK raw \in Location : loc = {raw}
    BY <1>3
  <2>2. (CHOOSE r \in loc : TRUE) = raw
    BY <2>1
  <2>3. Followed(loc) = normalize_url(raw, current, "invalid_redirect")
    BY <1>3, <2>2, FetchAssumption DEF Followed, TypeOK
  <2>4. raw \in RawUrl /\ current \in SUBSET Url /\ "invalid_redirect" \in ErrorCode
    BY FetchAssumption DEF TypeOK, ErrorCode
  <2> QED
    BY <1>3, <2>3, <2>4, NormalizeType DEF ErrorCode, IoError
<1> QED
  BY <1>1, <1>2, <1>3, FetchAssumption DEF TypeOK

-------------------------------------------------------------------------------
(* The invariant *)

\* The invariant holds at the call.
LEMMA InitInv == Init => Inv
<1> SUFFICES ASSUME Init PROVE Inv
  OBVIOUS
<1>1. TypeOK
  <2>1. << >> \in Seq(Url)
    OBVIOUS
  <2>2. fetcher \in Fetcher /\ redirects \in 0..MaxRedirects
    BY FetchAssumption DEF Init
  <2> QED
    BY <2>1, <2>2 DEF Init, TypeOK, Place, Await, Status
<1>2. Stage /\ Route /\ FirstAsked /\ Amount /\ Contact /\ Told
  BY FetchAssumption DEF Init, Stage, Route, FirstAsked, Amount, Contact, Told, Hopping, Underway,
     Connected, NONE, INTERRUPTED, Returned, FETCHED, STATUS_ONLY
<1> QED
  BY <1>1, <1>2 DEF Inv

\* Every action keeps the types.
LEMMA NextType == Inv /\ [Next]_vars => TypeOK'
<1> SUFFICES ASSUME Inv, [Next]_vars PROVE TypeOK'
  OBVIOUS
<1>0. TypeOK /\ Stage
  BY DEF Inv
<1>1. ASSUME NEW raw \in Start, Enter(raw) PROVE TypeOK'
  <2>1. raw \in RawUrl /\ {} \in SUBSET Url /\ "invalid_url" \in ErrorCode
    BY FetchAssumption DEF ErrorCode
  <2> DEFINE n == normalize_url(raw, {}, "invalid_url")
  <2>2. n.ok \in BOOLEAN /\ (n.ok => n.url \in Url) /\ (~n.ok => n.code \in ErrorCode)
    BY <2>1, NormalizeType DEF ErrorCode
  <2>3. n.ok => First(n.url) \in Url
    BY <2>2 DEF First, Url, Path
  <2> HIDE DEF n
  <2>4. /\ pc = "start"
        /\ IF n.ok
           THEN site' = {n.url} /\ current' = {First(n.url)} /\ pc' = "hop" /\ pending' = pending
           ELSE pending' = n.code /\ pc' = "exit" /\ site' = site /\ current' = current
        /\ UNCHANGED <<fetcher, chain, redirects, addresses, open, reply, outcome, clock, world>>
    BY <1>1 DEF Enter, n
  <2> QED
    BY <1>0, <2>2, <2>3, <2>4 DEF TypeOK, Place, reply, clock, world
<1>2. ASSUME BeginHop PROVE TypeOK'
  <2>1. Here \in Url
    BY <1>0, <1>2 DEF BeginHop, Stage, Hopping, Underway
  <2>2. chain' \in Seq(Url)
    BY <1>0, <1>2, <2>1 DEF BeginHop, TypeOK
  <2>3. CASE Here.host \in Address
    BY <1>0, <1>2, <2>1, <2>2, <2>3, AdmitSound
       DEF BeginHop, TypeOK, Pin, Place, Await, ErrorCode, call, reply, clock
  <2>4. CASE Here.host \notin Address
    BY <1>0, <1>2, <2>2, <2>4 DEF BeginHop, TypeOK, Place, Await, call, reply, clock
  <2> QED
    BY <2>3, <2>4
<1>3. ASSUME NEW s \in SUBSET (Address \cup {MALFORMED}), DnsAnswers(s) PROVE TypeOK'
  <2>1. \/ pc' = "request" /\ pending' = pending /\ addresses' = s /\ s \subseteq Address
        \/ pc' = "exit" /\ addresses' = addresses /\ pending' \in ErrorCode
    BY <1>3, AdmitSound DEF DnsAnswers, Pin, ErrorCode
  <2> QED
    BY <1>0, <1>3, <2>1 DEF DnsAnswers, TypeOK, Place, call, route, reply, clock
<1>4. ASSUME StartRequest PROVE TypeOK'
  <2>1. Here \in Url
    BY <1>0, <1>4 DEF StartRequest, Stage, Hopping, Underway
  <2> QED
    BY <1>0, <1>4, <2>1 DEF StartRequest, TypeOK, Place, Await, call, route, reply, clock
<1>5. ASSUME SessionFails PROVE TypeOK'
  BY <1>0, <1>5 DEF SessionFails, Leave, TypeOK, Place, Await, ErrorCode, IoError,
     call, route, reply, clock, world
<1>6. ASSUME GetAnswers PROVE TypeOK'
  BY <1>0, <1>6 DEF GetAnswers, TypeOK, Place, call, route, reply, clock
<1>7. ASSUME NEW e \in IoError, IoFails(e) PROVE TypeOK'
  BY <1>0, <1>7 DEF IoFails, Leave, TypeOK, Place, Await, ErrorCode, call, route, reply, clock
<1>8. ASSUME NEW loc \in {{}} \cup {{raw} : raw \in Location}, ReplyRedirect(loc) PROVE TypeOK'
  <2> DEFINE n == Followed(loc)
  <2>1. n.ok \in BOOLEAN /\ (n.ok => n.url \in Url /\ redirects < MaxRedirects)
        /\ (~n.ok => n.code \in ErrorCode)
    BY <1>0, FollowedType
  <2> HIDE DEF n
  <2>2. /\ status' = "redirect" /\ open' = {} /\ pc' = "closing"
        /\ IF n.ok THEN current' = {n.url} /\ redirects' = redirects + 1 /\ pending' = NONE
           ELSE pending' = n.code /\ current' = current /\ redirects' = redirects
        /\ UNCHANGED <<call, chain, addresses, body, outcome, clock, world>>
    BY <1>8 DEF ReplyRedirect, Leave, n
  <2> QED
    BY <1>0, <2>1, <2>2, FetchAssumption DEF TypeOK, Place, Await, Status, call, clock, world
<1>9. ASSUME NEW s \in OtherStatus, ReplyOther(s) PROVE TypeOK'
  <2>1. status' \in Status /\ pending' \in ErrorCode \cup Returned
    BY <1>9 DEF ReplyOther, Leave, Status, ErrorCode, Returned
  <2> QED
    BY <1>0, <1>9, <2>1 DEF ReplyOther, Leave, TypeOK, Place, Await, call, route, clock, world
<1>10. ASSUME NEW h \in {"ok", "unsupported_content_type", "unsupported_charset"}, ReplyOk(h)
       PROVE  TypeOK'
  <2>1. CASE h = "ok"
    <3>1. /\ pc' = "body" /\ body' = 0 /\ sent' = 0 /\ status' = "ok"
          /\ UNCHANGED <<open, pending, call, route, addresses, outcome, clock, asked, answers, peers>>
      BY <1>10, <2>1 DEF ReplyOk
    <3> QED
      BY <1>0, <3>1 DEF TypeOK, Place, Await, Status, call, route, clock
  <2>2. CASE h # "ok"
    BY <1>0, <1>10, <2>2 DEF ReplyOk, Leave, TypeOK, Place, Await, Status, ErrorCode,
       call, route, clock
  <2> QED
    BY <2>1, <2>2
<1>11. ASSUME NEW n \in 1..MaxChunk, Chunk(n) PROVE TypeOK'
  <2>1. /\ pc' \in Place /\ open' \in SUBSET {"connector", "session", "response"}
        /\ pending' \in {NONE, INTERRUPTED} \cup ErrorCode \cup Returned
        /\ body' \in Nat /\ sent' \in Nat
    <3>1. n \in Nat /\ body \in Nat /\ sent \in Nat
      BY <1>0, FetchAssumption DEF TypeOK
    <3>2. CASE Fits(body + n)
      <4>1. pc' = pc /\ open' = open /\ pending' = pending /\ body' = body + n /\ sent' = sent + n
        BY <1>11, <3>2 DEF Chunk
      <4> QED
        BY <1>0, <3>1, <4>1 DEF TypeOK
    <3>3. CASE ~Fits(body + n)
      BY <1>11, <3>1, <3>3 DEF Chunk, Leave, Place, Await, ErrorCode
    <3> QED
      BY <3>2, <3>3
  <2> QED
    BY <1>0, <1>11, <2>1 DEF Chunk, TypeOK, call, route, clock
<1>12. ASSUME NEW p \in {FETCHED, "unsupported_charset"}, BodyEnds(p) PROVE TypeOK'
  BY <1>0, <1>12 DEF BodyEnds, Leave, TypeOK, Place, Await, ErrorCode, Returned,
     call, route, reply, clock, world
<1>13. ASSUME Closed PROVE TypeOK'
  BY <1>0, <1>13 DEF Closed, TypeOK, Place, code, call, route, reply, clock
<1>14. ASSUME Exit PROVE TypeOK'
  BY <1>0, <1>14 DEF Exit, Verdict, TypeOK, Stage, Place, Outcome, ErrorCode, IoError,
     call, route, reply, clock, world
<1>15. ASSUME Deadline \/ Cancel PROVE TypeOK'
  BY <1>0, <1>15 DEF Deadline, Cancel, Interrupt, TypeOK, Place, Await, call, route, reply, world
<1>16. CASE UNCHANGED vars
  BY <1>0, <1>16 DEF vars, code, call, route, reply, clock, world, TypeOK
<1> QED
  BY <1>1, <1>2, <1>3, <1>4, <1>5, <1>6, <1>7, <1>8, <1>9, <1>10, <1>11, <1>12, <1>13, <1>14,
     <1>15, <1>16 DEF Next, Run, Server, Done

\* The facts about one URL at a time that the route rests on.
LEMMA HereIs == ASSUME NEW u, current = {u} PROVE Here = u
BY DEF Here

\* Every step keeps what each await may rely on.
LEMMA NextStage == Inv /\ [Next]_vars => Stage'
<1> SUFFICES ASSUME Inv, [Next]_vars PROVE Stage'
  OBVIOUS
<1>0. TypeOK /\ Stage
  BY DEF Inv
<1> USE DEF Stage, Hopping, Underway, Connected
<1>1. ASSUME NEW raw \in Start, Enter(raw) PROVE Stage'
  <2> DEFINE n == normalize_url(raw, {}, "invalid_url")
  <2>1. n.ok \in BOOLEAN /\ (n.ok => n.url \in Url)
        /\ (~n.ok => n.code \in {"invalid_url", "disallowed_port"})
    BY NormalizeType, FetchAssumption DEF ErrorCode
  <2>2. n.ok => First(n.url) \in Url
    BY <2>1 DEF First, Url, Path
  <2> HIDE DEF n
  <2>3. /\ pc = "start"
        /\ IF n.ok
           THEN site' = {n.url} /\ current' = {First(n.url)} /\ pc' = "hop" /\ pending' = pending
           ELSE pending' = n.code /\ pc' = "exit" /\ site' = site /\ current' = current
        /\ UNCHANGED <<fetcher, chain, redirects, addresses, open, reply, outcome, clock, world>>
    BY <1>1 DEF Enter, n
  <2>4. CASE n.ok
    <3>1. Here' = First(n.url)
      BY <2>3, <2>4 DEF Here
    <3> QED
      BY <1>0, <2>2, <2>3, <2>4, <3>1
  <2>5. CASE ~n.ok
    BY <1>0, <2>1, <2>3, <2>5 DEF NONE
  <2> QED
    BY <2>1, <2>4, <2>5
<1>2. ASSUME BeginHop PROVE Stage'
  <2>1. current' = current /\ open' = open /\ outcome' = outcome
        /\ \/ pc' \in {"dns", "request"} /\ pending' = pending
           \/ pc' = "exit" /\ pending' \in {"dns_failure", "disallowed_address"}
    <3>1. CASE Here.host \in Address
      BY <1>2, <3>1, AdmitSound DEF BeginHop, Pin
    <3>2. CASE Here.host \notin Address
      BY <1>2, <3>2 DEF BeginHop
    <3> QED
      BY <3>1, <3>2
  <2>2. pc = "hop" /\ Here' = Here
    BY <1>2, <2>1 DEF BeginHop, Here
  <2> QED
    BY <1>0, <2>1, <2>2 DEF NONE
<1>3. ASSUME NEW s \in SUBSET (Address \cup {MALFORMED}), DnsAnswers(s) PROVE Stage'
  <2>1. \/ pc' = "request" /\ pending' = pending
        \/ pc' = "exit" /\ pending' \in {"dns_failure", "disallowed_address"}
    BY <1>3, AdmitSound DEF DnsAnswers, Pin
  <2>2. pc = "dns" /\ current' = current /\ open' = open /\ outcome' = outcome
    BY <1>3 DEF DnsAnswers, route
  <2>3. Here' = Here
    BY <2>2 DEF Here
  <2> QED
    BY <1>0, <2>1, <2>2, <2>3 DEF NONE
<1>4. ASSUME StartRequest PROVE Stage'
  BY <1>0, <1>4 DEF StartRequest, route, Here
<1>5. ASSUME SessionFails PROVE Stage'
  BY <1>0, <1>5 DEF SessionFails, Leave, route, Here, NONE
<1>6. ASSUME GetAnswers PROVE Stage'
  BY <1>0, <1>6 DEF GetAnswers, route, Here
<1>7. ASSUME NEW e \in IoError, IoFails(e) PROVE Stage'
  BY <1>0, <1>7 DEF IoFails, Leave, IoError, route, Here, NONE
<1>8. ASSUME NEW loc \in {{}} \cup {{raw} : raw \in Location}, ReplyRedirect(loc) PROVE Stage'
  <2> DEFINE n == Followed(loc)
  <2>1. n.ok \in BOOLEAN /\ (n.ok => n.url \in Url) /\ (~n.ok => n.code # NONE)
    BY <1>0, FollowedType DEF ErrorCode, IoError, NONE
  <2> HIDE DEF n
  <2>2. /\ pc = "reply" /\ open' = {} /\ pc' = "closing" /\ outcome' = outcome
        /\ IF n.ok THEN current' = {n.url} /\ pending' = NONE
           ELSE pending' = n.code /\ current' = current
    BY <1>8 DEF ReplyRedirect, Leave, n
  <2>3. n.ok => Here' = n.url
    BY <2>2 DEF Here
  <2> QED
    BY <1>0, <2>1, <2>2, <2>3
<1>9. ASSUME NEW s \in OtherStatus, ReplyOther(s) PROVE Stage'
  BY <1>0, <1>9 DEF ReplyOther, Leave, route, Here, NONE, STATUS_ONLY
<1>10. ASSUME NEW h \in {"ok", "unsupported_content_type", "unsupported_charset"}, ReplyOk(h)
       PROVE  Stage'
  <2>1. CASE h = "ok"
    BY <1>0, <1>10, <2>1 DEF ReplyOk, route, Here
  <2>2. CASE h # "ok"
    BY <1>0, <1>10, <2>2 DEF ReplyOk, Leave, route, Here, NONE
  <2> QED
    BY <2>1, <2>2
<1>11. ASSUME NEW n \in 1..MaxChunk, Chunk(n) PROVE Stage'
  <2>1. pc = "body" /\ current' = current /\ outcome' = outcome
        /\ \/ pc' = pc /\ open' = open /\ pending' = pending
           \/ pc' = "closing" /\ open' = {} /\ pending' = "body_too_large"
    BY <1>11 DEF Chunk, Leave, route
  <2> QED
    BY <1>0, <2>1 DEF Here, NONE
<1>12. ASSUME NEW p \in {FETCHED, "unsupported_charset"}, BodyEnds(p) PROVE Stage'
  BY <1>0, <1>12 DEF BodyEnds, Leave, route, Here, NONE, FETCHED
<1>13. ASSUME Closed PROVE Stage'
  BY <1>0, <1>13 DEF Closed, code, route, Here
<1>14. ASSUME Exit PROVE Stage'
  BY <1>0, <1>14 DEF Exit, Verdict, route, clock
<1>15. ASSUME Deadline \/ Cancel PROVE Stage'
  <2>1. pc \in Await /\ pending' = INTERRUPTED /\ outcome' = outcome
        /\ IF pc \in {"get", "body"} THEN open' = {} /\ pc' = "closing"
           ELSE open' = open /\ pc' = "exit"
    BY <1>15 DEF Deadline, Cancel, Interrupt
  <2> QED
    BY <1>0, <2>1 DEF Await, NONE, INTERRUPTED
<1>16. CASE UNCHANGED vars
  <2>1. pc' = pc /\ current' = current /\ chain' = chain /\ redirects' = redirects /\ open' = open
        /\ pending' = pending /\ outcome' = outcome /\ cancelled' = cancelled /\ asked' = asked
    BY <1>16 DEF vars, code, route, clock, world
  <2>2. Here' = Here /\ Verdict(pending)' = Verdict(pending)
    BY <2>1 DEF Here, Verdict
  <2> QED
    BY <1>0, <2>1, <2>2
<1> QED
  BY <1>1, <1>2, <1>3, <1>4, <1>5, <1>6, <1>7, <1>8, <1>9, <1>10, <1>11, <1>12, <1>13, <1>14,
     <1>15, <1>16 DEF Next, Run, Server, Done

\* Every action keeps the account of the requests made.
LEMMA NextRoute == Inv /\ [Next]_vars => Route' /\ FirstAsked'
<1> SUFFICES ASSUME Inv, [Next]_vars PROVE Route' /\ FirstAsked'
  OBVIOUS
<1>0. TypeOK /\ Stage /\ Route /\ FirstAsked
  BY DEF Inv
<1>t. chain \in Seq(Url) /\ asked \in Seq(Url) /\ redirects \in Nat /\ redirects <= MaxRedirects
      /\ MaxRedirects \in Nat
  BY <1>0, FetchAssumption DEF TypeOK
<1> USE DEF Route, FirstAsked, Hopping, Underway, Connected
<1>1. ASSUME NEW raw \in Start, Enter(raw) PROVE Route' /\ FirstAsked'
  <2> DEFINE n == normalize_url(raw, {}, "invalid_url")
  <2>1. n.ok \in BOOLEAN /\ (~n.ok => n.code \in {"invalid_url", "disallowed_port"})
    BY NormalizeType, FetchAssumption DEF ErrorCode
  <2> HIDE DEF n
  <2>2. /\ pc = "start"
        /\ IF n.ok
           THEN site' = {n.url} /\ current' = {First(n.url)} /\ pc' = "hop" /\ pending' = pending
           ELSE pending' = n.code /\ pc' = "exit" /\ site' = site /\ current' = current
        /\ UNCHANGED <<fetcher, chain, redirects, asked>>
    BY <1>1 DEF Enter, n, world
  <2>3. chain = << >> /\ asked = << >> /\ redirects = 0 /\ pending = NONE
    BY <1>0, <2>2 DEF Stage
  <2>4. CASE n.ok
    <3>1. Here' = First(n.url)' /\ n.url \in site'
      BY <2>2, <2>4 DEF Here, First
    <3> QED
      BY <1>t, <2>2, <2>3, <2>4, <3>1 DEF NONE, Returned, FETCHED, STATUS_ONLY
  <2>5. CASE ~n.ok
    <3>1. Len(asked') = 0 /\ pc' = "exit" /\ pending' \in {"invalid_url", "disallowed_port"}
      BY <2>1, <2>2, <2>3, <2>5
    <3>2. Route'
      <4>1. Len(asked') <= MaxRedirects + 1
        BY <1>t, <3>1
      <4> QED
        BY <3>1, <4>1 DEF NONE, Returned, FETCHED, STATUS_ONLY
    <3>3. FirstAsked'
      BY <3>1
    <3> QED
      BY <3>2, <3>3
  <2> QED
    BY <2>1, <2>4, <2>5
<1>2. ASSUME BeginHop PROVE Route' /\ FirstAsked'
  <2>1. /\ pc = "hop" /\ chain' = Append(chain, Here)
        /\ UNCHANGED <<fetcher, site, current, redirects, asked>>
        /\ \/ pc' \in {"dns", "request"} /\ pending' = pending
           \/ pc' = "exit" /\ pending' \in {"dns_failure", "disallowed_address"}
    <3>1. CASE Here.host \in Address
      BY <1>2, <3>1, AdmitSound DEF BeginHop, Pin, call
    <3>2. CASE Here.host \notin Address
      BY <1>2, <3>2 DEF BeginHop, call
    <3> QED
      BY <3>1, <3>2
  <2>2. Here' = Here /\ pending = NONE /\ \A u : First(u)' = First(u)
    BY <1>0, <2>1 DEF Here, Stage, First
  <2> QED
    BY <1>0, <1>t, <2>1, <2>2 DEF NONE, Returned, FETCHED, STATUS_ONLY
<1>3. ASSUME NEW s \in SUBSET (Address \cup {MALFORMED}), DnsAnswers(s) PROVE Route' /\ FirstAsked'
  <2>1. /\ pc = "dns" /\ UNCHANGED <<fetcher, site, current, chain, redirects, asked>>
        /\ \/ pc' = "request" /\ pending' = pending
           \/ pc' = "exit" /\ pending' \in {"dns_failure", "disallowed_address"}
    BY <1>3, AdmitSound DEF DnsAnswers, Pin, call, route
  <2>2. Here' = Here /\ pending = NONE /\ \A u : First(u)' = First(u)
    BY <1>0, <2>1 DEF Here, Stage, First
  <2> QED
    BY <1>0, <1>t, <2>1, <2>2 DEF NONE, Returned, FETCHED, STATUS_ONLY
<1>4. ASSUME StartRequest PROVE Route' /\ FirstAsked'
  <2>1. /\ pc = "request" /\ pc' = "get" /\ asked' = Append(asked, Here)
        /\ UNCHANGED <<fetcher, site, current, chain, redirects, pending>>
    BY <1>4 DEF StartRequest, call, route
  <2>2. Here' = Here /\ pending = NONE /\ Here \in Url /\ \A u : First(u)' = First(u)
    BY <1>0, <2>1 DEF Here, Stage, First
  <2>3. Len(asked') = Len(asked) + 1 /\ asked'[Len(asked')] = Here
        /\ (Len(asked) > 0 => asked'[1] = asked[1]) /\ (Len(asked) = 0 => asked'[1] = Here)
    BY <1>t, <2>1, <2>2
  <2>4. chain = Append(asked, Here) /\ Len(asked) = redirects
    BY <1>0, <2>1
  <2>5. Route'
    BY <1>t, <2>1, <2>2, <2>3, <2>4 DEF NONE, Returned, FETCHED, STATUS_ONLY
  <2>6. FirstAsked'
    <3>1. PICK u \in site : asked'[1] = First(u)
      BY <1>0, <1>t, <2>1, <2>3
    <3> QED
      BY <1>t, <2>1, <2>2, <2>3, <2>4, <3>1
  <2> QED
    BY <2>5, <2>6
<1>5. ASSUME NEW raw \in {{}} \cup {{r} : r \in Location}, ReplyRedirect(raw)
      PROVE  Route' /\ FirstAsked'
  <2> DEFINE n == Followed(raw)
  <2>1. n.ok \in BOOLEAN /\ (~n.ok => n.code \in ErrorCode)
        /\ (~n.ok /\ n.code = "too_many_redirects" => redirects = MaxRedirects)
    BY <1>0, FollowedType
  <2> HIDE DEF n
  <2>2. /\ pc = "reply" /\ pc' = "closing"
        /\ IF n.ok THEN redirects' = redirects + 1 /\ pending' = NONE
           ELSE pending' = n.code /\ redirects' = redirects
        /\ UNCHANGED <<fetcher, site, chain, asked>>
    BY <1>5 DEF ReplyRedirect, Leave, n, call, world
  <2>3. \A u : First(u)' = First(u)
    BY <2>2 DEF First
  <2>4. pending' \notin Returned
    BY <2>1, <2>2 DEF NONE, Returned, FETCHED, STATUS_ONLY, ErrorCode, IoError
  <2>5. chain = asked /\ Len(asked) = redirects + 1
    BY <1>0, <2>2
  <2>6. Route'
    <3>1. CASE n.ok
      BY <1>t, <2>2, <2>4, <2>5, <3>1 DEF NONE
    <3>2. CASE ~n.ok
      <4>1. pc' = "closing" /\ pending' = n.code /\ redirects' = redirects /\ asked' = asked
            /\ n.code # NONE
        BY <2>1, <2>2, <3>2 DEF NONE, ErrorCode, IoError
      <4>2. Len(asked) <= MaxRedirects + 1
        BY <1>t, <2>5
      <4>3. n.code = "too_many_redirects" => Len(asked) = MaxRedirects + 1
        BY <2>1, <2>5, <3>2
      <4> QED
        BY <2>4, <4>1, <4>2, <4>3 DEF NONE, Returned, FETCHED, STATUS_ONLY
    <3> QED
      BY <2>1, <3>1, <3>2
  <2>7. FirstAsked'
    <3>1. PICK u \in site : asked[1] = First(u)
      BY <1>0, <1>t, <2>5
    <3> QED
      BY <1>t, <2>2, <2>3, <2>5, <3>1
  <2> QED
    BY <2>6, <2>7
\* What the other steps have in common: the route is left as it is.
<1>6. ASSUME UNCHANGED <<fetcher, site, current, chain, redirects, asked>>,
             \/ pc' = pc /\ pending' = pending
             \/ pc' \in {"exit", "done"} /\ pending' = pending /\ pending # NONE
             \/ pc' \in Connected /\ pc \in Connected /\ pending' = pending
             \/ pc = "closing" /\ pc' = "hop" /\ pending' = pending /\ pending = NONE
             \/ pc' # "hop" /\ pc' \notin Underway /\ pending' # NONE
                /\ pending' \notin Returned \cup {"too_many_redirects"}
             \/ pc \in Connected /\ pc' = "closing" /\ pending' \in Returned
      PROVE  Route' /\ FirstAsked'
  <2>1. Here' = Here /\ \A u : First(u)' = First(u)
    BY <1>6 DEF Here, First
  <2>2. pc \in Connected => current = {Here}
    BY <1>0 DEF Stage
  <2>3. Route'
    BY <1>0, <1>t, <1>6, <2>1, <2>2 DEF NONE, Returned, FETCHED, STATUS_ONLY
  <2>4. FirstAsked'
    BY <1>0, <1>6, <2>1
  <2> QED
    BY <2>3, <2>4
<1>7. ASSUME SessionFails PROVE Route' /\ FirstAsked'
  BY <1>6, <1>7 DEF SessionFails, Leave, call, route, world, NONE, Returned, FETCHED, STATUS_ONLY
<1>8. ASSUME GetAnswers PROVE Route' /\ FirstAsked'
  BY <1>6, <1>8 DEF GetAnswers, call, route
<1>9. ASSUME NEW e \in IoError, IoFails(e) PROVE Route' /\ FirstAsked'
  BY <1>6, <1>9 DEF IoFails, Leave, IoError, call, route, NONE, Returned, FETCHED, STATUS_ONLY
<1>10. ASSUME NEW s \in OtherStatus, ReplyOther(s) PROVE Route' /\ FirstAsked'
  <2>1. /\ pc = "reply" /\ pc' = "closing" /\ pending' \in {STATUS_ONLY, "http_status"}
        /\ UNCHANGED <<fetcher, site, current, chain, redirects, asked>>
    BY <1>10 DEF ReplyOther, Leave, call, route, world
  <2> QED
    BY <1>6, <2>1 DEF NONE, Returned, FETCHED, STATUS_ONLY
<1>11. ASSUME NEW h \in {"ok", "unsupported_content_type", "unsupported_charset"}, ReplyOk(h)
       PROVE  Route' /\ FirstAsked'
  <2>1. CASE h = "ok"
    BY <1>6, <1>11, <2>1 DEF ReplyOk, call, route
  <2>2. CASE h # "ok"
    BY <1>6, <1>11, <2>2 DEF ReplyOk, Leave, call, route, NONE, Returned, FETCHED, STATUS_ONLY
  <2> QED
    BY <2>1, <2>2
<1>12. ASSUME NEW n \in 1..MaxChunk, Chunk(n) PROVE Route' /\ FirstAsked'
  <2>1. /\ UNCHANGED <<fetcher, site, current, chain, redirects, asked>>
        /\ \/ pc' = pc /\ pending' = pending
           \/ pc' = "closing" /\ pending' = "body_too_large"
    BY <1>12 DEF Chunk, Leave, call, route
  <2> QED
    BY <1>6, <2>1 DEF NONE, Returned, FETCHED, STATUS_ONLY
<1>13. ASSUME NEW p \in {FETCHED, "unsupported_charset"}, BodyEnds(p) PROVE Route' /\ FirstAsked'
  <2>1. /\ pc = "body" /\ pc' = "closing" /\ pending' \in {FETCHED, "unsupported_charset"}
        /\ UNCHANGED <<fetcher, site, current, chain, redirects, asked>>
    BY <1>13 DEF BodyEnds, Leave, call, route, world
  <2> QED
    BY <1>6, <2>1 DEF NONE, Returned, FETCHED, STATUS_ONLY
<1>14. ASSUME Closed PROVE Route' /\ FirstAsked'
  <2>1. /\ pc = "closing" /\ pending' = pending
        /\ pc' = IF pending = NONE THEN "hop" ELSE "exit"
        /\ UNCHANGED <<fetcher, site, current, chain, redirects, asked>>
    BY <1>14 DEF Closed, code, call, route
  <2> QED
    BY <1>6, <2>1
<1>15. ASSUME Exit PROVE Route' /\ FirstAsked'
  <2>1. pc = "exit" /\ pc' = "done" /\ pending' = pending
        /\ UNCHANGED <<fetcher, site, current, chain, redirects, asked>>
    BY <1>15 DEF Exit, call, route, world
  <2> QED
    BY <1>0, <1>6, <2>1 DEF Stage
<1>16. ASSUME Deadline \/ Cancel PROVE Route' /\ FirstAsked'
  <2>1. pc' \in {"closing", "exit"} /\ pending' = INTERRUPTED
        /\ UNCHANGED <<fetcher, site, current, chain, redirects, asked>>
    BY <1>16 DEF Deadline, Cancel, Interrupt, call, route, world
  <2> QED
    BY <1>6, <2>1 DEF NONE, INTERRUPTED, Returned, FETCHED, STATUS_ONLY
<1>17. CASE UNCHANGED vars
  BY <1>6, <1>17 DEF vars, code, call, route, world
<1> QED
  BY <1>1, <1>2, <1>3, <1>4, <1>5, <1>7, <1>8, <1>9, <1>10, <1>11, <1>12, <1>13, <1>14, <1>15,
     <1>16, <1>17 DEF Next, Run, Server, Done

\* Every action keeps the account of the body, of the addresses and of interruptions.
LEMMA NextRest == Inv /\ [Next]_vars => Amount' /\ Contact' /\ Told'
<1> SUFFICES ASSUME Inv, [Next]_vars PROVE Amount' /\ Contact' /\ Told'
  OBVIOUS
<1>0. TypeOK /\ Stage /\ Amount /\ Contact /\ Told
  BY DEF Inv
<1> USE DEF Amount, Contact, Told, Connected, NONE, INTERRUPTED, FETCHED
<1>1. ASSUME NEW raw \in Start, Enter(raw) PROVE Amount' /\ Contact' /\ Told'
  <2> DEFINE n == normalize_url(raw, {}, "invalid_url")
  <2>1. n.ok \in BOOLEAN /\ (~n.ok => n.code \in {"invalid_url", "disallowed_port"})
    BY NormalizeType, FetchAssumption DEF ErrorCode
  <2> HIDE DEF n
  <2>2. /\ pc = "start" /\ pending = NONE
        /\ \/ pc' = "hop" /\ pending' = pending
           \/ pc' = "exit" /\ pending' \in {"invalid_url", "disallowed_port"}
        /\ UNCHANGED <<fetcher, body, addresses, expired, cancelled, answers, peers, sent>>
    BY <1>0, <1>1, <2>1 DEF Enter, n, Stage, Underway, reply, clock, world
  <2> QED
    BY <1>0, <2>2
<1>2. ASSUME BeginHop PROVE Amount' /\ Contact' /\ Told'
  <2>1. /\ pc = "hop" /\ pending = NONE
        /\ UNCHANGED <<fetcher, body, expired, cancelled, peers, sent>>
    BY <1>0, <1>2 DEF BeginHop, Stage, Underway, call, reply, clock
  <2>2. \/ pc' = "dns" /\ pending' = pending
        \/ pc' = "exit" /\ pending' \in {"dns_failure", "disallowed_address"}
        \/ pc' = "request" /\ pending' = pending /\ addresses' = answers'
           /\ \A a \in answers' : a \in Address /\ admit_ip(a)
    <3>1. CASE Here.host \in Address
      BY <1>2, <3>1, AdmitSound DEF BeginHop, Pin
    <3>2. CASE Here.host \notin Address
      BY <1>2, <3>2 DEF BeginHop
    <3> QED
      BY <3>1, <3>2
  <2> QED
    BY <1>0, <2>1, <2>2
<1>3. ASSUME NEW s \in SUBSET (Address \cup {MALFORMED}), DnsAnswers(s)
      PROVE  Amount' /\ Contact' /\ Told'
  <2>1. /\ pc = "dns" /\ pending = NONE
        /\ UNCHANGED <<fetcher, body, expired, cancelled, peers, sent>>
    BY <1>0, <1>3 DEF DnsAnswers, Stage, Underway, call, reply, clock
  <2>2. \/ pc' = "exit" /\ pending' \in {"dns_failure", "disallowed_address"}
        \/ pc' = "request" /\ pending' = pending /\ addresses' = answers'
           /\ \A a \in answers' : a \in Address /\ admit_ip(a)
    BY <1>3, AdmitSound DEF DnsAnswers, Pin
  <2> QED
    BY <1>0, <2>1, <2>2
<1>4. ASSUME StartRequest PROVE Amount' /\ Contact' /\ Told'
  BY <1>0, <1>4 DEF StartRequest, call, reply, clock
<1>5. ASSUME SessionFails PROVE Amount' /\ Contact' /\ Told'
  BY <1>0, <1>5 DEF SessionFails, Leave, Stage, Underway, call, reply, clock, world
<1>6. ASSUME GetAnswers PROVE Amount' /\ Contact' /\ Told'
  BY <1>0, <1>6 DEF GetAnswers, call, reply, clock
<1>7. ASSUME NEW e \in IoError, IoFails(e) PROVE Amount' /\ Contact' /\ Told'
  BY <1>0, <1>7 DEF IoFails, Leave, IoError, Stage, Underway, call, reply, clock
<1>8. ASSUME NEW loc \in {{}} \cup {{raw} : raw \in Location}, ReplyRedirect(loc)
      PROVE  Amount' /\ Contact' /\ Told'
  <2>1. /\ pc = "reply" /\ pc' = "closing" /\ pending = NONE
        /\ pending' \notin {INTERRUPTED, FETCHED, "body_too_large"}
        /\ UNCHANGED <<fetcher, body, addresses, expired, cancelled, answers, peers, sent>>
    BY <1>0, <1>8, FollowedType DEF ReplyRedirect, Leave, Stage, Underway, ErrorCode, IoError,
       call, clock, world
  <2> QED
    BY <1>0, <2>1
<1>9. ASSUME NEW s \in OtherStatus, ReplyOther(s) PROVE Amount' /\ Contact' /\ Told'
  <2>1. /\ pc = "reply" /\ pc' = "closing" /\ pending = NONE
        /\ pending' \in {STATUS_ONLY, "http_status"}
        /\ UNCHANGED <<fetcher, body, addresses, expired, cancelled, answers, peers, sent>>
    BY <1>0, <1>9 DEF ReplyOther, Leave, Stage, Underway, call, clock, world
  <2> QED
    BY <1>0, <2>1 DEF STATUS_ONLY
<1>10. ASSUME NEW h \in {"ok", "unsupported_content_type", "unsupported_charset"}, ReplyOk(h)
       PROVE  Amount' /\ Contact' /\ Told'
  <2>1. /\ pc = "reply" /\ pending = NONE
        /\ UNCHANGED <<fetcher, addresses, expired, cancelled, answers, peers>>
        /\ \/ pc' = "body" /\ body' = 0 /\ sent' = 0 /\ pending' = pending
           \/ /\ pc' = "closing" /\ pending' \in {"unsupported_content_type", "unsupported_charset"}
              /\ body' = body /\ sent' = sent
    BY <1>0, <1>10 DEF ReplyOk, Leave, Stage, Underway, call, clock
  <2>2. BodyLimit[fetcher] \in Nat
    BY <1>0, FetchAssumption DEF TypeOK
  <2> QED
    BY <1>0, <2>1, <2>2
<1>11. ASSUME NEW n \in 1..MaxChunk, Chunk(n) PROVE Amount' /\ Contact' /\ Told'
  <2>1. /\ pc = "body" /\ pending = NONE /\ sent' = sent + n
        /\ UNCHANGED <<fetcher, addresses, expired, cancelled, answers, peers>>
        /\ \/ pc' = pc /\ body' = body + n /\ pending' = pending /\ body + n <= BodyLimit[fetcher]
           \/ /\ pc' = "closing" /\ pending' = "body_too_large" /\ body' = body
              /\ ~(body + n <= BodyLimit[fetcher])
    BY <1>0, <1>11 DEF Chunk, Fits, Leave, Stage, Underway, call, clock
  <2>2. BodyLimit[fetcher] \in Nat /\ n \in Nat /\ body \in Nat /\ sent \in Nat /\ body = sent
    BY <1>0, <2>1, FetchAssumption DEF TypeOK
  <2>3. Amount'
    BY <2>1, <2>2
  <2> QED
    BY <1>0, <2>1, <2>3
<1>12. ASSUME NEW p \in {FETCHED, "unsupported_charset"}, BodyEnds(p)
       PROVE  Amount' /\ Contact' /\ Told'
  <2>1. /\ pc = "body" /\ pc' = "closing" /\ pending = NONE /\ pending' = p
        /\ UNCHANGED <<fetcher, body, addresses, expired, cancelled, answers, peers, sent>>
    BY <1>0, <1>12 DEF BodyEnds, Leave, Stage, Underway, call, reply, clock, world
  <2> QED
    BY <1>0, <2>1
<1>13. ASSUME Closed PROVE Amount' /\ Contact' /\ Told'
  <2>1. /\ pc = "closing" /\ pc' \in {"hop", "exit"} /\ peers' = {}
        /\ UNCHANGED <<fetcher, body, addresses, expired, cancelled, answers, sent, pending>>
    BY <1>13 DEF Closed, code, call, reply, clock
  <2> QED
    BY <1>0, <2>1
<1>14. ASSUME Exit PROVE Amount' /\ Contact' /\ Told'
  <2>1. /\ pc = "exit" /\ pc' = "done"
        /\ UNCHANGED <<fetcher, body, addresses, expired, cancelled, answers, peers, sent, pending>>
    BY <1>14 DEF Exit, call, reply, clock, world
  <2> QED
    BY <1>0, <2>1
<1>15. ASSUME Deadline \/ Cancel PROVE Amount' /\ Contact' /\ Told'
  <2>1. /\ pc' \in {"closing", "exit"} /\ pending' = INTERRUPTED /\ (expired' \/ cancelled')
        /\ UNCHANGED <<fetcher, body, addresses, answers, peers, sent>>
    BY <1>15 DEF Deadline, Cancel, Interrupt, call, reply, world
  <2> QED
    BY <1>0, <2>1
<1>16. CASE UNCHANGED vars
  BY <1>0, <1>16 DEF vars, code, call, reply, clock, world
<1> QED
  BY <1>1, <1>2, <1>3, <1>4, <1>5, <1>6, <1>7, <1>8, <1>9, <1>10, <1>11, <1>12, <1>13, <1>14,
     <1>15, <1>16 DEF Next, Run, Server, Done

-------------------------------------------------------------------------------
(* Theorems *)

\* The invariant of a fetch.
THEOREM FetchInvariant == Spec => []Inv
<1>1. Init => Inv
  BY InitInv
<1>2. Inv /\ [Next]_vars => Inv'
  BY NextType, NextStage, NextRoute, NextRest DEF Inv
<1> QED
  BY <1>1, <1>2, PTL DEF Spec

\* Every reachable state of fetch_html and fetch_robots is of its type.
THEOREM TypeCorrect == Spec => []TypeOK
<1>1. Inv => TypeOK
  BY DEF Inv
<1> QED
  BY <1>1, FetchInvariant, PTL

\* A result names the URLs requested, from the one that was meant to the final one,
\* and carries the whole body; refusals for size and redirects are given beyond the
\* limits only.
THEOREM AnswersAreTrue == Spec => []AnswerTrue
<1>1. ASSUME Inv PROVE AnswerTrue
  <2>1. outcome \in Returned \cup {"body_too_large", "too_many_redirects"} => pending = outcome
    BY <1>1 DEF Inv, Stage, Verdict, Returned, FETCHED, STATUS_ONLY, NONE, CANCELLED, INTERRUPTED
  <2>2. outcome \in Returned =>
          chain = asked /\ Len(asked) = redirects + 1 /\ current = {asked[Len(asked)]}
    BY <1>1, <2>1 DEF Inv, Route
  <2>3. outcome \in Returned => \E u \in site : asked[1] = First(u)
    BY <1>1, <2>2 DEF Inv, FirstAsked, TypeOK
  <2>4. outcome = FETCHED => body = sent /\ sent <= BodyLimit[fetcher]
    BY <1>1, <2>1 DEF Inv, Amount, Returned
  <2>5. outcome = "body_too_large" => sent > BodyLimit[fetcher]
    BY <1>1, <2>1 DEF Inv, Amount
  <2>6. outcome = "too_many_redirects" => Len(asked) = MaxRedirects + 1
    BY <1>1, <2>1 DEF Inv, Route
  <2> QED
    BY <2>2, <2>3, <2>4, <2>5, <2>6 DEF AnswerTrue, First
<1> QED
  BY <1>1, FetchInvariant, PTL

\* Connections go to public unicast addresses of the hop's own host, and only when
\* that host stands for nothing else.
THEOREM PeersAreAdmitted == Spec => []PeersAdmitted
<1>1. ASSUME Inv PROVE PeersAdmitted
  <2>1. SUFFICES ASSUME peers # {} PROVE /\ peers \subseteq answers
          /\ \A a \in answers : a # MALFORMED /\ AddressIs[a].is = {"global"} /\ ~AddressIs[a].scoped
                                /\ AddressIs[a].mapped \in {NONE, "global"}
    BY DEF PeersAdmitted
  <2>2. peers \subseteq answers
    BY <1>1, <2>1 DEF Inv, Contact
  <2>3. ASSUME NEW a \in answers
        PROVE  a # MALFORMED /\ AddressIs[a].is = {"global"} /\ ~AddressIs[a].scoped
               /\ AddressIs[a].mapped \in {NONE, "global"}
    <3>1. a \in Address /\ admit_ip(a)
      BY <1>1, <2>1 DEF Inv, Contact
    <3>2. AddressIs[a] \in AddressFacts
      BY <3>1, TransportAssumption
    <3>3. /\ AddressIs[a].is \subseteq AddressFlag /\ "global" \in AddressIs[a].is
          /\ AddressIs[a].is \cap RefusedFlag = {} /\ ~AddressIs[a].scoped
          /\ AddressIs[a].mapped \in {NONE, "global"}
      BY <3>1, <3>2 DEF admit_ip, AddressFacts
    <3>4. AddressIs[a].is = {"global"}
      BY <3>3 DEF RefusedFlag
    <3> QED
      BY <3>1, <3>3, <3>4, TransportAssumption
  <2> QED
    BY <2>2, <2>3
<1> QED
  BY <1>1, FetchInvariant, PTL

\* Cancellation reaches the caller and nothing is taken for it; a deadline that fired
\* is told as a timeout.
THEOREM InterruptionsAreTold == Spec => []InterruptionTold
<1>1. Inv => InterruptionTold
  BY DEF Inv, TypeOK, Stage, Told, Verdict, InterruptionTold, CANCELLED, INTERRUPTED, NONE,
     Returned, FETCHED, STATUS_ONLY, ErrorCode, IoError
<1> QED
  BY <1>1, FetchInvariant, PTL

\* The fetch implements what its caller is promised: every step is a request begun,
\* everything closed, the end, or nothing the caller can see.
THEOREM FetchKeepsPromise == Spec => KeepsPromise
<1>1. Init => Caller!Init
  BY DEF Init, Caller!Init, NONE
<1>2. ASSUME Inv, [Next]_vars PROVE [Caller!Next]_(Caller!promiseVars)
  <2>0. TypeOK /\ Stage /\ Route /\ asked \in Seq(Url)
    BY <1>2 DEF Inv, TypeOK
  <2> USE DEF Caller!Next, Caller!promiseVars, Caller!Open, Caller!Close, Caller!End
  <2>1. ASSUME UNCHANGED <<asked, outcome>>, open' = open \/ (open # {} /\ open' = {})
               \/ (open # {} /\ open' # {})
        PROVE  [Caller!Next]_(Caller!promiseVars)
    <3>1. CASE (open # {}) = (open' # {})
      BY <2>1, <3>1
    <3>2. CASE open # {} /\ open' = {}
      BY <2>1, <3>2
    <3> QED
      BY <2>1, <3>1, <3>2
  <2>2. ASSUME NEW raw \in Start, Enter(raw) PROVE [Caller!Next]_(Caller!promiseVars)
    BY <2>1, <2>2 DEF Enter, world
  <2>3. ASSUME BeginHop PROVE [Caller!Next]_(Caller!promiseVars)
    BY <2>1, <2>3 DEF BeginHop
  <2>4. ASSUME NEW s \in SUBSET (Address \cup {MALFORMED}), DnsAnswers(s)
        PROVE  [Caller!Next]_(Caller!promiseVars)
    BY <2>1, <2>4 DEF DnsAnswers
  <2>5. ASSUME StartRequest PROVE [Caller!Next]_(Caller!promiseVars)
    <3>1. open = {} /\ outcome = NONE /\ Len(asked) = redirects /\ redirects \in Nat
          /\ redirects <= MaxRedirects /\ Here \in Url
      BY <2>0, <2>5, FetchAssumption
         DEF StartRequest, Stage, Route, TypeOK, Connected, Hopping, Underway
    <3>2. open' # {} /\ outcome' = outcome /\ Len(asked') = Len(asked) + 1
      BY <2>0, <2>5, <3>1 DEF StartRequest
    <3>3. Len(asked) < MaxRedirects + 1
      BY <3>1, FetchAssumption
    <3> QED
      BY <3>1, <3>2, <3>3 DEF NONE
  <2>6. ASSUME SessionFails PROVE [Caller!Next]_(Caller!promiseVars)
    <3>1. open = {}
      BY <2>0, <2>6 DEF SessionFails, Stage, Connected
    <3> QED
      BY <2>1, <2>6, <3>1 DEF SessionFails, Leave, world
  <2>7. ASSUME GetAnswers PROVE [Caller!Next]_(Caller!promiseVars)
    <3>1. open # {}
      BY <2>0, <2>7 DEF GetAnswers, Stage, Connected
    <3> QED
      BY <2>1, <2>7, <3>1 DEF GetAnswers
  <2>8. ASSUME open' = {}, UNCHANGED <<asked, outcome>> PROVE [Caller!Next]_(Caller!promiseVars)
    BY <2>1, <2>8
  <2>9. ASSUME Server PROVE [Caller!Next]_(Caller!promiseVars)
    <3>1. ASSUME NEW e \in IoError, IoFails(e) PROVE [Caller!Next]_(Caller!promiseVars)
      BY <2>8, <3>1 DEF IoFails, Leave
    <3>2. ASSUME NEW loc \in {{}} \cup {{raw} : raw \in Location}, ReplyRedirect(loc)
          PROVE  [Caller!Next]_(Caller!promiseVars)
      BY <2>8, <3>2 DEF ReplyRedirect, Leave, world
    <3>3. ASSUME NEW s \in OtherStatus, ReplyOther(s) PROVE [Caller!Next]_(Caller!promiseVars)
      BY <2>8, <3>3 DEF ReplyOther, Leave, world
    <3>4. ASSUME NEW h \in {"ok", "unsupported_content_type", "unsupported_charset"}, ReplyOk(h)
          PROVE  [Caller!Next]_(Caller!promiseVars)
      BY <2>1, <2>8, <3>4 DEF ReplyOk, Leave
    <3>5. ASSUME NEW n \in 1..MaxChunk, Chunk(n) PROVE [Caller!Next]_(Caller!promiseVars)
      BY <2>1, <2>8, <3>5 DEF Chunk, Leave
    <3>6. ASSUME NEW p \in {FETCHED, "unsupported_charset"}, BodyEnds(p)
          PROVE  [Caller!Next]_(Caller!promiseVars)
      BY <2>8, <3>6 DEF BodyEnds, Leave, world
    <3> QED
      BY <2>4, <2>7, <2>9, <3>1, <3>2, <3>3, <3>4, <3>5, <3>6 DEF Server
  <2>10. ASSUME Closed PROVE [Caller!Next]_(Caller!promiseVars)
    BY <2>1, <2>10 DEF Closed, code
  <2>11. ASSUME Exit PROVE [Caller!Next]_(Caller!promiseVars)
    <3>1. open = {} /\ outcome = NONE
      BY <2>0, <2>11 DEF Exit, Stage, Connected
    <3>2. outcome' \in Outcome
      BY <2>0, <2>11 DEF Exit, Stage, Verdict, Outcome, TypeOK, NONE, INTERRUPTED, CANCELLED,
         ErrorCode, IoError
    <3> QED
      BY <2>11, <3>1, <3>2 DEF Exit, world, NONE
  <2>12. ASSUME Deadline \/ Cancel PROVE [Caller!Next]_(Caller!promiseVars)
    BY <2>1, <2>8, <2>12 DEF Deadline, Cancel, Interrupt, world
  <2>13. CASE UNCHANGED vars
    BY <2>1, <2>13 DEF vars, code, world
  <2> QED
    BY <1>2, <2>2, <2>3, <2>5, <2>6, <2>9, <2>10, <2>11, <2>12, <2>13 DEF Next, Run, Done
<1> QED
  BY <1>1, <1>2, FetchInvariant, PTL DEF Spec, KeepsPromise, Caller!Promise

-------------------------------------------------------------------------------
(* The decision on a fetched robots.txt *)

\* One site is asked for, and what is returned goes with the status of the response.
Evidence ==
  /\ \A u, w \in site : u = w
  /\ pc = "body" \/ pending = FETCHED => status = "ok"
  /\ pending = STATUS_ONLY => status \in OtherStatus

\* Every action keeps the status with what is returned for it.
LEMMA NextEvidence == Inv /\ Evidence /\ [Next]_vars => Evidence'
<1> SUFFICES ASSUME Inv, Evidence, [Next]_vars PROVE Evidence'
  OBVIOUS
<1>0. TypeOK /\ Stage
  BY DEF Inv
<1> USE DEF Evidence, FETCHED, STATUS_ONLY, NONE, INTERRUPTED
<1>1. ASSUME NEW raw \in Start, Enter(raw) PROVE Evidence'
  <2> DEFINE n == normalize_url(raw, {}, "invalid_url")
  <2>1. n.ok \in BOOLEAN /\ (~n.ok => n.code \in {"invalid_url", "disallowed_port"})
    BY NormalizeType, FetchAssumption DEF ErrorCode
  <2> HIDE DEF n
  <2>2. /\ status' = status
        /\ \/ pc' = "hop" /\ pending' = pending
           \/ pc' = "exit" /\ pending' \in {"invalid_url", "disallowed_port"}
    BY <1>1, <2>1 DEF Enter, n, reply
  <2>3. \A u, w \in site' : u = w
    BY <1>0, <1>1 DEF Enter
  <2> QED
    BY <2>2, <2>3
<1>2. ASSUME NEW s \in SUBSET (Address \cup {MALFORMED}), Pin(AdmitAnswers(s)),
             status' = status, site' = site
      PROVE  Evidence'
  BY <1>2, AdmitSound DEF Pin
<1>3. ASSUME BeginHop PROVE Evidence'
  <2>1. CASE Here.host \in Address
    BY <1>2, <1>3, <2>1 DEF BeginHop, Pin, reply, call
  <2>2. CASE Here.host \notin Address
    BY <1>3, <2>2 DEF BeginHop, reply, call
  <2> QED
    BY <2>1, <2>2
<1>4. ASSUME NEW s \in SUBSET (Address \cup {MALFORMED}), DnsAnswers(s) PROVE Evidence'
  BY <1>2, <1>4 DEF DnsAnswers, Pin, reply, call
<1>5. ASSUME StartRequest \/ GetAnswers \/ Closed \/ Exit PROVE Evidence'
  BY <1>5 DEF StartRequest, GetAnswers, Closed, Exit, code, reply, call
<1>6. ASSUME SessionFails \/ \E e \in IoError : IoFails(e) PROVE Evidence'
  BY <1>6 DEF SessionFails, IoFails, Leave, IoError, reply, call
<1>7. ASSUME NEW loc \in {{}} \cup {{raw} : raw \in Location}, ReplyRedirect(loc) PROVE Evidence'
  <2>1. pc' = "closing" /\ (pending' = NONE \/ pending' \in ErrorCode) /\ site' = site
    BY <1>0, <1>7, FollowedType DEF ReplyRedirect, Leave, call
  <2> QED
    BY <2>1 DEF ErrorCode, IoError
<1>8. ASSUME NEW s \in OtherStatus, ReplyOther(s) PROVE Evidence'
  BY <1>8 DEF ReplyOther, Leave, call
<1>9. ASSUME NEW h \in {"ok", "unsupported_content_type", "unsupported_charset"}, ReplyOk(h)
      PROVE  Evidence'
  BY <1>0, <1>9 DEF ReplyOk, Leave, Stage, Underway, Connected, call
<1>10. ASSUME NEW n \in 1..MaxChunk, Chunk(n) PROVE Evidence'
  BY <1>0, <1>10 DEF Chunk, Leave, Stage, Underway, Connected, call
<1>11. ASSUME NEW p \in {FETCHED, "unsupported_charset"}, BodyEnds(p) PROVE Evidence'
  BY <1>11 DEF BodyEnds, Leave, reply, call
<1>12. ASSUME Deadline \/ Cancel PROVE Evidence'
  BY <1>12 DEF Deadline, Cancel, Interrupt, reply, call
<1>13. CASE UNCHANGED vars
  BY <1>13 DEF vars, code, reply, call
<1> QED
  BY <1>1, <1>3, <1>4, <1>5, <1>6, <1>7, <1>8, <1>9, <1>10, <1>11, <1>12, <1>13
     DEF Next, Run, Server, Done

\* What the gate is handed once a fetch of robots.txt has ended.
LEMMA Handed ==
  ASSUME Inv, Evidence, pc = "done"
  PROVE  /\ outcome \in Outcome
         /\ FetchErrorCode = IF outcome \in ErrorCode /\ fetcher = "robots" THEN {outcome} ELSE {}
         /\ ErrorCode \cap Returned = {}
         /\ FetchedRobots # {} => FetchErrorCode = {}
         /\ \A f \in FetchedRobots :
              /\ outcome \in Returned /\ fetcher = "robots" /\ site # {}
              /\ f.requested_site_url \in site
              /\ f.redirect_chain = asked /\ asked # << >>
              /\ f.robots_url = [f.requested_site_url EXCEPT !.path = "/robots.txt"]
              /\ f.final_url = asked[Len(asked)]
              /\ f.status_code = status
              /\ f.body = IF outcome = FETCHED THEN {body} ELSE {}
         /\ outcome = FETCHED => status = "ok" /\ body = sent /\ body <= BodyLimit[fetcher]
         /\ outcome = STATUS_ONLY => status \in OtherStatus
         /\ \A u, w \in site : u = w
         /\ fetcher = "robots" /\ outcome \in Returned =>
              \E u \in site : u \in Url /\ asked[1] = [u EXCEPT !.path = "/robots.txt"]
<1> USE DEF FETCHED, STATUS_ONLY, NONE, INTERRUPTED, CANCELLED
<1>1. TypeOK /\ Stage /\ Route /\ FirstAsked /\ Amount /\ Told
  BY DEF Inv
<1>2. pending # NONE /\ outcome = Verdict(pending)
  BY <1>1 DEF Stage
<1>3. outcome \in Outcome /\ (outcome \in Returned => pending = outcome)
  BY <1>1, <1>2 DEF Verdict, TypeOK, Outcome, Returned, ErrorCode, IoError
<1>4. ErrorCode \cap Returned = {}
  BY DEF ErrorCode, IoError, Returned
<1>5. outcome \in Returned =>
        chain = asked /\ Len(asked) = redirects + 1 /\ current = {asked[Len(asked)]}
  BY <1>1, <1>3 DEF Route
<1>6. outcome \in Returned => Here = asked[Len(asked)] /\ asked # << >> /\ Len(asked) > 0
  BY <1>1, <1>5 DEF Here, TypeOK
<1>7. outcome \in Returned => \E u \in site : asked[1] = First(u)
  BY <1>1, <1>6 DEF FirstAsked
<1>8. fetcher = "robots" /\ outcome \in Returned =>
        \E u \in site : u \in Url /\ asked[1] = [u EXCEPT !.path = "/robots.txt"]
  BY <1>1, <1>7 DEF First, TypeOK
<1>9. outcome = FETCHED => status = "ok" /\ body = sent /\ body <= BodyLimit[fetcher]
  BY <1>1, <1>3 DEF Evidence, Amount, Returned
<1>10. outcome = STATUS_ONLY => status \in OtherStatus
  BY <1>3 DEF Evidence, Returned
<1>11. FetchedRobots # {} => FetchErrorCode = {}
  BY <1>4 DEF FetchedRobots, FetchErrorCode
<1>12. \A f \in FetchedRobots :
         /\ outcome \in Returned /\ fetcher = "robots" /\ site # {}
         /\ f.requested_site_url \in site
         /\ f.redirect_chain = asked /\ asked # << >>
         /\ f.robots_url = [f.requested_site_url EXCEPT !.path = "/robots.txt"]
         /\ f.final_url = asked[Len(asked)]
         /\ f.status_code = status
         /\ f.body = IF outcome = FETCHED THEN {body} ELSE {}
  <2> SUFFICES ASSUME NEW f \in FetchedRobots
               PROVE  /\ outcome \in Returned /\ fetcher = "robots" /\ site # {}
                      /\ f.requested_site_url \in site
                      /\ f.redirect_chain = asked /\ asked # << >>
                      /\ f.robots_url = [f.requested_site_url EXCEPT !.path = "/robots.txt"]
                      /\ f.final_url = asked[Len(asked)]
                      /\ f.status_code = status
                      /\ f.body = IF outcome = FETCHED THEN {body} ELSE {}
    OBVIOUS
  <2>1. outcome \in Returned /\ fetcher = "robots"
    BY DEF FetchedRobots
  <2>2. PICK u \in site :
          f = [requested_site_url |-> u,
               robots_url         |-> [u EXCEPT !.path = "/robots.txt"],
               final_url          |-> Here,
               status_code        |-> status,
               body               |-> IF outcome = FETCHED THEN {body} ELSE {},
               redirect_chain     |-> chain]
    BY <2>1 DEF FetchedRobots
  <2> QED
    BY <1>5, <1>6, <2>1, <2>2
<1> QED
  BY <1>3, <1>4, <1>8, <1>9, <1>10, <1>11, <1>12 DEF FetchErrorCode, Evidence


\* What evaluate_robots_gate makes of it.
LEMMA GateDecides ==
  ASSUME Inv, Evidence, pc = "done", FetchedRobots # {} \/ FetchErrorCode # {},
         NEW path \in Path, NEW v \in Said
  PROVE  LET d == evaluate_robots_gate(FetchedRobots, FetchErrorCode, path, v) IN
         /\ d.allowed =>
              /\ outcome \in Returned /\ fetcher = "robots"
              /\ \/ outcome = STATUS_ONLY /\ status = "unavailable"
                 \/ outcome = FETCHED /\ body = sent /\ (v = "allow" \/ path = "/robots.txt")
         /\ ValidTarget(path) /\ status # "beyond" => d.raised = NONE
         /\ d.reason = "too_large" => outcome = FETCHED /\ body > MaxRobotsBytes
<1> USE DEF Decided, Raised, NONE
<1> DEFINE d == evaluate_robots_gate(FetchedRobots, FetchErrorCode, path, v)
<1>1. CASE FetchedRobots # {}
  <2>1. FetchErrorCode = {}
    BY <1>1, Handed
  <2>2. PICK f : f = CHOOSE g \in FetchedRobots : TRUE
    OBVIOUS
  <2>3. f \in FetchedRobots
    BY <1>1, <2>2
  <2>4. d = IF ValidFetched(f) THEN evaluate_robots_access(f.status_code, f.body, path, v)
            ELSE Raised("invalid_gate_input")
    BY <1>1, <2>1, <2>2 DEF evaluate_robots_gate
  <2>5. /\ outcome \in Returned /\ fetcher = "robots"
        /\ f.status_code = status
        /\ f.body = IF outcome = FETCHED THEN {body} ELSE {}
        /\ outcome = FETCHED => status = "ok" /\ body = sent /\ body <= BodyLimit[fetcher]
        /\ outcome = STATUS_ONLY => status \in OtherStatus
    BY <2>3, Handed
  <2>6. status # "beyond" => ValidFetched(f)
    <3>1. PICK u \in site : u \in Url /\ asked[1] = [u EXCEPT !.path = "/robots.txt"]
      BY <2>5, Handed
    <3>2. f.requested_site_url = u
      BY <2>3, <3>1, Handed
    <3> QED
      BY <2>3, <2>5, <3>1, <3>2, Handed DEF ValidFetched, OtherStatus, Returned, FETCHED, STATUS_ONLY
  <2> DEFINE e == evaluate_robots_access(f.status_code, f.body, path, v)
  <2>7. d = e \/ (d = Raised("invalid_gate_input") /\ status = "beyond")
    BY <2>4, <2>6
  <2>8. CASE outcome = FETCHED
    <3>1. f.status_code = "ok" /\ f.body = {body} /\ (CHOOSE n \in f.body : TRUE) = body
      BY <2>5, <2>8
    <3>2. \/ e = Raised("invalid_policy_input") /\ ~ValidTarget(path)
          \/ e = Decided(FALSE, "too_large") /\ body > MaxRobotsBytes
          \/ e = Decided(FALSE, "invalid_encoding")
          \/ e = Decided(TRUE, "policy") /\ (v = "allow" \/ path = "/robots.txt")
          \/ e = Decided(FALSE, "policy")
      BY <3>1, Zenon DEF evaluate_robots_access, evaluate_robots
    <3> QED
      BY <2>5, <2>7, <2>8, <3>2
  <2>9. CASE outcome = STATUS_ONLY
    <3>1. status \in OtherStatus
      BY <2>5, <2>9
    <3>2. \/ e = Raised("invalid_policy_input") /\ ~ValidTarget(path)
          \/ e = Decided(FALSE, "unreachable")
          \/ e = Decided(TRUE, "unavailable") /\ status = "unavailable"
          \/ e = Decided(FALSE, "indeterminate")
      BY <2>5, <3>1 DEF evaluate_robots_access, OtherStatus
    <3> QED
      BY <2>5, <2>7, <2>9, <3>1, <3>2 DEF OtherStatus
  <2> QED
    BY <2>5, <2>8, <2>9 DEF Returned
<1>2. CASE FetchedRobots = {}
  BY <1>2 DEF evaluate_robots_gate, evaluate_robots_access
<1> QED
  BY <1>1, <1>2


\* The fetch was for one site, and a body is returned with the status it came with.
LEMMA EvidenceInvariant == Spec => [](Inv /\ Evidence)
<1>1. Init => Evidence
  BY DEF Init, Evidence, NONE, FETCHED, STATUS_ONLY
<1> QED
  BY <1>1, InitInv, NextEvidence, FetchInvariant, PTL DEF Spec

\* Pages are of the form the gate expects.
LEMMA PageForm ==
  ASSUME NEW raw \in RawUrl
  PROVE  LET n == normalize_url(raw, {}, "invalid_url") IN
         n.ok \in BOOLEAN /\ (n.ok => n.url \in Url /\ n.url.path \in Path)
  BY NormalizeType DEF Url, ErrorCode

\* A page is allowed only on evidence from its own origin: the first request of the
\* fetch went to that origin's robots.txt, and either the server said there is none or
\* the whole file was read and allows the page.
THEOREM GateFailsClosed == Spec => []FailClosed
<1>1. ASSUME Inv, Evidence PROVE FailClosed
  <2> SUFFICES ASSUME pc = "done", NEW s \in Start, NEW t \in Target, NEW v \in Said,
                      evaluate_bound_robots(s, t, FetchedRobots, FetchErrorCode, v).allowed
               PROVE  LET page == normalize_url(t, {}, "invalid_url").url IN
                      /\ Origin(asked[1]) = Origin(page) /\ asked[1].path = "/robots.txt"
                      /\ \/ outcome = STATUS_ONLY /\ status = "unavailable"
                         \/ outcome = FETCHED /\ body = sent
                            /\ (v = "allow" \/ page.path = "/robots.txt")
    BY DEF FailClosed, ForAnyUse
  <2> DEFINE site1 == normalize_url(s, {}, "invalid_url")
             page1 == normalize_url(t, {}, "invalid_url")
  <2>1. /\ (FetchedRobots = {}) # (FetchErrorCode = {})
        /\ site1.ok /\ page1.ok /\ Origin(site1.url) = Origin(page1.url)
        /\ Proven(FetchedRobots, site1.url)
        /\ evaluate_robots_gate(FetchedRobots, FetchErrorCode, page1.url.path, v).allowed
    BY DEF evaluate_bound_robots, Raised
  <2>2. site1.url \in Url /\ page1.url.path \in Path
    BY <2>1, PageForm, GateAssumption, FetchAssumption
  <2> HIDE DEF site1, page1
  <2>3. /\ outcome \in Returned /\ fetcher = "robots"
        /\ \/ outcome = STATUS_ONLY /\ status = "unavailable"
           \/ outcome = FETCHED /\ body = sent /\ (v = "allow" \/ page1.url.path = "/robots.txt")
    BY <1>1, <2>1, <2>2, GateDecides
  <2>4. PICK u \in site : u \in Url /\ asked[1] = [u EXCEPT !.path = "/robots.txt"]
    BY <1>1, <2>3, Handed
  <2>5. u = site1.url
    <3>1. FetchedRobots # {}
      BY <1>1, <2>1, <2>3, Handed DEF FetchErrorCode
    <3> QED
      BY <1>1, <2>1, <2>4, <3>1, Handed DEF Proven
  <2>6. Origin(asked[1]) = Origin(page1.url) /\ asked[1].path = "/robots.txt"
    BY <2>1, <2>4, <2>5 DEF Origin, Url
  <2> QED
    BY <2>3, <2>6 DEF page1
<1> QED
  BY <1>1, EvidenceInvariant, PTL

\* However the fetch ended, short of being cancelled or of a status above 599, it is
\* decided upon for the site it was made for, if the policy accepts as large a file as
\* the fetcher reads (both limits are 512000 bytes).
THEOREM GateDecidesEveryFetch ==
  ASSUME BodyLimit["robots"] <= MaxRobotsBytes
  PROVE  Spec => []EveryFetchDecided
<1>1. ASSUME Inv, Evidence PROVE EveryFetchDecided
  <2> SUFFICES ASSUME pc = "done", NEW s \in Start, NEW t \in Target, NEW v \in Said
               PROVE  LET d  == evaluate_bound_robots(s, t, FetchedRobots, FetchErrorCode, v)
                          s1 == normalize_url(s, {}, "invalid_url")
                          t1 == normalize_url(t, {}, "invalid_url")
                      IN  fetcher = "robots" /\ outcome # CANCELLED /\ status # "beyond"
                          /\ s1.ok /\ site = {s1.url} /\ t1.ok /\ Origin(s1.url) = Origin(t1.url)
                          /\ ValidTarget(t1.url.path)
                          => d.raised = NONE /\ d.reason # "too_large"
    BY DEF EveryFetchDecided, ForAnyUse
  <2> DEFINE s1 == normalize_url(s, {}, "invalid_url")
             t1 == normalize_url(t, {}, "invalid_url")
             d  == evaluate_bound_robots(s, t, FetchedRobots, FetchErrorCode, v)
             g  == evaluate_robots_gate(FetchedRobots, FetchErrorCode, t1.url.path, v)
  <2>1. SUFFICES ASSUME fetcher = "robots", outcome # CANCELLED, status # "beyond",
                        s1.ok, site = {s1.url}, t1.ok, Origin(s1.url) = Origin(t1.url),
                        ValidTarget(t1.url.path)
                 PROVE  d.raised = NONE /\ d.reason # "too_large"
    OBVIOUS
  <2>2. t1.url.path \in Path
    BY <2>1, PageForm, GateAssumption
  <2>3. (FetchedRobots = {}) # (FetchErrorCode = {})
    <3>1. outcome \in ErrorCode \cup Returned
      BY <1>1, <2>1, Handed DEF Outcome
    <3>2. CASE outcome \in Returned
      <4>1. FetchedRobots # {}
        BY <2>1, <3>2 DEF FetchedRobots
      <4> QED
        BY <1>1, <4>1, Handed
    <3>3. CASE outcome \in ErrorCode
      <4>1. FetchErrorCode # {}
        BY <2>1, <3>3 DEF FetchErrorCode
      <4> QED
        BY <1>1, <4>1, Handed
    <3> QED
      BY <3>1, <3>2, <3>3
  <2>4. Proven(FetchedRobots, s1.url)
    BY <1>1, <2>1, Handed DEF Proven
  <2>5. d = g
    BY <2>1, <2>3, <2>4 DEF evaluate_bound_robots
  <2>6. g.raised = NONE /\ (g.reason = "too_large" => outcome = FETCHED /\ body > MaxRobotsBytes)
    BY <1>1, <2>1, <2>2, <2>3, GateDecides
  <2>7. outcome = FETCHED => body <= MaxRobotsBytes
    <3>1. outcome = FETCHED => body <= BodyLimit[fetcher]
      BY <1>1, Handed
    <3>2. body \in Nat /\ BodyLimit["robots"] \in Nat /\ MaxRobotsBytes \in Nat
      BY <1>1, FetchAssumption, GateAssumption DEF Inv, TypeOK
    <3> QED
      BY <2>1, <3>1, <3>2
  <2>8. body \in Nat /\ MaxRobotsBytes \in Nat
    BY <1>1, GateAssumption DEF Inv, TypeOK
  <2> QED
    BY <2>5, <2>6, <2>7, <2>8
<1> QED
  BY <1>1, EvidenceInvariant, PTL

===============================================================================
