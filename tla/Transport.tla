------------------------------ MODULE Transport ------------------------------
(***************************************************************************)
(* URLs and addresses as acquisition/_transport.py treats them: what a     *)
(* caller's URL or a Location header is normalised to, and which addresses *)
(* may be connected to.  A raw URL is its parts as yarl would split them;  *)
(* a host is a name or an address written literally.                       *)
(***************************************************************************)
EXTENDS Naturals, FiniteSets

CONSTANTS
  DnsName,    \* host names with the form of a DNS name
  Address,    \* addresses as strings, in DNS answers and as literal hosts
  AddressIs   \* what the ipaddress module says of each of them

NONE      == "none"         \* the part is absent
MALFORMED == "malformed"    \* an answer of getaddrinfo, or a port, of the wrong form
BAD_HOST  == "bad host"     \* neither a DNS name nor an address

\* The predicates of the ipaddress module; mapped is what an IPv6 address embeds.
AddressFlag  == {"global", "link_local", "loopback", "multicast", "private", "reserved",
                 "unspecified"}
AddressFacts == [parses : BOOLEAN, scoped : BOOLEAN, is : SUBSET AddressFlag,
                 mapped : {NONE, "global", "other"}]

ASSUME TransportAssumption ==
  /\ AddressIs \in [Address -> AddressFacts]
  /\ DnsName \cap Address = {}
  /\ {NONE, BAD_HOST, MALFORMED} \cap (DnsName \cup Address) = {}

Scheme == {"http", "https"}
Host   == DnsName \cup {a \in Address : AddressIs[a].parses}
Path   == {"/", "/page", "//page", "/robots.txt"}
Url    == [scheme : Scheme, host : Host, path : Path]
RawUrl == [scheme : Scheme \cup {"ftp", NONE}, host : Host \cup {BAD_HOST, NONE},
           user : BOOLEAN, port : {NONE, "80", "443", "8080", MALFORMED}, path : Path]

DefaultPort(s) == IF s = "http" THEN "80" ELSE "443"

-------------------------------------------------------------------------------
(* normalize_url *)

\* urljoin of a Location header to the URL that answered; a first URL has no base.
Joined(raw, base) ==
  IF base = {} \/ raw.scheme # NONE THEN raw
  ELSE LET b == CHOOSE u \in base : TRUE
       IN  [raw EXCEPT !.scheme = b.scheme, !.host = IF raw.host = NONE THEN b.host ELSE raw.host]

Normalized(u)    == [ok |-> TRUE, url |-> u]
NormalError(c)   == [ok |-> FALSE, code |-> c]

\* base is {} or {the current URL}; code is what a URL of the wrong form is called.
normalize_url(raw, base, code) ==
  LET u == Joined(raw, base) IN
  IF raw.port = MALFORMED THEN NormalError("disallowed_port")
  ELSE IF u.scheme \notin Scheme \/ u.host \notin Host \/ u.user THEN NormalError(code)
  ELSE IF u.port \notin {NONE, DefaultPort(u.scheme)} THEN NormalError("disallowed_port")
  ELSE Normalized([scheme |-> u.scheme, host |-> u.host, path |-> u.path])

-------------------------------------------------------------------------------
(* admit_ip and resolve *)

RefusedFlag == AddressFlag \ {"global"}

\* Each predicate of its own: a multicast address may be global, an IPv6 address
\* may embed an IPv4 address that is not.
admit_ip(a) ==
  LET f == AddressIs[a] IN
  ~f.scoped /\ f.parses /\ "global" \in f.is /\ f.is \cap RefusedFlag = {} /\ f.mapped # "other"

Resolved(s)     == [ok |-> TRUE, addresses |-> s]
ResolveError(c) == [ok |-> FALSE, code |-> c]

\* Every answer must be admitted; the whole set, without duplicates, is pinned.
AdmitAnswers(answers) ==
  IF answers = {} THEN ResolveError("dns_failure")
  ELSE IF \E a \in answers : a = MALFORMED \/ ~admit_ip(a)
    THEN ResolveError("disallowed_address")
  ELSE Resolved(answers)
===============================================================================
