---------------------------- MODULE FetchPromise ----------------------------
(***************************************************************************)
(* What fetching a page or a robots.txt promises its caller: a bounded     *)
(* number of requests, one at a time, and exactly one outcome, given when  *)
(* nothing is held open any more.  Fetch implements it.                    *)
(***************************************************************************)
EXTENDS Naturals

CONSTANTS
  MaxRequests,   \* the most requests one fetch may make
  Outcome        \* what a fetch can end with

VARIABLES
  requests,  \* requests started so far
  holds,     \* a connection, session or response is open
  result     \* how the fetch ended, or "none"

promiseVars == <<requests, holds, result>>

Init == requests = 0 /\ holds = FALSE /\ result = "none"

\* The next request, over a connection of its own.
Open ==
  /\ result = "none" /\ ~holds
  /\ requests < MaxRequests
  /\ requests' = requests + 1
  /\ holds' = TRUE
  /\ UNCHANGED result

Close ==
  /\ holds
  /\ holds' = FALSE
  /\ UNCHANGED <<requests, result>>

End(o) ==
  /\ result = "none" /\ ~holds
  /\ result' = o
  /\ UNCHANGED <<requests, holds>>

Next == Open \/ Close \/ \E o \in Outcome : End(o)

Promise == Init /\ [][Next]_promiseVars

\* The caller gets its answer.
Answered == <>(result # "none")
===============================================================================
