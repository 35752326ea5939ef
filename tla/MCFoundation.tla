----------------------------- MODULE MCFoundation -----------------------------
(* Bounds and values for checking Foundation with TLC: two tenants that have     *)
(* stored some rows, and overlapping requests about kinds of rows that bear on   *)
(* each other.                                                                   *)
EXTENDS Foundation, TLC

VARIABLES
  group,  \* the kinds of rows this behaviour is about
  left    \* requests that may still arrive

\* Three requests where rows have few fields, two where they have more.
Groups  == {{"tenant", "workspace"}, {"membership"}, {"connector"},
            {"site"}, {"profile"}, {"policy"}, {"competitor"}}
Narrow  == {{"tenant", "workspace"}, {"membership"}, {"connector"}}

\* Two tenants that use the same names; the first one has furnished its workspace w1.
Furniture ==
  [t1 |-> Row("tenant", "t1", NULL, NULL, [name |-> "a"]),
   t2 |-> Row("tenant", "t2", NULL, NULL, [name |-> "a"]),
   w1 |-> Row("workspace", "t1", NULL, NULL, [name |-> "a"]),
   w2 |-> Row("workspace", "t1", NULL, NULL, [name |-> "b"]),
   w3 |-> Row("workspace", "t2", NULL, NULL, [name |-> "a"]),
   s1 |-> Row("site", "t1", "w1", NULL, [name |-> "a", url |-> "a"]),
   s2 |-> Row("site", "t1", "w1", NULL, [name |-> "a", url |-> "b"]),
   k1 |-> Row("connector", "t1", "w1", "s1", [kind |-> "a", status |-> "not_configured"]),
   m1 |-> Row("membership", "t1", "w1", NULL, [user_id |-> "a", role |-> "admin"]),
   p1 |-> Row("profile", "t1", "w1", NULL, [company_name |-> "a", products_services |-> NULL]),
   g1 |-> Row("goal", "t1", "w1", NULL, [objective |-> "a", target_date |-> "a"]),
   c1 |-> Row("competitor", "t1", "w1", NULL, [name |-> "a", notes |-> NULL])]

MCId == DOMAIN Furniture \cup {"n1", "n2", "n3"}

MCInit ==
  /\ group \in Groups
  /\ left = IF group \in Narrow THEN 3 ELSE 2
  /\ rows  = Furniture
  /\ audit = <<>>
  /\ pc    = [s \in Session |-> "idle"]
  /\ req   = [s \in Session |-> NoRequest]
  /\ seen  = [s \in Session |-> NothingSeen]

Known(k) == {i \in DOMAIN rows : rows[i].kind = k}

\* Tenant t1 works in its workspaces; t2 reaches for a row that is not its own.
MCRequests(k) ==
  LET ids == {"w1"} \cup Known(k)
      patches(t) == {q \in Updates(k, t, ids) :
                       q.workspace \in {NULL, "w1"} /\ q.id \in {NULL} \cup Known(k)}
  IN  Creates(k, "t1", IF k = "connector" THEN {"w1", "w2", "s1"} ELSE {"w1"})
      \cup patches("t1") \cup {CHOOSE q \in patches("t2") : q.id \in {NULL} \cup DOMAIN Furniture}
      \cup (IF k \in {"workspace", "competitor"} THEN Lists(k, "t1", {"w1"}) ELSE {})
      \cup (IF k = "profile" THEN Gets(k, "t1", {"w1"}) ELSE {})
      \cup (IF k = "policy" THEN Statuses("t1", {"w1", "w2"}) ELSE {})

MCArrive(s) ==
  /\ left > 0
  /\ left' = left - 1
  /\ \E k \in group : \E q \in MCRequests(k) : Arrive(s, q)

MCRest ==
  /\ left = 0 /\ \A s \in Session : pc[s] = "idle"
  /\ UNCHANGED <<vars, left>>

MCNext ==
  /\ \/ MCRest
     \/ \E s \in Session : MCArrive(s) \/ ((Step(s) \/ Abort(s)) /\ UNCHANGED left)
  /\ UNCHANGED group

MCSpec == MCInit /\ [][MCNext]_<<vars, group, left>> /\ Fairness
===============================================================================
