------------------------------ MODULE Foundation ------------------------------
(***************************************************************************)
(* FoundationService (src/growth_os/services.py) over PostgreSQL at READ   *)
(* COMMITTED: tenants, workspaces, memberships, sites, connectors, and the *)
(* profile, goal, autonomy policy and competitors of a workspace.  As in   *)
(* ExecutionService each statement is a step, uncommitted writes and locks *)
(* follow from where a session stands, and Commit applies the writes.      *)
(*                                                                         *)
(* Fields that the code treats alike are represented by one of them.       *)
(***************************************************************************)
EXTENDS FiniteSets, Integers, Sequences

CONSTANTS
  Id,       \* the supply of identifiers (uuid4)
  Text,     \* values of free text, URLs, dates and levels
  Limit,    \* page sizes and
  Offset,   \* offsets a client asks for
  Session   \* database sessions; each serves one request at a time

NULL == "null"
STR_OF_NONE == "None"  \* str(None)

ASSUME FoundationAssumption ==
  /\ NULL \notin Id \cup Text
  /\ Limit \subseteq Nat \ {0} /\ Offset \subseteq Nat

VARIABLES
  rows,   \* the committed rows by identifier
  audit,  \* audit events of the foundation, in order of commit
  pc,     \* the next statement of each session's request, or its answer
  req,    \* the request each session serves
  seen    \* what the request has read so far

tables == <<rows, audit>>
vars   == <<rows, audit, pc, req, seen>>

-------------------------------------------------------------------------------
(* Tables *)

Singleton == {"profile", "goal", "policy"}
Audited   == Singleton \cup {"competitor"}
Owned     == {"workspace", "membership", "site", "connector"}
Kind      == {"tenant"} \cup Owned \cup Audited

Fields == [tenant     |-> {"name"},
           workspace  |-> {"name"},
           membership |-> {"user_id", "role"},
           site       |-> {"name", "url"},
           connector  |-> {"kind", "status"},
           profile    |-> {"company_name", "products_services"},
           goal       |-> {"objective", "target_date"},
           policy     |-> {"level", "is_paused"},
           competitor |-> {"name", "notes"}]

Nullable   == {"products_services", "target_date", "notes"}
Default    == [role |-> "member", status |-> "not_configured", is_paused |-> "true"]
Immutable  == {"user_id", "kind"}
AllFields  == UNION {Fields[k] : k \in Kind}

Values(f) == CASE f = "role"      -> {"member", "admin"}
               [] f = "status"    -> {"not_configured", "connected"}
               [] f = "is_paused" -> {"true", "false"}
               [] OTHER           -> Text

Row(k, t, w, s, fields) == [kind |-> k, tenant |-> t, workspace |-> w, site |-> s,
                            fields |-> fields]

\* The field that is unique among the rows of one tenant, workspace and site; a
\* workspace has one profile, goal and policy; tenants need not differ.
UniqueField == [workspace |-> "name", membership |-> "user_id", site |-> "url",
                connector |-> "kind", competitor |-> "name"]

Key(r) == <<r.kind, r.tenant, r.workspace, r.site,
            IF r.kind \in DOMAIN UniqueField THEN r.fields[UniqueField[r.kind]] ELSE NULL>>

\* Mutant: get_owned looks a row up by its identifier alone.
IsAnyTenants(i, k, t) == i \in DOMAIN rows /\ rows[i].kind = k

Is(i, k, t) == i \in DOMAIN rows /\ rows[i].kind = k /\ rows[i].tenant = t

\* Foreign keys: a row's tenant, workspace and site exist and belong together.
References(r) ==
  /\ Is(r.tenant, "tenant", r.tenant)
  /\ r.workspace # NULL => Is(r.workspace, "workspace", r.tenant)
  /\ r.site # NULL => Is(r.site, "site", r.tenant) /\ rows[r.site].workspace = r.workspace

-------------------------------------------------------------------------------
(* Requests *)

\* Functions of fields to values, each from the values the schema lets through.
Assignments(fields, Admits(_)) ==
  {v \in [fields -> UNION {Admits(f) : f \in fields}] : \A f \in fields : v[f] \in Admits(f)}

OrNull(f) == Values(f) \cup (IF f \in Nullable THEN {NULL} ELSE {})

\* The status of a connector cannot be supplied when it is created.
CreateValues(k) ==
  LET required == {f \in Fields[k] : f \notin Nullable \cup DOMAIN Default}
      given    == Fields[k] \ {"status"}
  IN  UNION {Assignments(fs, OrNull) : fs \in {fs \in SUBSET given : required \subseteq fs}}

\* SiteUpdate admits null for both fields and a body without any.
OrNullSite(f) == Values(f) \cup {NULL}
Changes(k) ==
  LET some == SUBSET (Fields[k] \ Immutable)
  IN  IF k = "site" THEN UNION {Assignments(fs, OrNullSite) : fs \in some}
      ELSE UNION {Assignments(fs, OrNull) : fs \in some \ {{}}}

Request(op, k, t, w, s, i, v) ==
  [op |-> op, kind |-> k, tenant |-> t, workspace |-> w, site |-> s, id |-> i, values |-> v]

NoRequest == Request("none", NULL, NULL, NULL, NULL, NULL, <<>>)

\* Requests of tenant t about rows of kind k that name identifiers from ids.
Creates(k, t, ids) ==
  LET ws == IF k \in {"tenant", "workspace"} THEN {NULL} ELSE ids
      ss == IF k = "connector" THEN ids ELSE {NULL}
  IN  {Request("create", k, IF k = "tenant" THEN NULL ELSE t, w, s, NULL, v) :
         w \in ws, s \in ss, v \in CreateValues(k)}

\* Rows of a workspace's singletons are named by the workspace alone.
Targets(k, t, ids) ==
  CASE k = "tenant"     -> {[w |-> NULL, i |-> t]}
    [] k \in Owned      -> {[w |-> NULL, i |-> i] : i \in ids}
    [] k \in Singleton  -> {[w |-> w, i |-> NULL] : w \in ids}
    [] k = "competitor" -> {[w |-> w, i |-> i] : w \in ids, i \in ids}

Updates(k, t, ids) ==
  {Request("update", k, t, n.w, NULL, n.i, v) : n \in Targets(k, t, ids), v \in Changes(k)}
Gets(k, t, ids)  == {Request("get", k, t, n.w, NULL, n.i, <<>>) : n \in Targets(k, t, ids)}
Lists(k, t, ids) ==
  {Request("list", k, t, w, NULL, NULL, [limit |-> l, offset |-> o]) :
     w \in (IF k = "competitor" THEN ids ELSE {NULL}), l \in Limit, o \in Offset}
Statuses(t, ids) == {Request("status", NULL, t, w, NULL, NULL, <<>>) : w \in ids}

NothingSeen == [id |-> NULL, fields |-> <<>>, items |-> 0, total |-> 0, missing |-> {}]

Goto(s, label)     == pc' = [pc EXCEPT ![s] = label]
See(s, name, what) == seen' = [seen EXCEPT ![s][name] = what]

\* The session is free: answered, refused after a rollback (404, 409, 500), or gone.
End(s) ==
  /\ Goto(s, "idle")
  /\ req'  = [req EXCEPT ![s] = NoRequest]
  /\ seen' = [seen EXCEPT ![s] = NothingSeen]
  /\ UNCHANGED tables

\* Requests whose X-Tenant-ID is not the tenant of the path are refused before.
Arrive(s, q) ==
  /\ pc[s] = "idle"
  /\ req' = [req EXCEPT ![s] = q]
  /\ Goto(s, IF q.op \in {"update", "get"} /\ q.kind \in {"tenant"} \cup Owned THEN "load"
             ELSE IF q.op = "create" /\ q.kind = "tenant" THEN "commit"
             ELSE "parent")
  /\ UNCHANGED <<tables, seen>>

-------------------------------------------------------------------------------
(* Reads *)

\* What a request checks first: the tenant, the connector's site, or the workspace.
HasParent(q) ==
  CASE q.kind = "workspace" \/ (q.op = "list" /\ q.kind \in Owned) ->
         Is(q.tenant, "tenant", q.tenant)
    [] q.op = "create" /\ q.kind = "connector" ->
         Is(q.site, "site", q.tenant) /\ rows[q.site].workspace = q.workspace
    [] OTHER -> Is(q.workspace, "workspace", q.tenant)

CheckParent(s) ==
  /\ pc[s] = "parent"
  /\ \/ /\ HasParent(req[s])
        /\ Goto(s, CASE req[s].op = "create" -> "key"
                     [] req[s].op = "list"   -> "items"
                     [] req[s].op = "status" -> "status"
                     [] OTHER                -> "load")
        /\ UNCHANGED <<tables, req, seen>>
     \/ ~HasParent(req[s]) /\ End(s)

Matching(q) ==
  {i \in DOMAIN rows :
     /\ Is(i, q.kind, q.tenant)
     /\ q.workspace # NULL => rows[i].workspace = q.workspace
     /\ q.id # NULL => i = q.id}

\* str() of a URL that was cleared; the competitor's handler leaves null alone.
Stored(f, v) == IF f = "url" /\ v = NULL THEN STR_OF_NONE ELSE v

\* The entity in the session: as created, or as read, with the supplied fields set.
Before(s) == IF req[s].op = "create"
             THEN [f \in Fields[req[s].kind] |-> IF f \in DOMAIN Default THEN Default[f] ELSE NULL]
             ELSE seen[s].fields
Entity(s) == [f \in DOMAIN Before(s) |->
                IF f \in DOMAIN req[s].values THEN Stored(f, req[s].values[f]) ELSE Before(s)[f]]

\* Mutant: every column of the row is written back as it was read.
ColumnsWholeRow(s) == DOMAIN Entity(s)

\* The columns of the UPDATE: those set to something else than was read.  With none
\* there is no UPDATE at all.
Columns(s) == {f \in DOMAIN Entity(s) : Entity(s)[f] # Before(s)[f]}

Load(s) ==
  /\ pc[s] = "load"
  /\ \/ \E i \in Matching(req[s]) :
          /\ seen' = [seen EXCEPT ![s].id = i, ![s].fields = rows[i].fields]
          /\ Goto(s, IF req[s].op = "get" THEN "answered" ELSE "flush")
          /\ UNCHANGED <<tables, req>>
     \/ Matching(req[s]) = {} /\ End(s)

OnPage(n, page) ==
  IF n <= page.offset THEN 0
  ELSE IF n - page.offset < page.limit THEN n - page.offset ELSE page.limit

\* Mutant: the total is read before the page.
ReadPageTotalFirst(s) ==
  /\ \/ /\ pc[s] = "items"
        /\ See(s, "total", Cardinality(Matching(req[s])))
        /\ Goto(s, "total")
     \/ /\ pc[s] = "total"
        /\ See(s, "items", OnPage(Cardinality(Matching(req[s])), req[s].values))
        /\ Goto(s, "answered")
  /\ UNCHANGED <<tables, req>>

\* The rows of the page, then the total: two statements.
ReadPage(s) ==
  /\ \/ /\ pc[s] = "items"
        /\ See(s, "items", OnPage(Cardinality(Matching(req[s])), req[s].values))
        /\ Goto(s, "total")
     \/ /\ pc[s] = "total"
        /\ See(s, "total", Cardinality(Matching(req[s])))
        /\ Goto(s, "answered")
  /\ UNCHANGED <<tables, req>>

Present(t, w) == {rows[i].kind : i \in {i \in DOMAIN rows : rows[i].tenant = t /\ rows[i].workspace = w}}
Steps == {"site", "profile", "goal", "policy"}

ReadStatus(s) ==
  /\ pc[s] = "status"
  /\ See(s, "missing", Steps \ Present(req[s].tenant, req[s].workspace))
  /\ Goto(s, "answered")
  /\ UNCHANGED <<tables, req>>

-------------------------------------------------------------------------------
(* Writes *)

\* The row as the request leaves it: a new one, or the committed one with the
\* columns of the UPDATE replaced.
Result(s, i) ==
  LET q == req[s]
  IN  IF q.op = "create"
      THEN Row(q.kind, IF q.kind = "tenant" THEN i ELSE q.tenant, q.workspace, q.site, Entity(s))
      ELSE [rows[i] EXCEPT !.fields =
              [f \in DOMAIN @ |-> IF f \in Columns(s) THEN Entity(s)[f] ELSE @[f]]]

ChangesKey(s) ==
  req[s].kind \in DOMAIN UniqueField /\ UniqueField[req[s].kind] \in Columns(s)

\* An UPDATE that is executed and not yet committed.
HoldsRow(o, i) ==
  /\ pc[o] \in {"key", "commit"}
  /\ req[o].op = "update" /\ Columns(o) # {}
  /\ seen[o].id = i

HoldsKey(o, key) ==
  \/ /\ pc[o] = "commit"
     /\ req[o].op = "create" \/ ChangesKey(o)
     /\ Key(Result(o, seen[o].id)) = key
  \/ \E i \in DOMAIN rows : HoldsRow(o, i) /\ Key(rows[i]) = key

\* A unique index waits for whoever has an uncommitted version of the row with the
\* key, whether it brings the key in or takes it away.
WaitsFor(s, o) ==
  /\ o # s /\ pc[s] = "key"
  /\ HoldsKey(o, Key(Result(s, seen[s].id)))

KeyTaken(s) ==
  \E i \in DOMAIN rows \ {seen[s].id} : Key(rows[i]) = Key(Result(s, seen[s].id))

\* Mutant: a conflict is tried again instead of being answered.
RefusedRetried(s) == UNCHANGED vars

\* IntegrityError: rollback, 409.
Refused(s) == End(s)

\* The flush of a PATCH: NOT NULL first, then the lock of the row.
Flush(s) ==
  /\ pc[s] = "flush"
  /\ IF \E f \in Columns(s) : Entity(s)[f] = NULL /\ f \notin Nullable
     THEN Refused(s)
     ELSE /\ Columns(s) # {} => \A o \in Session \ {s} : ~HoldsRow(o, seen[s].id)
          /\ Goto(s, IF ChangesKey(s) THEN "key" ELSE "commit")
          /\ UNCHANGED <<tables, req, seen>>

\* Mutant: rows without a unique constraint.
ClaimUnchecked(s) ==
  /\ pc[s] = "key"
  /\ Goto(s, "commit")
  /\ UNCHANGED <<tables, req, seen>>

\* An INSERT, or an UPDATE of a unique column, enters its key in the index.
Claim(s) ==
  /\ pc[s] = "key"
  /\ \A o \in Session : ~WaitsFor(s, o)
  /\ IF KeyTaken(s) \/ ~References(Result(s, seen[s].id))
     THEN Refused(s)
     ELSE Goto(s, "commit") /\ UNCHANGED <<tables, req, seen>>

\* Requests that wait for each other: the database breaks off one of them with an
\* error that is no IntegrityError, answered with 500.
Deadlocked(s) ==
  \E D \in SUBSET Session :
    /\ s \in D
    /\ \A d \in D : /\ \E o \in D : WaitsFor(d, o)
                   /\ \E o \in D : WaitsFor(o, d)

BreakDeadlock(s) == Deadlocked(s) /\ End(s)

Event(s, i) == [id |-> i, type |-> req[s].op, fields |-> DOMAIN req[s].values]

\* The transaction commits: the row and, for what is audited, its event.
Commit(s) ==
  /\ pc[s] = "commit"
  /\ \E i \in (IF req[s].op = "create" THEN Id \ DOMAIN rows ELSE {seen[s].id}) :
       /\ rows' = [j \in DOMAIN rows \cup {i} |-> IF j = i THEN Result(s, i) ELSE rows[j]]
       /\ audit' = IF req[s].kind \in Audited THEN Append(audit, Event(s, i)) ELSE audit
  /\ Goto(s, "refresh")
  /\ UNCHANGED <<req, seen>>

\* The refresh after the commit only fills the answer; a failure there answers 500
\* for what is done.
Respond(s) == pc[s] \in {"refresh", "answered"} /\ End(s)

\* The client disconnects, the process dies or the database fails.
Abort(s) == pc[s] # "idle" /\ End(s)

-------------------------------------------------------------------------------
(* Specification *)

Init ==
  /\ rows  = <<>>
  /\ audit = <<>>
  /\ pc    = [s \in Session |-> "idle"]
  /\ req   = [s \in Session |-> NoRequest]
  /\ seen  = [s \in Session |-> NothingSeen]

ArriveAny(s) ==
  \E t \in Id :
    \/ \E k \in Kind :
         \E q \in Creates(k, t, Id) \cup Updates(k, t, Id) \cup Gets(k, t, Id) \cup Lists(k, t, Id) :
           Arrive(s, q)
    \/ \E q \in Statuses(t, Id) : Arrive(s, q)

Step(s) ==
  \/ CheckParent(s) \/ Load(s) \/ ReadPage(s) \/ ReadStatus(s)
  \/ Flush(s) \/ Claim(s) \/ BreakDeadlock(s) \/ Commit(s) \/ Respond(s)

Next == \E s \in Session : ArriveAny(s) \/ Step(s) \/ Abort(s)

Spec == Init /\ [][Next]_vars

\* A session that can go on does: lock waiters are served in order, and the database
\* looks for deadlocks.
Fairness == \A s \in Session : SF_vars(Step(s))

-------------------------------------------------------------------------------
(* Properties *)

\* Overlapping creates and renames never leave two rows with one unique key, a row
\* without its required fields, or one whose tenant, workspace and site do not
\* belong together.
TablesConsistent ==
  \A i \in DOMAIN rows :
    /\ References(rows[i])
    /\ \A j \in DOMAIN rows \ {i} : Key(rows[i]) # Key(rows[j])
    /\ \A f \in Fields[rows[i].kind] \ Nullable : rows[i].fields[f] # NULL

ChangedFields(i) ==
  IF i \in DOMAIN rows
  THEN {f \in DOMAIN rows[i].fields : rows'[i].fields[f] # rows[i].fields[f]}
  ELSE {}

RowsChangeAsAsked ==
  \A i \in DOMAIN rows' : (i \in DOMAIN rows => rows'[i] # rows[i]) =>
    /\ \E s \in Session : pc[s] = "commit" /\ ChangedFields(i) \subseteq DOMAIN req[s].values
    /\ \A j \in DOMAIN rows \ {i} : rows'[j] = rows[j]
    /\ rows'[i].kind \in Audited =>
         /\ Len(audit') = Len(audit) + 1
         /\ audit'[Len(audit')].id = i
         /\ ChangedFields(i) \subseteq audit'[Len(audit')].fields

EventsTellWrites ==
  audit' # audit =>
    LET event == audit'[Len(audit')]
    IN  /\ audit' = Append(audit, event)
        /\ event.type = "create" <=> event.id \notin DOMAIN rows
        /\ event.id \in DOMAIN rows' /\ rows'[event.id].kind \in Audited

\* What another request commits between the reading and the writing of a PATCH
\* survives, unless the PATCH supplies that very field: a step changes one row, in
\* the supplied fields only; and a change of what is audited comes with exactly one
\* event, which names the row and every field that changed.
ChangesAccounted == [][RowsChangeAsAsked /\ EventsTellWrites]_vars

\* A request changes no row of another tenant, whatever identifiers it names.
TenantIsolation ==
  [][\A i \in DOMAIN rows : rows'[i] # rows[i] =>
       \E s \in Session : pc'[s] # pc[s] /\ req[s].tenant = rows[i].tenant]_vars

\* What was read stays true while the answer is on its way, although its parts were
\* read at different times: a page that shows rows never reaches beyond its total,
\* and a workspace reported complete has its site, profile, goal and policy.
ReadsHold ==
  \A s \in Session : pc[s] = "answered" =>
    /\ req[s].op = "list" /\ seen[s].items > 0 =>
         req[s].values.offset + seen[s].items <= seen[s].total
    /\ req[s].op = "status" =>
         Steps \ seen[s].missing \subseteq Present(req[s].tenant, req[s].workspace)

\* Every request comes to an end, renames that wait for each other's old names
\* included.
RequestsEnd == \A s \in Session : pc[s] # "idle" ~> pc[s] = "idle"
===============================================================================
