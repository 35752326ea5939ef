--------------------------- MODULE FoundationProofs ---------------------------
(***************************************************************************)
(* Proofs about Foundation for any number of sessions, tenants and rows:   *)
(* the unique keys and references of the tables hold, a PATCH changes what *)
(* it names in rows of its own tenant only, and what was read stays true.  *)
(***************************************************************************)
EXTENDS Foundation, FiniteSetTheorems, SequenceTheorems, TLAPS

Value  == Text \cup {NULL, STR_OF_NONE, "member", "admin", "not_configured", "connected",
                     "true", "false"}
Named  == Id \cup {NULL}
Labels == {"idle", "parent", "load", "items", "total", "status", "flush", "key", "commit",
           "refresh", "answered"}

FieldsOf(k) == [Fields[k] -> Value]
SomeFields  == {<<>>} \cup UNION {FieldsOf(k) : k \in Kind}

RowType   == [kind : Kind, tenant : Id, workspace : Named, site : Named, fields : SomeFields]
SeenType  == [id : Named, fields : SomeFields, items : Nat, total : Nat, missing : SUBSET Steps]
EventType == [id : Id, type : {"create", "update"}, fields : SUBSET AllFields]

TypeOK ==
  /\ rows \in [DOMAIN rows -> RowType]
  /\ DOMAIN rows \subseteq Id /\ IsFiniteSet(DOMAIN rows)
  /\ \A i \in DOMAIN rows : rows[i].fields \in FieldsOf(rows[i].kind)
  /\ audit \in Seq(EventType)
  /\ pc \in [Session -> Labels]
  /\ DOMAIN req = Session
  /\ seen \in [Session -> SeenType]

\* A tenant's row names itself.
TenantRows == \A i \in DOMAIN rows : rows[i].kind = "tenant" => rows[i].tenant = i

\* What the schema and the router let through.
Asked(q) ==
  /\ q.op \in {"create", "update", "get", "list", "status"}
  /\ q.workspace \in Named /\ q.site \in Named
  /\ q.op \in {"create", "update"} =>
       /\ q.kind \in Kind
       /\ DOMAIN q.values \subseteq Fields[q.kind]
       /\ \A f \in DOMAIN q.values : q.values[f] \in Value
  /\ q.op = "create" =>
       /\ IF q.kind = "tenant" THEN q.workspace = NULL /\ q.site = NULL ELSE q.tenant \in Id
       /\ \A f \in Fields[q.kind] \ (Nullable \cup DOMAIN Default) : f \in DOMAIN q.values
       /\ \A f \in DOMAIN q.values : q.values[f] = NULL => f \in Nullable
  /\ q.op = "list" => q.values.limit \in Nat \ {0} /\ q.values.offset \in Nat

\* The row a PATCH works on is there and is the tenant's.
Loaded(s) ==
  /\ Is(seen[s].id, req[s].kind, req[s].tenant)
  /\ seen[s].fields \in FieldsOf(req[s].kind)

\* What holds of a session by where it stands.
Stage(s) ==
  /\ pc[s] # "idle" => Asked(req[s])
  /\ pc[s] = "idle" \/ req[s].op = "create" => seen[s].id = NULL
  /\ pc[s] \in {"parent", "key"} /\ req[s].op = "create" => req[s].kind # "tenant"
  /\ pc[s] = "load" => req[s].op \in {"update", "get"}
  /\ pc[s] \in {"items", "total"} => req[s].op = "list"
  /\ pc[s] = "status" => req[s].op = "status"
  /\ pc[s] = "flush" => req[s].op = "update"
  /\ pc[s] \in {"key", "commit"} => req[s].op \in {"create", "update"}
  /\ pc[s] \in {"flush", "key", "commit"} /\ req[s].op = "update" => Loaded(s)
  /\ pc[s] \in {"key", "commit"} /\ req[s].op = "update" =>
       \A f \in Columns(s) : Entity(s)[f] = NULL => f \in Nullable
  /\ pc[s] = "key" /\ req[s].op = "update" => ChangesKey(s)

\* The row a request will leave, and whether it has entered a key for it.
Aim(s)    == Result(s, seen[s].id)
Claims(s) ==
  /\ pc[s] = "commit"
  /\ \/ req[s].op = "create" /\ req[s].kind # "tenant"
     \/ req[s].op = "update" /\ ChangesKey(s)

\* A key that was free when it was entered is free until the commit.
Standing(s) ==
  Claims(s) =>
    /\ req[s].op = "create" => References(Aim(s))
    /\ \A i \in DOMAIN rows \ {seen[s].id} : Key(rows[i]) # Key(Aim(s))

\* Two sessions have no row and no key in common.
Apart(s, o) ==
  /\ \A i \in Id : ~(HoldsRow(s, i) /\ HoldsRow(o, i))
  /\ Claims(s) /\ Claims(o) => Key(Aim(s)) # Key(Aim(o))

Reading(s) ==
  /\ pc[s] = "total" /\ seen[s].items > 0 =>
       req[s].values.offset + seen[s].items <= Cardinality(Matching(req[s]))
  /\ pc[s] = "answered" /\ req[s].op = "list" /\ seen[s].items > 0 =>
       req[s].values.offset + seen[s].items <= seen[s].total
  /\ pc[s] = "answered" /\ req[s].op = "status" =>
       Steps \ seen[s].missing \subseteq Present(req[s].tenant, req[s].workspace)

Alone(s) == Stage(s) /\ Standing(s) /\ Reading(s)

Inv ==
  /\ TypeOK /\ TenantRows /\ TablesConsistent
  /\ \A s \in Session : Alone(s)
  /\ \A s \in Session : \A o \in Session \ {s} : Apart(s, o)

-------------------------------------------------------------------------------
(* Requests *)

LEMMA OrNullFacts ==
  ASSUME NEW f
  PROVE  OrNull(f) \subseteq Value /\ (NULL \in OrNull(f) => f \in Nullable)
  BY FoundationAssumption DEF OrNull, Values, Value, NULL

LEMMA UniqueFieldsAreFields ==
  \A k \in DOMAIN UniqueField : k \in Kind /\ UniqueField[k] \in Fields[k]
  BY DEF UniqueField, Fields, Kind, Owned, Audited

LEMMA CreateValuesFacts ==
  ASSUME NEW k \in Kind, NEW v \in CreateValues(k)
  PROVE  /\ DOMAIN v \subseteq Fields[k]
         /\ \A f \in DOMAIN v : v[f] \in Value /\ (v[f] = NULL => f \in Nullable)
         /\ \A f \in Fields[k] \ (Nullable \cup DOMAIN Default) : f \in DOMAIN v
<1>1. PICK fs \in SUBSET (Fields[k] \ {"status"}) :
        /\ {f \in Fields[k] : f \notin Nullable \cup DOMAIN Default} \subseteq fs
        /\ v \in Assignments(fs, OrNull)
  BY DEF CreateValues
<1>2. DOMAIN v = fs /\ \A f \in fs : v[f] \in OrNull(f)
  BY <1>1 DEF Assignments
<1> QED
  BY <1>1, <1>2, OrNullFacts

LEMMA ChangesFacts ==
  ASSUME NEW k \in Kind, NEW v \in Changes(k)
  PROVE  DOMAIN v \subseteq Fields[k] /\ \A f \in DOMAIN v : v[f] \in Value
<1>1. CASE k = "site"
  <2>1. PICK fs \in SUBSET (Fields[k] \ Immutable) : v \in Assignments(fs, OrNullSite)
    BY <1>1 DEF Changes
  <2>2. DOMAIN v = fs /\ \A f \in fs : v[f] \in OrNullSite(f)
    BY <2>1 DEF Assignments
  <2>3. \A f : OrNullSite(f) \subseteq Value
    BY DEF OrNullSite, Values, Value
  <2> QED
    BY <2>1, <2>2, <2>3
<1>2. CASE k # "site"
  <2>1. PICK fs \in SUBSET (Fields[k] \ Immutable) : v \in Assignments(fs, OrNull)
    BY <1>2 DEF Changes
  <2>2. DOMAIN v = fs /\ \A f \in fs : v[f] \in OrNull(f)
    BY <2>1 DEF Assignments
  <2> QED
    BY <2>1, <2>2, OrNullFacts
<1> QED
  BY <1>1, <1>2

\* Every request that arrives is one the schema lets through.
LEMMA ArrivalsAreAsked ==
  ASSUME NEW s \in Session, ArriveAny(s)
  PROVE  \E q : Asked(q) /\ Arrive(s, q)
<1>1. PICK t \in Id :
        \/ \E k \in Kind :
             \E q \in Creates(k, t, Id) \cup Updates(k, t, Id) \cup Gets(k, t, Id) \cup Lists(k, t, Id) :
               Arrive(s, q)
        \/ \E q \in Statuses(t, Id) : Arrive(s, q)
  BY DEF ArriveAny
<1>2. \A k \in Kind : \A q \in Creates(k, t, Id) : Asked(q)
  <2> SUFFICES ASSUME NEW k \in Kind, NEW q \in Creates(k, t, Id) PROVE Asked(q)
    OBVIOUS
  <2>1. PICK w \in Named, x \in Named, v \in CreateValues(k) :
          /\ q = Request("create", k, IF k = "tenant" THEN NULL ELSE t, w, x, NULL, v)
          /\ k = "tenant" => w = NULL /\ x = NULL
    BY DEF Creates, Named
  <2> QED
    BY <2>1, CreateValuesFacts DEF Asked, Request
<1>3. \A k \in Kind : \A n \in Targets(k, t, Id) : n.w \in Named /\ n.i \in Named
  BY DEF Targets, Named, Kind, Audited
<1>4. \A k \in Kind : \A q \in Updates(k, t, Id) : Asked(q)
  <2> SUFFICES ASSUME NEW k \in Kind, NEW q \in Updates(k, t, Id) PROVE Asked(q)
    OBVIOUS
  <2>1. PICK n \in Targets(k, t, Id), v \in Changes(k) :
          q = Request("update", k, t, n.w, NULL, n.i, v)
    BY DEF Updates
  <2> QED
    BY <2>1, <1>3, ChangesFacts DEF Asked, Request, Named
<1>5. \A k \in Kind : \A q \in Gets(k, t, Id) : Asked(q)
  BY <1>3 DEF Gets, Asked, Request, Named
<1>6. \A k \in Kind : \A q \in Lists(k, t, Id) : Asked(q)
  BY FoundationAssumption DEF Lists, Asked, Request, Named
<1>7. \A q \in Statuses(t, Id) : Asked(q)
  BY DEF Statuses, Asked, Request, Named
<1> QED
  BY <1>1, <1>2, <1>4, <1>5, <1>6, <1>7
-------------------------------------------------------------------------------
(* The entity of a session *)

LEMMA Distinct ==
  /\ NULL \notin Id /\ NULL \notin Text /\ STR_OF_NONE # NULL
  /\ "tenant" \notin DOMAIN UniqueField
  BY FoundationAssumption DEF NULL, STR_OF_NONE, UniqueField

\* The entity of a write has the fields of its kind, each with a value.
LEMMA EntityType ==
  ASSUME Inv, NEW s \in Session, pc[s] \in {"flush", "key", "commit"}
  PROVE  /\ req[s].kind \in Kind
         /\ Entity(s) \in FieldsOf(req[s].kind)
         /\ DOMAIN Before(s) = Fields[req[s].kind]
         /\ Columns(s) \subseteq Fields[req[s].kind]
         /\ Columns(s) \subseteq DOMAIN req[s].values \cup
              (IF req[s].op = "create" THEN Fields[req[s].kind] ELSE {})
<1> DEFINE k == req[s].kind
<1>1. /\ k \in Kind /\ req[s].op \in {"create", "update"}
      /\ DOMAIN req[s].values \subseteq Fields[k]
      /\ \A f \in DOMAIN req[s].values : req[s].values[f] \in Value
      /\ req[s].op = "update" => Loaded(s)
  BY DEF Inv, Alone, Stage, Asked
<1>2. Before(s) \in FieldsOf(k)
  <2>1. CASE req[s].op = "create"
    <3>1. \A f \in DOMAIN Default : Default[f] \in Value
      BY DEF Default, Value
    <3>2. NULL \in Value
      BY DEF Value
    <3> QED
      BY <2>1, <3>1, <3>2 DEF Before, FieldsOf
  <2>2. CASE req[s].op # "create"
    BY <1>1, <2>2 DEF Before, Loaded
  <2> QED
    BY <2>1, <2>2
<1>3. \A f, v : v \in Value => Stored(f, v) \in Value
  BY DEF Stored, Value
<1>4. DOMAIN Before(s) = Fields[k] /\ \A f \in Fields[k] : Before(s)[f] \in Value
  BY <1>2 DEF FieldsOf
<1>5. Entity(s) \in FieldsOf(k)
  BY <1>1, <1>3, <1>4 DEF Entity, FieldsOf
<1>6. \A f \in Columns(s) : f \in Fields[k] /\ Entity(s)[f] # Before(s)[f]
  BY <1>5 DEF Columns, FieldsOf
<1>7. \A f \in Fields[k] : f \notin DOMAIN req[s].values => Entity(s)[f] = Before(s)[f]
  BY <1>4 DEF Entity
<1> QED
  BY <1>1, <1>4, <1>5, <1>6, <1>7

-------------------------------------------------------------------------------
(* What one session does leaves the others where they stand *)

Still(o) == pc'[o] = pc[o] /\ req'[o] = req[o] /\ seen'[o] = seen[o]
Moves(s) ==
  /\ pc' \in [Session -> Labels] /\ DOMAIN req' = Session /\ seen' \in [Session -> SeenType]
  /\ \A o \in Session \ {s} : Still(o)

LEMMA SameEntity ==
  ASSUME NEW o \in Session, req'[o] = req[o], seen'[o] = seen[o]
  PROVE  /\ Before(o)' = Before(o) /\ Entity(o)' = Entity(o)
         /\ Columns(o)' = Columns(o) /\ ChangesKey(o)' = ChangesKey(o)
<1>1. Before(o)' = Before(o)
  BY DEF Before
<1>2. Entity(o)' = Entity(o)
  BY <1>1 DEF Entity
<1>3. Columns(o)' = Columns(o)
  BY <1>1, <1>2 DEF Columns
<1>4. ChangesKey(o)' = ChangesKey(o)
  BY <1>3 DEF ChangesKey
<1> QED
  BY <1>1, <1>2, <1>3, <1>4

LEMMA StillEntity ==
  ASSUME NEW o \in Session, Still(o)
  PROVE  /\ Before(o)' = Before(o) /\ Entity(o)' = Entity(o)
         /\ Columns(o)' = Columns(o) /\ ChangesKey(o)' = ChangesKey(o)
         /\ Claims(o)' = Claims(o)
         /\ \A i : HoldsRow(o, i)' = HoldsRow(o, i)
<1>1. /\ Before(o)' = Before(o) /\ Entity(o)' = Entity(o)
      /\ Columns(o)' = Columns(o) /\ ChangesKey(o)' = ChangesKey(o)
  BY SameEntity DEF Still
<1>2. Claims(o)' = Claims(o)
  BY <1>1 DEF Still, Claims
<1>3. \A i : HoldsRow(o, i)' = HoldsRow(o, i)
  BY <1>1 DEF Still, HoldsRow
<1> QED
  BY <1>1, <1>2, <1>3

LEMMA StillAlone ==
  ASSUME NEW o \in Session, Still(o), UNCHANGED tables, Alone(o)
  PROVE  Alone(o)' /\ Aim(o)' = Aim(o)
<1>1. \A i, k, t : Is(i, k, t)' = Is(i, k, t)
  BY DEF tables, Is
<1>2. Aim(o)' = Aim(o)
  BY StillEntity DEF tables, Still, Aim, Result
<1>3. Stage(o)'
  <2>1. Loaded(o)' = Loaded(o)
    BY <1>1 DEF Still, Loaded
  <2> QED
    BY <2>1, StillEntity DEF Alone, Stage, Still
<1>4. References(Aim(o))' = References(Aim(o)) /\ Key(Aim(o))' = Key(Aim(o))
  BY <1>1, <1>2 DEF References, Key, tables
<1>5. Standing(o)'
  BY <1>2, <1>4, StillEntity DEF Alone, Standing, Still, Key, tables
<1>6. Matching(req[o])' = Matching(req[o]) /\ \A t, w : Present(t, w)' = Present(t, w)
  BY <1>1 DEF Still, Matching, Present, tables
<1>7. Reading(o)'
  BY <1>6 DEF Alone, Reading, Still
<1> QED
  BY <1>2, <1>3, <1>5, <1>7 DEF Alone
\* A step of s that writes nothing keeps Inv if s is left in order and apart.
LEMMA Quiet ==
  ASSUME Inv, NEW s \in Session, Moves(s), UNCHANGED tables,
         Alone(s)', \A o \in Session \ {s} : Apart(s, o)'
  PROVE  Inv'
<1>1. TypeOK'
  BY DEF Inv, TypeOK, tables, Moves
<1>2. TenantRows'
  BY DEF Inv, TenantRows, tables
<1>3. TablesConsistent'
  <2>1. \A i, k, t : Is(i, k, t)' = Is(i, k, t)
    BY DEF tables, Is
  <2>2. \A i \in DOMAIN rows : References(rows[i])' = References(rows[i]) /\ Key(rows[i])' = Key(rows[i])
    BY <2>1 DEF References, Key, tables
  <2> QED
    BY <2>2 DEF Inv, TablesConsistent, tables
<1>4. \A o \in Session \ {s} : Still(o)
  BY DEF Moves
<1>5. \A o \in Session : Alone(o)'
  BY <1>4, StillAlone DEF Inv
<1>6. ASSUME NEW o \in Session \ {s}, NEW p \in Session \ {s, o} PROVE Apart(o, p)'
  <2>1. Aim(o)' = Aim(o) /\ Aim(p)' = Aim(p)
    BY <1>4, StillAlone DEF Inv
  <2>2. Key(Aim(o))' = Key(Aim(o)) /\ Key(Aim(p))' = Key(Aim(p))
    BY <2>1 DEF Key
  <2>3. Apart(o, p)
    BY DEF Inv
  <2> QED
    BY <1>4, <2>2, <2>3, StillEntity DEF Apart
<1>7. \A o \in Session \ {s} : Apart(o, s)'
  BY DEF Apart
<1> QED
  BY <1>1, <1>2, <1>3, <1>5, <1>6, <1>7 DEF Inv

\* A session that holds nothing is apart from every other.
LEMMA HoldsNothing ==
  ASSUME NEW s \in Session, NEW o \in Session,
         pc[s] \notin {"key", "commit"} \/ (req[s].op = "create" /\ ~Claims(s))
  PROVE  Apart(s, o)
  BY DEF Apart, HoldsRow, Claims

LEMMA EndKeeps ==
  ASSUME Inv, NEW s \in Session, End(s)
  PROVE  Inv'
<1>1. NothingSeen \in SeenType
  BY DEF NothingSeen, SeenType, Named, SomeFields
<1>2. pc'[s] = "idle" /\ seen'[s] = NothingSeen
  BY DEF End, Goto, Inv, TypeOK
<1>3. Alone(s)'
  BY <1>2 DEF Alone, Stage, Standing, Claims, Reading, NothingSeen
<1>4. \A o \in Session : Apart(s, o)'
  BY <1>2, HoldsNothing DEF Apart, HoldsRow, Claims
<1>5. Moves(s)
  BY <1>1 DEF End, Goto, Labels, Moves, Still, Inv, TypeOK
<1> QED
  BY <1>3, <1>4, <1>5, Quiet DEF End

LEMMA ArriveKeeps ==
  ASSUME Inv, NEW s \in Session, NEW q, Asked(q), Arrive(s, q)
  PROVE  Inv'
<1> DEFINE l == pc'[s]
<1>1. /\ Moves(s)
      /\ l \in {"load", "commit", "parent"} /\ req'[s] = q /\ seen'[s] = seen[s]
      /\ l = "load" => q.op \in {"update", "get"}
      /\ l = "commit" <=> q.op = "create" /\ q.kind = "tenant"
  BY DEF Arrive, Goto, Inv, TypeOK, Moves, Still, Labels
<1>2. seen[s].id = NULL
  BY DEF Inv, Alone, Stage, Arrive
<1>3. Claims(s)' <=> FALSE
  BY <1>1 DEF Claims
<1>4. Asked(req[s])'
  BY <1>1 DEF Asked
<1>5. Stage(s)'
  BY <1>1, <1>2, <1>4 DEF Stage
<1>6. Alone(s)'
  BY <1>1, <1>3, <1>5 DEF Alone, Standing, Reading
<1>7. \A o \in Session : Apart(s, o)'
  BY <1>1, <1>3 DEF Apart, HoldsRow
<1> QED
  BY <1>1, <1>6, <1>7, Quiet DEF Arrive

-------------------------------------------------------------------------------
(* Reads *)

LEMMA CheckParentKeeps ==
  ASSUME Inv, NEW s \in Session, CheckParent(s)
  PROVE  Inv'
<1>1. CASE End(s)
  BY <1>1, EndKeeps
<1>2. CASE ~End(s)
  <2> DEFINE l == pc'[s]
  <2>1. /\ pc' = [pc EXCEPT ![s] = l] /\ UNCHANGED <<tables, req, seen>>
        /\ l = CASE req[s].op = "create" -> "key"
                 [] req[s].op = "list"   -> "items"
                 [] req[s].op = "status" -> "status"
                 [] OTHER                -> "load"
    BY <1>2 DEF CheckParent, Goto, Inv, TypeOK
  <2>2. /\ req[s].op = "create" => l = "key"
        /\ req[s].op = "list" => l = "items"
        /\ req[s].op = "status" => l = "status"
        /\ req[s].op \in {"update", "get"} => l = "load"
    BY <2>1
  <2>3. Stage(s) /\ pc[s] = "parent"
    BY <1>2 DEF Inv, Alone, CheckParent
  <2>4. req[s].op \in {"create", "update", "get", "list", "status"} /\ Asked(req[s])
    BY <2>3 DEF Stage, Asked
  <2>5. l \in {"key", "items", "status", "load"} /\ Asked(req[s])'
    BY <2>1, <2>2, <2>4
  <2>6. Stage(s)'
    BY <2>1, <2>2, <2>3, <2>4, <2>5 DEF Stage
  <2>7. ~Claims(s)'
    BY <2>5 DEF Claims
  <2>8. Alone(s)'
    BY <2>5, <2>6, <2>7 DEF Alone, Standing, Reading
  <2>9. \A o \in Session : Apart(s, o)'
    BY <2>1, <2>2, <2>4, <2>7 DEF Apart, HoldsRow
  <2>10. Moves(s)
    BY <2>1, <2>5 DEF Moves, Still, Labels, Inv, TypeOK
  <2> QED
    BY <2>1, <2>8, <2>9, <2>10, Quiet
<1> QED
  BY <1>1, <1>2

LEMMA LoadKeeps ==
  ASSUME Inv, NEW s \in Session, Load(s)
  PROVE  Inv'
<1>1. CASE End(s)
  BY <1>1, EndKeeps
<1>2. CASE ~End(s)
  <2>1. PICK i \in Matching(req[s]) :
          /\ seen' = [seen EXCEPT ![s].id = i, ![s].fields = rows[i].fields]
          /\ Goto(s, IF req[s].op = "get" THEN "answered" ELSE "flush")
          /\ UNCHANGED <<tables, req>>
    BY <1>2 DEF Load
  <2> DEFINE l == pc'[s]
             v == seen'[s]
  <2>2. /\ i \in DOMAIN rows /\ i \in Id /\ Is(i, req[s].kind, req[s].tenant)
        /\ rows[i].fields \in FieldsOf(req[s].kind) /\ rows[i].fields \in SomeFields
    BY DEF Matching, Is, Inv, TypeOK, RowType
  <2>3. /\ v = [seen[s] EXCEPT !.id = i, !.fields = rows[i].fields]
        /\ seen' = [seen EXCEPT ![s] = v] /\ seen[s] \in SeenType
    BY <2>1 DEF Inv, TypeOK
  <2>4. v \in SeenType /\ v.id = i /\ v.fields = rows[i].fields
    BY <2>2, <2>3 DEF SeenType, Named
  <2>5. /\ pc' = [pc EXCEPT ![s] = l] /\ req' = req
        /\ l = IF req[s].op = "get" THEN "answered" ELSE "flush"
    BY <2>1 DEF Goto, Inv, TypeOK
  <2>6. Stage(s) /\ pc[s] = "load" /\ req[s].op \in {"update", "get"} /\ Asked(req[s])
    BY <1>2 DEF Inv, Alone, Stage, Load
  <2>7. Loaded(s)'
    <3>1. Is(seen[s].id, req[s].kind, req[s].tenant)'
      BY <2>1, <2>2, <2>4 DEF Is, tables
    <3> QED
      BY <2>1, <2>2, <2>4, <3>1 DEF Loaded
  <2>8. Stage(s)'
    BY <2>1, <2>5, <2>6, <2>7 DEF Stage
  <2>9. ~Claims(s)' /\ Alone(s)'
    BY <2>1, <2>5, <2>6, <2>8 DEF Alone, Standing, Reading, Claims
  <2>10. \A o \in Session : Apart(s, o)'
    BY <2>5, <2>9 DEF Apart, HoldsRow
  <2>11. Moves(s)
    BY <2>3, <2>4, <2>5 DEF Moves, Still, Labels, Inv, TypeOK
  <2> QED
    BY <2>1, <2>9, <2>10, <2>11, Quiet
<1> QED
  BY <1>1, <1>2

LEMMA PageFits ==
  ASSUME NEW n \in Nat, NEW page, page.limit \in Nat \ {0}, page.offset \in Nat
  PROVE  /\ OnPage(n, page) \in Nat
         /\ OnPage(n, page) > 0 => page.offset + OnPage(n, page) <= n
  BY DEF OnPage

LEMMA MatchingFinite ==
  ASSUME TypeOK, NEW q
  PROVE  IsFiniteSet(Matching(q)) /\ Cardinality(Matching(q)) \in Nat
<1>1. IsFiniteSet(DOMAIN rows) /\ Matching(q) \subseteq DOMAIN rows
  BY DEF TypeOK, Matching
<1> QED
  BY <1>1, FS_Subset, FS_CardinalityType

LEMMA ReadPageKeeps ==
  ASSUME Inv, NEW s \in Session, ReadPage(s)
  PROVE  Inv'
<1> DEFINE l == pc'[s]
           v == seen'[s]
           n == Cardinality(Matching(req[s]))
           page == req[s].values
<1>1. Stage(s) /\ Reading(s) /\ pc[s] \in {"items", "total"} /\ Asked(req[s]) /\ req[s].op = "list"
  BY DEF Inv, Alone, Stage, ReadPage
<1>2. n \in Nat /\ page.limit \in Nat \ {0} /\ page.offset \in Nat
  BY <1>1, MatchingFinite DEF Inv, Asked
<1>3. OnPage(n, page) \in Nat /\ (OnPage(n, page) > 0 => page.offset + OnPage(n, page) <= n)
  BY <1>2, PageFits
<1>4. /\ pc' = [pc EXCEPT ![s] = l] /\ seen' = [seen EXCEPT ![s] = v]
      /\ UNCHANGED <<tables, req>> /\ seen[s] \in SeenType
  BY DEF ReadPage, See, Goto, Inv, TypeOK
<1>5. \/ l = "total" /\ pc[s] = "items" /\ v = [seen[s] EXCEPT !.items = OnPage(n, page)]
      \/ l = "answered" /\ pc[s] = "total" /\ v = [seen[s] EXCEPT !.total = n]
  BY DEF ReadPage, See, Goto, Inv, TypeOK
<1>6. v \in SeenType
  BY <1>2, <1>3, <1>4, <1>5 DEF SeenType
<1>7. Stage(s)'
  BY <1>1, <1>4, <1>5 DEF Stage
<1>8. Reading(s)'
  <2>1. Cardinality(Matching(req[s]))' = n
    BY <1>4 DEF tables, Matching, Is
  <2>2. CASE l = "total"
    <3>1. v.items = OnPage(n, page)
      BY <1>4, <1>5, <2>2 DEF SeenType
    <3> QED
      BY <1>3, <1>4, <2>1, <2>2, <3>1 DEF Reading
  <2>3. CASE l = "answered"
    <3>1. v.items = seen[s].items /\ v.total = n /\ pc[s] = "total"
      BY <1>4, <1>5, <2>3 DEF SeenType
    <3> QED
      BY <1>1, <1>4, <2>3, <3>1 DEF Reading
  <2> QED
    BY <1>5, <2>2, <2>3
<1>9. ~Claims(s)' /\ Alone(s)'
  BY <1>5, <1>7, <1>8 DEF Alone, Standing, Claims
<1>10. \A o \in Session : Apart(s, o)'
  BY <1>5, <1>9 DEF Apart, HoldsRow
<1>11. Moves(s)
  BY <1>4, <1>5, <1>6 DEF Moves, Still, Labels, Inv, TypeOK
<1> QED
  BY <1>4, <1>9, <1>10, <1>11, Quiet

LEMMA ReadStatusKeeps ==
  ASSUME Inv, NEW s \in Session, ReadStatus(s)
  PROVE  Inv'
<1> DEFINE v == seen'[s]
           there == Present(req[s].tenant, req[s].workspace)
<1>1. Stage(s) /\ pc[s] = "status" /\ Asked(req[s]) /\ req[s].op = "status"
  BY DEF Inv, Alone, Stage, ReadStatus
<1>2. /\ pc' = [pc EXCEPT ![s] = "answered"] /\ seen' = [seen EXCEPT ![s] = v]
      /\ UNCHANGED <<tables, req>>
      /\ v = [seen[s] EXCEPT !.missing = Steps \ there] /\ seen[s] \in SeenType
  BY DEF ReadStatus, See, Goto, Inv, TypeOK
<1>3. v \in SeenType /\ v.missing = Steps \ there
  BY <1>2 DEF SeenType
<1>4. pc'[s] = "answered" /\ req'[s] = req[s]
  BY <1>2 DEF Inv, TypeOK
<1>5. Stage(s)'
  BY <1>1, <1>4 DEF Stage
<1>6. Present(req[s].tenant, req[s].workspace)' = there
  BY <1>2 DEF tables, Present
<1>7. Alone(s)'
  BY <1>1, <1>3, <1>4, <1>5, <1>6 DEF Alone, Standing, Claims, Reading
<1>8. \A o \in Session : Apart(s, o)'
  BY <1>4 DEF Apart, HoldsRow, Claims
<1>9. Moves(s)
  BY <1>2, <1>3 DEF Moves, Still, Labels, Inv, TypeOK
<1> QED
  BY <1>2, <1>7, <1>8, <1>9, Quiet
-------------------------------------------------------------------------------
(* Flush and Claim *)

LEMMA FlushKeeps ==
  ASSUME Inv, NEW s \in Session, Flush(s)
  PROVE  Inv'
<1>1. CASE \E f \in Columns(s) : Entity(s)[f] = NULL /\ f \notin Nullable
  BY <1>1, EndKeeps DEF Flush, Refused
<1>2. CASE ~\E f \in Columns(s) : Entity(s)[f] = NULL /\ f \notin Nullable
  <2> DEFINE l == IF ChangesKey(s) THEN "key" ELSE "commit"
  <2>1. /\ pc' = [pc EXCEPT ![s] = l] /\ UNCHANGED <<tables, req, seen>>
        /\ Columns(s) # {} => \A o \in Session \ {s} : ~HoldsRow(o, seen[s].id)
    BY <1>2 DEF Flush, Goto
  <2>2. Moves(s) /\ pc'[s] = l
    BY <2>1 DEF Moves, Still, Labels, Inv, TypeOK
  <2>3. /\ Columns(s)' = Columns(s) /\ ChangesKey(s)' = ChangesKey(s) /\ Entity(s)' = Entity(s)
    BY <2>1, SameEntity
  <2>4. Stage(s) /\ pc[s] = "flush" /\ req[s].op = "update" /\ Loaded(s)
    BY DEF Inv, Alone, Stage, Flush
  <2>5. Loaded(s)'
    BY <2>1, <2>4 DEF Loaded, Is, tables
  <2>6. Stage(s)'
    BY <1>2, <2>1, <2>2, <2>3, <2>4, <2>5 DEF Stage
  <2>7. ~Claims(s)'
    BY <2>1, <2>2, <2>3, <2>4 DEF Claims
  <2>8. Alone(s)'
    BY <2>2, <2>6, <2>7 DEF Alone, Standing, Reading
  <2>9. ASSUME NEW o \in Session \ {s} PROVE Apart(s, o)'
    <3>1. \A i : HoldsRow(o, i)' = HoldsRow(o, i)
      BY <2>2, StillEntity DEF Moves
    <3>2. \A i \in Id : ~(HoldsRow(s, i) /\ HoldsRow(o, i))'
      BY <2>1, <2>3, <3>1 DEF HoldsRow
    <3> QED
      BY <2>7, <3>2 DEF Apart
  <2> QED
    BY <2>1, <2>2, <2>8, <2>9, Quiet
<1> QED
  BY <1>1, <1>2

LEMMA ClaimKeeps ==
  ASSUME Inv, NEW s \in Session, Claim(s)
  PROVE  Inv'
<1>1. CASE KeyTaken(s) \/ ~References(Aim(s))
  BY <1>1, EndKeeps DEF Claim, Refused, Aim
<1>2. CASE ~KeyTaken(s) /\ References(Aim(s))
  <2>1. /\ pc' = [pc EXCEPT ![s] = "commit"] /\ UNCHANGED <<tables, req, seen>> /\ pc[s] = "key"
        /\ \A o \in Session \ {s} : ~HoldsKey(o, Key(Aim(s)))
    BY <1>2 DEF Claim, Goto, WaitsFor, Aim
  <2>2. Moves(s) /\ pc'[s] = "commit"
    BY <2>1 DEF Moves, Still, Labels, Inv, TypeOK
  <2>3. /\ Columns(s)' = Columns(s) /\ ChangesKey(s)' = ChangesKey(s) /\ Entity(s)' = Entity(s)
    BY <2>1, SameEntity
  <2>4. Aim(s)' = Aim(s)
    BY <2>1, <2>3 DEF tables, Aim, Result
  <2>5. Stage(s)
    BY DEF Inv, Alone
  <2>6. Stage(s)'
    <3>1. Loaded(s)' = Loaded(s)
      BY <2>1 DEF Loaded, Is, tables
    <3> QED
      BY <2>1, <2>2, <2>3, <2>5, <3>1 DEF Stage
  <2>7. Standing(s)'
    <3>1. References(Aim(s))'
      BY <1>2, <2>1, <2>4 DEF References, Is, tables
    <3>2. Key(Aim(s))' = Key(Aim(s))
      BY <2>4 DEF Key
    <3>3. \A i \in DOMAIN rows \ {seen[s].id} : Key(rows[i]) # Key(Aim(s))
      BY <1>2 DEF KeyTaken, Aim
    <3>4. \A i \in (DOMAIN rows \ {seen[s].id})' : Key(rows[i])' # Key(Aim(s))'
      BY <2>1, <3>2, <3>3 DEF tables, Key
    <3> QED
      BY <3>1, <3>4 DEF Standing
  <2>8. Alone(s)'
    BY <2>2, <2>6, <2>7 DEF Alone, Reading
  <2>9. ASSUME NEW o \in Session \ {s} PROVE Apart(s, o)'
    <3>1. Still(o) /\ Alone(o)
      BY <2>2 DEF Moves, Inv
    <3>2. Aim(o)' = Aim(o) /\ Claims(o)' = Claims(o) /\ \A i : HoldsRow(o, i)' = HoldsRow(o, i)
      BY <2>1, <3>1, StillEntity, StillAlone
    <3>3. \A i : HoldsRow(s, i)' = HoldsRow(s, i)
      BY <2>1, <2>2, <2>3 DEF HoldsRow
    <3>4. Claims(o) => Key(Aim(o)) # Key(Aim(s))
      BY <2>1 DEF Claims, HoldsKey, Aim
    <3>5. Key(Aim(o))' = Key(Aim(o)) /\ Key(Aim(s))' = Key(Aim(s))
      BY <2>4, <3>2 DEF Key
    <3> QED
      BY <3>2, <3>3, <3>4, <3>5 DEF Apart, Inv
  <2> QED
    BY <2>1, <2>2, <2>8, <2>9, Quiet
<1> QED
  BY <1>1, <1>2
-------------------------------------------------------------------------------
(* Commit *)

\* A commit adds a row or changes the fields of one.
Writes(s, i) ==
  /\ rows' = [j \in DOMAIN rows \cup {i} |-> IF j = i THEN Result(s, i) ELSE rows[j]]
  /\ i \in Id
  /\ IF req[s].op = "create" THEN i \notin DOMAIN rows ELSE i = seen[s].id /\ i \in DOMAIN rows

\* What a row is and belongs to never changes.
Grown ==
  \A j \in DOMAIN rows :
    /\ j \in DOMAIN rows'
    /\ rows'[j].kind = rows[j].kind /\ rows'[j].tenant = rows[j].tenant
    /\ rows'[j].workspace = rows[j].workspace /\ rows'[j].site = rows[j].site

LEMMA CommitWrites ==
  ASSUME Inv, NEW s \in Session, Commit(s)
  PROVE  /\ \E i : /\ Writes(s, i)
                   /\ audit' = IF req[s].kind \in Audited THEN Append(audit, Event(s, i)) ELSE audit
         /\ Moves(s) /\ pc'[s] = "refresh" /\ UNCHANGED <<req, seen>>
         /\ Stage(s) /\ pc[s] = "commit" /\ req[s].op \in {"create", "update"}
<1>1. Stage(s) /\ pc[s] = "commit" /\ req[s].op \in {"create", "update"}
  BY DEF Inv, Alone, Stage, Commit
<1>2. req[s].op = "update" => seen[s].id \in DOMAIN rows
  BY <1>1 DEF Stage, Loaded, Is
<1>3. DOMAIN rows \subseteq Id
  BY DEF Inv, TypeOK
<1>4. Moves(s) /\ pc'[s] = "refresh"
  BY DEF Commit, Goto, Moves, Still, Labels, Inv, TypeOK
<1> QED
  BY <1>1, <1>2, <1>3, <1>4 DEF Commit, Writes

\* The row that is written has the fields of its kind, the required ones filled.
LEMMA ResultType ==
  ASSUME Inv, NEW s \in Session, pc[s] = "commit", NEW i, Writes(s, i)
  PROVE  /\ Result(s, i) \in RowType
         /\ Result(s, i).kind = req[s].kind
         /\ Result(s, i).fields \in FieldsOf(req[s].kind)
         /\ \A f \in Fields[req[s].kind] \ Nullable : Result(s, i).fields[f] # NULL
         /\ req[s].op = "create" =>
              /\ Result(s, i).tenant = (IF req[s].kind = "tenant" THEN i ELSE req[s].tenant)
              /\ Result(s, i).workspace = req[s].workspace /\ Result(s, i).site = req[s].site
              /\ Result(s, i).fields = Entity(s)
         /\ req[s].op # "create" =>
              /\ Result(s, i).tenant = rows[i].tenant /\ Result(s, i).workspace = rows[i].workspace
              /\ Result(s, i).site = rows[i].site /\ rows[i].kind = req[s].kind
              /\ \A f \in Fields[req[s].kind] :
                   Result(s, i).fields[f] = IF f \in Columns(s) THEN Entity(s)[f] ELSE rows[i].fields[f]
<1> DEFINE k == req[s].kind
<1>1. Stage(s) /\ Asked(req[s]) /\ k \in Kind /\ req[s].op \in {"create", "update"}
  BY DEF Inv, Alone, Stage, Asked
<1>2. Entity(s) \in FieldsOf(k) /\ Columns(s) \subseteq Fields[k] /\ FieldsOf(k) \subseteq SomeFields
  BY <1>1, EntityType DEF SomeFields
<1>3. CASE req[s].op = "create"
  <2>1. Result(s, i) = Row(k, IF k = "tenant" THEN i ELSE req[s].tenant, req[s].workspace, req[s].site,
                           Entity(s))
    BY <1>3 DEF Result
  <2>2. \A f \in Fields[k] \ Nullable : Entity(s)[f] # NULL
    <3> SUFFICES ASSUME NEW f \in Fields[k] \ Nullable PROVE Entity(s)[f] # NULL
      OBVIOUS
    <3>1. Before(s) = [g \in Fields[k] |-> IF g \in DOMAIN Default THEN Default[g] ELSE NULL]
      BY <1>3 DEF Before
    <3>2. CASE f \in DOMAIN req[s].values
      <4>1. req[s].values[f] # NULL /\ Entity(s)[f] = Stored(f, req[s].values[f])
        BY <1>1, <1>3, <3>1, <3>2 DEF Asked, Entity
      <4> QED
        BY <4>1 DEF Stored
    <3>3. CASE f \notin DOMAIN req[s].values
      <4>1. f \in DOMAIN Default /\ Entity(s)[f] = Default[f]
        BY <1>1, <1>3, <3>1, <3>3 DEF Asked, Entity
      <4> QED
        BY <4>1 DEF Default, NULL
    <3> QED
      BY <3>2, <3>3
  <2>3. Result(s, i) \in RowType
    BY <1>1, <1>2, <1>3, <2>1 DEF RowType, Row, Writes, Asked
  <2> QED
    BY <1>2, <1>3, <2>1, <2>2, <2>3 DEF Row
<1>4. CASE req[s].op = "update"
  <2> DEFINE new == [f \in DOMAIN rows[i].fields |->
                       IF f \in Columns(s) THEN Entity(s)[f] ELSE rows[i].fields[f]]
  <2>1. /\ i \in DOMAIN rows /\ rows[i].kind = k /\ rows[i] \in RowType
        /\ rows[i].fields \in FieldsOf(k)
    BY <1>1, <1>4 DEF Writes, Stage, Loaded, Is, Inv, TypeOK
  <2>2. Result(s, i) = [rows[i] EXCEPT !.fields = new]
    BY <1>4 DEF Result
  <2>3. new \in FieldsOf(k)
    BY <1>2, <2>1 DEF FieldsOf
  <2>4. /\ Result(s, i) \in RowType /\ Result(s, i).fields = new /\ Result(s, i).kind = rows[i].kind
        /\ Result(s, i).tenant = rows[i].tenant /\ Result(s, i).workspace = rows[i].workspace
        /\ Result(s, i).site = rows[i].site
    BY <1>2, <2>1, <2>2, <2>3 DEF RowType
  <2>5. \A f \in Fields[k] : new[f] = IF f \in Columns(s) THEN Entity(s)[f] ELSE rows[i].fields[f]
    BY <2>1 DEF FieldsOf
  <2>6. \A f \in Fields[k] \ Nullable : new[f] # NULL
    BY <1>1, <1>4, <2>1, <2>5 DEF Stage, Inv, TablesConsistent
  <2> QED
    BY <1>4, <2>1, <2>3, <2>4, <2>5, <2>6
<1> QED
  BY <1>1, <1>3, <1>4

LEMMA CommitGrows ==
  ASSUME Inv, NEW s \in Session, pc[s] = "commit", NEW i, Writes(s, i)
  PROVE  Grown /\ DOMAIN rows' = DOMAIN rows \cup {i} /\ rows'[i] = Result(s, i)
         /\ \A j \in DOMAIN rows \ {i} : rows'[j] = rows[j]
<1>1. DOMAIN rows' = DOMAIN rows \cup {i} /\ rows'[i] = Result(s, i)
      /\ \A j \in DOMAIN rows \ {i} : rows'[j] = rows[j]
  BY DEF Writes
<1>2. i \in DOMAIN rows => req[s].op # "create"
  BY DEF Writes
<1> QED
  BY <1>1, <1>2, ResultType DEF Grown

LEMMA GrownFacts ==
  ASSUME Grown
  PROVE  /\ \A j, k, t : Is(j, k, t) => Is(j, k, t)'
         /\ \A q : Matching(q) \subseteq Matching(q)'
         /\ \A t, w : Present(t, w) \subseteq Present(t, w)'
<1>1. \A j, k, t : Is(j, k, t) => Is(j, k, t)'
  BY DEF Grown, Is
<1>2. ASSUME NEW q PROVE Matching(q) \subseteq Matching(q)'
  BY <1>1 DEF Grown, Matching
<1>3. ASSUME NEW t, NEW w PROVE Present(t, w) \subseteq Present(t, w)'
  BY DEF Grown, Present
<1> QED
  BY <1>1, <1>2, <1>3

\* References and keys are about what never changes and, for keys, the unique field.
LEMMA GrownReferences ==
  ASSUME Grown, NEW r, NEW x, References(r), x.kind = r.kind, x.tenant = r.tenant,
         x.workspace = r.workspace, x.site = r.site
  PROVE  /\ Is(x.tenant, "tenant", x.tenant)'
         /\ x.workspace # NULL => Is(x.workspace, "workspace", x.tenant)'
         /\ x.site # NULL => Is(x.site, "site", x.tenant)' /\ rows'[x.site].workspace = x.workspace
  BY GrownFacts DEF References, Grown, Is
\* The key of the row that is written is the one entered before, or that of the row as
\* it was, or that of a new tenant.
LEMMA WrittenKey ==
  ASSUME Inv, NEW s \in Session, pc[s] = "commit", NEW i, Writes(s, i)
  PROVE  \/ Claims(s) /\ Key(Result(s, i)) = Key(Aim(s))
         \/ req[s].op = "update" /\ Key(Result(s, i)) = Key(rows[i])
         \/ req[s].op = "create" /\ req[s].kind = "tenant"
<1>1. Stage(s) /\ req[s].op \in {"create", "update"} /\ req[s].kind \in Kind
  BY DEF Inv, Alone, Stage, Asked
<1>2. CASE req[s].op = "create" /\ req[s].kind # "tenant"
  <2>1. Result(s, i) = Aim(s)
    BY <1>2 DEF Result, Aim
  <2> QED
    BY <1>2, <2>1 DEF Claims
<1>3. CASE req[s].op = "update" /\ ChangesKey(s)
  BY <1>3 DEF Writes, Aim, Claims
<1>4. CASE req[s].op = "update" /\ ~ChangesKey(s)
  <2>1. /\ Result(s, i).kind = rows[i].kind /\ Result(s, i).tenant = rows[i].tenant
        /\ Result(s, i).workspace = rows[i].workspace /\ Result(s, i).site = rows[i].site
        /\ rows[i].kind = req[s].kind
        /\ \A f \in Fields[req[s].kind] :
             Result(s, i).fields[f] = IF f \in Columns(s) THEN Entity(s)[f] ELSE rows[i].fields[f]
    BY <1>4, ResultType
  <2>2. req[s].kind \in DOMAIN UniqueField =>
          Result(s, i).fields[UniqueField[req[s].kind]] = rows[i].fields[UniqueField[req[s].kind]]
    BY <1>4, <2>1, UniqueFieldsAreFields DEF ChangesKey
  <2>3. Key(Result(s, i)) = Key(rows[i])
    BY <2>1, <2>2 DEF Key
  <2> QED
    BY <1>4, <2>3
<1> QED
  BY <1>1, <1>2, <1>3, <1>4

LEMMA ClaimsAreKeyed ==
  ASSUME Inv, NEW o \in Session, Claims(o)
  PROVE  /\ Aim(o).kind # "tenant"
         /\ req[o].op = "update" =>
              /\ seen[o].id \in DOMAIN rows /\ HoldsRow(o, seen[o].id)
         /\ req[o].op = "create" => seen[o].id = NULL
<1>1. Stage(o) /\ pc[o] = "commit"
  BY DEF Inv, Alone, Claims
<1>2. CASE req[o].op = "create" /\ req[o].kind # "tenant"
  BY <1>1, <1>2 DEF Aim, Result, Row, Stage
<1>3. CASE req[o].op = "update" /\ ChangesKey(o)
  <2>1. seen[o].id \in DOMAIN rows /\ rows[seen[o].id].kind = req[o].kind
    BY <1>1, <1>3 DEF Stage, Loaded, Is
  <2>2. Aim(o).kind = rows[seen[o].id].kind
    BY <1>3, <2>1 DEF Aim, Result, Inv, TypeOK, RowType
  <2> QED
    BY <1>1, <1>3, <2>1, <2>2, Distinct DEF ChangesKey, HoldsRow
<1> QED
  BY <1>2, <1>3 DEF Claims

\* The key that is written is no other row's, nor one that another session has entered.
LEMMA WrittenKeyIsFree ==
  ASSUME Inv, NEW s \in Session, pc[s] = "commit", NEW i, Writes(s, i)
  PROVE  /\ \A j \in DOMAIN rows \ {i} : Key(rows[j]) # Key(Result(s, i))
         /\ \A o \in Session \ {s} : Claims(o) /\ seen[o].id # i => Key(Aim(o)) # Key(Result(s, i))
<1>1. \A r, x : Key(r) = Key(x) => r.kind = x.kind /\ r.tenant = x.tenant
  BY DEF Key
<1>2. CASE Claims(s) /\ Key(Result(s, i)) = Key(Aim(s))
  <2>1. Standing(s)
    BY DEF Inv, Alone
  <2>2. \A j \in DOMAIN rows \ {i} : j # seen[s].id
    BY <1>2, ClaimsAreKeyed, Distinct DEF Writes, Claims, Inv, TypeOK
  <2>3. \A o \in Session \ {s} : Apart(s, o)
    BY DEF Inv
  <2> QED
    BY <1>2, <2>1, <2>2, <2>3 DEF Standing, Apart
<1>3. CASE req[s].op = "update" /\ Key(Result(s, i)) = Key(rows[i])
  <2>1. i \in DOMAIN rows
    BY <1>3 DEF Writes
  <2>2. \A o \in Session \ {s} : Standing(o)
    BY DEF Inv, Alone
  <2> QED
    BY <1>3, <2>1, <2>2 DEF Inv, TablesConsistent, Standing
<1>4. CASE req[s].op = "create" /\ req[s].kind = "tenant"
  <2>1. Result(s, i).kind = "tenant" /\ Result(s, i).tenant = i
    BY <1>4, ResultType
  <2>2. \A j \in DOMAIN rows \ {i} : Key(rows[j]) # Key(Result(s, i))
    BY <1>1, <2>1 DEF Inv, TenantRows
  <2>3. \A o \in Session \ {s} : Claims(o) => Key(Aim(o)) # Key(Result(s, i))
    BY <1>1, <2>1, ClaimsAreKeyed
  <2> QED
    BY <2>2, <2>3
<1> QED
  BY <1>2, <1>3, <1>4, WrittenKey

\* The row another session has claimed is written by nobody else.
LEMMA ClaimedRowStays ==
  ASSUME Inv, NEW s \in Session, pc[s] = "commit", NEW i, Writes(s, i),
         NEW o \in Session \ {s}, Claims(o), seen[o].id = i
  PROVE  rows'[i] = rows[i]
<1>1. req[o].op = "update" /\ i \in DOMAIN rows /\ HoldsRow(o, i)
  BY ClaimsAreKeyed, Distinct DEF Writes, Claims
<1>2. req[s].op # "create" /\ i = seen[s].id /\ req[s].op = "update"
  BY <1>1 DEF Writes, Inv, Alone, Stage
<1>3. Apart(s, o)
  BY DEF Inv
<1>4. Columns(s) = {}
  BY <1>1, <1>2, <1>3 DEF Apart, HoldsRow, Writes
<1>5. rows[i] \in RowType /\ rows[i].fields \in FieldsOf(rows[i].kind)
  BY <1>1 DEF Inv, TypeOK
<1>6. [f \in DOMAIN rows[i].fields |-> IF f \in Columns(s) THEN Entity(s)[f] ELSE rows[i].fields[f]]
        = rows[i].fields
  BY <1>4, <1>5 DEF FieldsOf
<1>7. Result(s, i) = [rows[i] EXCEPT !.fields = rows[i].fields]
  BY <1>2, <1>6 DEF Result
<1>8. Result(s, i) = rows[i]
  BY <1>5, <1>7 DEF RowType
<1> QED
  BY <1>8, CommitGrows

LEMMA ClaimedStands ==
  ASSUME Inv, NEW s \in Session, pc[s] = "commit", NEW i, Writes(s, i), Moves(s),
         NEW o \in Session \ {s}, Claims(o)
  PROVE  Aim(o)' = Aim(o) /\ Key(Aim(o))' = Key(Aim(o)) /\ Standing(o)'
<1>1. Still(o) /\ Standing(o) /\ Stage(o) /\ Entity(o)' = Entity(o) /\ Columns(o)' = Columns(o)
  BY StillEntity DEF Moves, Inv, Alone
<1>2. Grown /\ DOMAIN rows' = DOMAIN rows \cup {i} /\ rows'[i] = Result(s, i)
      /\ \A j \in DOMAIN rows \ {i} : rows'[j] = rows[j]
  BY CommitGrows
<1>3. req[o].op = "update" => rows'[seen[o].id] = rows[seen[o].id]
  BY <1>2, ClaimsAreKeyed, ClaimedRowStays
<1>4. req[o].op \in {"create", "update"}
  BY DEF Claims
<1>5. Aim(o)' = Aim(o)
  <2>1. CASE req[o].op = "create" /\ req[o].kind # "tenant"
    BY <1>1, <2>1 DEF Aim, Result, Still
  <2>2. CASE req[o].op = "update"
    BY <1>1, <1>3, <2>2 DEF Aim, Result, Still
  <2> QED
    BY <2>1, <2>2 DEF Claims
<1>6. Key(Aim(o))' = Key(Aim(o))
  BY <1>5 DEF Key
<1>7. req[o].op = "create" => References(Aim(o))'
  BY <1>1, <1>2, <1>5, GrownReferences DEF Standing, References
<1>8. ASSUME NEW j \in DOMAIN rows' \ {seen[o].id} PROVE Key(rows'[j]) # Key(Aim(o))
  <2>1. CASE j = i
    BY <1>2, <2>1, WrittenKeyIsFree
  <2>2. CASE j # i
    BY <1>1, <1>2, <2>2 DEF Standing
  <2> QED
    BY <2>1, <2>2
<1>9. \A j \in (DOMAIN rows \ {seen[o].id})' : Key(rows[j])' # Key(Aim(o))'
  BY <1>1, <1>6, <1>8 DEF Still, Key
<1> QED
  BY <1>1, <1>5, <1>6, <1>7, <1>9 DEF Standing, Still
\* What others have read stays true when rows are added and fields changed.
LEMMA ReadingStands ==
  ASSUME Inv, Grown, IsFiniteSet(DOMAIN rows'), NEW o \in Session, Still(o), Reading(o)
  PROVE  Reading(o)'
<1>1. /\ \A q : Matching(q) \subseteq Matching(q)'
      /\ \A t, w : Present(t, w) \subseteq Present(t, w)'
  BY GrownFacts
<1>2. Matching(req[o]) \subseteq Matching(req[o])' /\ Matching(req[o])' \subseteq DOMAIN rows'
  BY <1>1 DEF Still, Matching, Is
<1>3. IsFiniteSet(Matching(req[o])')
  BY <1>2, FS_Subset
<1>4. /\ Cardinality(Matching(req[o])) <= Cardinality(Matching(req[o]))'
      /\ Cardinality(Matching(req[o])) \in Nat /\ Cardinality(Matching(req[o]))' \in Nat
  BY <1>2, <1>3, MatchingFinite, FS_Subset, FS_CardinalityType DEF Inv
<1>5. Present(req[o].tenant, req[o].workspace) \subseteq Present(req[o].tenant, req[o].workspace)'
  BY <1>1 DEF Still, Present
<1>6. pc[o] = "total" => req[o].values.offset \in Nat /\ seen[o].items \in Nat
  BY DEF Inv, TypeOK, SeenType, Alone, Stage, Asked
<1> QED
  BY <1>4, <1>5, <1>6 DEF Reading, Still

LEMMA CommitKeeps ==
  ASSUME Inv, NEW s \in Session, Commit(s)
  PROVE  Inv'
<1>1. PICK i : /\ Writes(s, i)
               /\ audit' = IF req[s].kind \in Audited THEN Append(audit, Event(s, i)) ELSE audit
  BY CommitWrites
<1>2. /\ Moves(s) /\ pc'[s] = "refresh" /\ UNCHANGED <<req, seen>> /\ Stage(s) /\ pc[s] = "commit"
      /\ req[s].op \in {"create", "update"} /\ Asked(req[s])
  BY CommitWrites DEF Stage
<1>3. Grown /\ DOMAIN rows' = DOMAIN rows \cup {i} /\ rows'[i] = Result(s, i)
      /\ (\A j \in DOMAIN rows \ {i} : rows'[j] = rows[j]) /\ i \in Id
  BY <1>1, <1>2, CommitGrows DEF Writes
<1>4. /\ Result(s, i) \in RowType /\ Result(s, i).kind = req[s].kind
      /\ Result(s, i).fields \in FieldsOf(req[s].kind)
      /\ \A f \in Fields[req[s].kind] \ Nullable : Result(s, i).fields[f] # NULL
  BY <1>1, <1>2, ResultType
<1>5. IsFiniteSet(DOMAIN rows')
  BY <1>3, FS_AddElement DEF Inv, TypeOK
<1>6. TypeOK'
  <2>1. rows' \in [DOMAIN rows' -> RowType]
    BY <1>1, <1>3, <1>4 DEF Inv, TypeOK, Writes
  <2>2. \A j \in DOMAIN rows' : rows'[j].fields \in FieldsOf(rows'[j].kind)
    BY <1>3, <1>4 DEF Inv, TypeOK
  <2>3. Event(s, i) \in EventType
    <3>1. DOMAIN req[s].values \subseteq AllFields
      BY <1>2 DEF Asked, AllFields
    <3> QED
      BY <1>2, <1>3, <3>1 DEF Event, EventType
  <2>4. audit' \in Seq(EventType)
    BY <1>1, <2>3 DEF Inv, TypeOK
  <2> QED
    BY <1>2, <1>3, <1>5, <2>1, <2>2, <2>4 DEF TypeOK, Moves, Inv
<1>7. TenantRows'
  <2>1. Result(s, i).kind = "tenant" => Result(s, i).tenant = i
    BY <1>1, <1>2, ResultType DEF Inv, TenantRows, Writes
  <2> QED
    BY <1>3, <2>1 DEF Inv, TenantRows
<1>8. TablesConsistent'
  <2>1. ASSUME NEW j \in DOMAIN rows' PROVE References(rows[j])'
    <3>1. CASE j \in DOMAIN rows
      <4>1. References(rows[j]) /\ rows'[j].kind = rows[j].kind /\ rows'[j].tenant = rows[j].tenant
            /\ rows'[j].workspace = rows[j].workspace /\ rows'[j].site = rows[j].site
        BY <1>3, <3>1 DEF Inv, TablesConsistent, Grown
      <4> QED
        BY <1>3, <4>1, GrownReferences DEF References
    <3>2. CASE j \notin DOMAIN rows /\ req[s].kind # "tenant"
      <4>1. j = i /\ req[s].op = "create"
        BY <1>1, <1>2, <1>3, <3>2 DEF Writes
      <4>2. Result(s, i) = Aim(s) /\ Claims(s)
        BY <1>2, <3>2, <4>1 DEF Result, Aim, Claims
      <4>3. References(Result(s, i))
        BY <4>1, <4>2 DEF Inv, Alone, Standing
      <4> QED
        BY <1>3, <4>1, <4>3, GrownReferences DEF References
    <3>3. CASE j \notin DOMAIN rows /\ req[s].kind = "tenant"
      <4>1. j = i /\ req[s].op = "create"
        BY <1>1, <1>2, <1>3, <3>3 DEF Writes
      <4>2. Result(s, i).tenant = i /\ Result(s, i).workspace = NULL /\ Result(s, i).site = NULL
            /\ Result(s, i).kind = "tenant"
        BY <1>1, <1>2, <3>3, <4>1, ResultType DEF Asked
      <4> QED
        BY <1>3, <4>1, <4>2 DEF References, Is
    <3> QED
      BY <3>1, <3>2, <3>3
  <2>2. \A j, l \in DOMAIN rows' : j # l => Key(rows'[j]) # Key(rows'[l])
    BY <1>1, <1>2, <1>3, WrittenKeyIsFree DEF Inv, TablesConsistent
  <2>3. \A j \in DOMAIN rows' : \A f \in Fields[rows'[j].kind] \ Nullable : rows'[j].fields[f] # NULL
    BY <1>3, <1>4 DEF Inv, TablesConsistent
  <2>4. \A j \in DOMAIN rows' : Key(rows[j])' = Key(rows'[j])
    BY DEF Key
  <2> QED
    BY <2>1, <2>2, <2>3, <2>4 DEF TablesConsistent
<1>9. ASSUME NEW o \in Session \ {s} PROVE Alone(o)'
  <2>1. Still(o) /\ Alone(o)
    BY <1>2 DEF Moves, Inv
  <2>2. Stage(o)'
    <3>1. Loaded(o) => Loaded(o)'
      BY <1>3, <2>1, GrownFacts DEF Loaded, Still, Is, Grown
    <3> QED
      BY <2>1, <3>1, StillEntity DEF Alone, Stage, Still
  <2>3. Standing(o)'
    BY <1>1, <1>2, <2>1, StillEntity, ClaimedStands DEF Standing
  <2> QED
    BY <1>3, <1>5, <2>1, <2>2, <2>3, ReadingStands DEF Alone
<1>10. Alone(s)'
  <2>1. seen'[s] = seen[s] /\ req'[s] = req[s]
    BY <1>2
  <2>2. Stage(s)'
    BY <1>2, <2>1 DEF Stage
  <2> QED
    BY <1>2, <2>2 DEF Alone, Standing, Claims, Reading
<1>11. ASSUME NEW o \in Session \ {s}, NEW p \in Session \ {s, o} PROVE Apart(o, p)'
  <2>1. Still(o) /\ Still(p) /\ Apart(o, p)
    BY <1>2 DEF Moves, Inv
  <2>2. (Claims(o) => Key(Aim(o))' = Key(Aim(o))) /\ (Claims(p) => Key(Aim(p))' = Key(Aim(p)))
    BY <1>1, <1>2, ClaimedStands
  <2> QED
    BY <2>1, <2>2, StillEntity DEF Apart
<1>12. \A o \in Session : Apart(s, o)' /\ Apart(o, s)'
  BY <1>2 DEF Apart, HoldsRow, Claims
<1> QED
  BY <1>6, <1>7, <1>8, <1>9, <1>10, <1>11, <1>12 DEF Inv

-------------------------------------------------------------------------------
(* The theorems *)

LEMMA StepKeeps ==
  ASSUME Inv, [Next]_vars
  PROVE  Inv'
<1>1. CASE UNCHANGED vars
  <2>1. \A o \in Session : Still(o)
    BY <1>1 DEF vars, Still
  <2>2. UNCHANGED tables
    BY <1>1 DEF vars, tables
  <2>3. ASSUME NEW s \in Session PROVE Inv'
    <3>1. Moves(s)
      BY <1>1, <2>1 DEF vars, Moves, Inv, TypeOK
    <3>2. Alone(s)'
      BY <2>1, <2>2, StillAlone DEF Inv
    <3>3. ASSUME NEW o \in Session \ {s} PROVE Apart(s, o)'
      <4>1. Key(Aim(o))' = Key(Aim(o)) /\ Key(Aim(s))' = Key(Aim(s))
        BY <2>1, <2>2, StillAlone DEF Inv, Key
      <4>2. Apart(s, o)
        BY DEF Inv
      <4> QED
        BY <2>1, <4>1, <4>2, StillEntity DEF Apart
    <3> QED
      BY <2>2, <3>1, <3>2, <3>3, Quiet
  <2>4. CASE Session = {}
    <3>1. TypeOK' /\ TenantRows'
      BY <1>1 DEF vars, Inv, TypeOK, TenantRows
    <3>2. TablesConsistent'
      BY <1>1 DEF vars, Inv, TablesConsistent, References, Is, Key
    <3> QED
      BY <2>4, <3>1, <3>2 DEF Inv
  <2> QED
    BY <2>3, <2>4
<1>2. CASE Next
  <2>1. PICK s \in Session : ArriveAny(s) \/ Step(s) \/ Abort(s)
    BY <1>2 DEF Next
  <2>2. CASE ArriveAny(s)
    BY <2>2, ArrivalsAreAsked, ArriveKeeps
  <2>3. CASE CheckParent(s)
    BY <2>3, CheckParentKeeps
  <2>4. CASE Load(s)
    BY <2>4, LoadKeeps
  <2>5. CASE ReadPage(s)
    BY <2>5, ReadPageKeeps
  <2>6. CASE ReadStatus(s)
    BY <2>6, ReadStatusKeeps
  <2>7. CASE Flush(s)
    BY <2>7, FlushKeeps
  <2>8. CASE Claim(s)
    BY <2>8, ClaimKeeps
  <2>9. CASE Commit(s)
    BY <2>9, CommitKeeps
  <2>10. CASE BreakDeadlock(s) \/ Respond(s) \/ Abort(s)
    BY <2>10, EndKeeps DEF BreakDeadlock, Respond, Abort
  <2> QED
    BY <2>1, <2>2, <2>3, <2>4, <2>5, <2>6, <2>7, <2>8, <2>9, <2>10 DEF Step
<1> QED
  BY <1>1, <1>2

\* Whatever the sessions do, the tables are consistent, sessions that wrote have
\* disjoint rows and keys, and each stands where its request may stand.
THEOREM FoundationInvariant == Spec => []Inv
<1>1. Init => Inv
  <2> SUFFICES ASSUME Init PROVE Inv
    OBVIOUS
  <2>1. DOMAIN rows = {} /\ IsFiniteSet(DOMAIN rows)
    BY FS_EmptySet DEF Init
  <2>2. NothingSeen \in SeenType
    BY DEF NothingSeen, SeenType, Named, SomeFields
  <2>3. TypeOK
    BY <2>1, <2>2 DEF Init, TypeOK, Labels
  <2>4. TenantRows /\ TablesConsistent
    BY <2>1 DEF TenantRows, TablesConsistent
  <2>5. \A s \in Session : Alone(s)
    BY DEF Init, Alone, Stage, Standing, Claims, Reading, NothingSeen
  <2>6. \A s, o \in Session : Apart(s, o)
    BY DEF Init, Apart, HoldsRow, Claims
  <2> QED
    BY <2>3, <2>4, <2>5, <2>6 DEF Inv
<1> QED
  BY <1>1, StepKeeps, PTL DEF Spec

\* Overlapping creates and renames in any number never leave two rows with one
\* unique key, a required field empty, or rows that do not belong together.
THEOREM TablesStayConsistent == Spec => []TablesConsistent
<1>1. Inv => TablesConsistent
  BY DEF Inv
<1> QED
  BY <1>1, FoundationInvariant, PTL

\* A page never reaches beyond its total and what an onboarding status reports
\* complete is there, whatever is committed while the answer is read.
THEOREM ReadsAreTrue == Spec => []ReadsHold
<1>1. Inv => ReadsHold
  BY DEF Inv, Alone, Reading, ReadsHold
<1> QED
  BY <1>1, FoundationInvariant, PTL

LEMMA OnlyCommitWrites ==
  ASSUME [Next]_vars, ~UNCHANGED tables
  PROVE  \E s \in Session : Commit(s)
  BY DEF vars, tables, Next, ArriveAny, Arrive, Step, CheckParent, Load, ReadPage, ReadStatus, Flush,
         Claim, Refused, BreakDeadlock, Respond, Abort, End

\* No identifier a client names makes a request change another tenant's row.
THEOREM TenantsAreIsolated == Spec => TenantIsolation
<1>1. ASSUME Inv, [Next]_vars, NEW i \in DOMAIN rows, rows'[i] # rows[i]
      PROVE  \E s \in Session : pc'[s] # pc[s] /\ req[s].tenant = rows[i].tenant
  <2>1. PICK s \in Session : Commit(s)
    BY <1>1, OnlyCommitWrites DEF tables
  <2>2. PICK j : Writes(s, j)
    BY <1>1, <2>1, CommitWrites
  <2>3. pc'[s] = "refresh" /\ pc[s] = "commit" /\ Stage(s) /\ req[s].op \in {"create", "update"}
    BY <1>1, <2>1, CommitWrites
  <2>4. i = j /\ req[s].op = "update" /\ i = seen[s].id
    BY <1>1, <2>2, <2>3 DEF Writes
  <2> QED
    BY <2>3, <2>4 DEF Stage, Loaded, Is
<1>2. Inv /\ [Next]_vars =>
        [\A i \in DOMAIN rows : rows'[i] # rows[i] =>
           \E s \in Session : pc'[s] # pc[s] /\ req[s].tenant = rows[i].tenant]_vars
  BY <1>1
<1> QED
  BY <1>2, FoundationInvariant, PTL DEF Spec, TenantIsolation

\* A step changes at most one row, and of it the fields its request supplies; what is
\* audited leaves one event that names them.
THEOREM ChangesAreAccounted == Spec => ChangesAccounted
<1>1. ASSUME Inv, [Next]_vars, ~UNCHANGED tables PROVE RowsChangeAsAsked /\ EventsTellWrites
  <2>1. PICK s \in Session : Commit(s)
    BY <1>1, OnlyCommitWrites
  <2>2. PICK i : /\ Writes(s, i)
                 /\ audit' = IF req[s].kind \in Audited THEN Append(audit, Event(s, i)) ELSE audit
    BY <1>1, <2>1, CommitWrites
  <2>3. pc[s] = "commit" /\ Stage(s) /\ req[s].op \in {"create", "update"}
    BY <1>1, <2>1, CommitWrites
  <2>4. /\ DOMAIN rows' = DOMAIN rows \cup {i} /\ rows'[i] = Result(s, i)
        /\ \A j \in DOMAIN rows \ {i} : rows'[j] = rows[j]
    BY <1>1, <2>2, <2>3, CommitGrows
  <2>5. Result(s, i).kind = req[s].kind
    BY <1>1, <2>2, <2>3, ResultType
  <2>6. ChangedFields(i) \subseteq DOMAIN req[s].values
    <3>1. CASE req[s].op = "create"
      BY <2>2, <3>1 DEF Writes, ChangedFields
    <3>2. CASE req[s].op = "update"
      <4>1. i \in DOMAIN rows /\ rows[i].fields \in FieldsOf(rows[i].kind)
        BY <1>1, <2>2, <3>2 DEF Writes, Inv, TypeOK
      <4>2. /\ rows[i].kind = req[s].kind
            /\ \A f \in Fields[req[s].kind] :
                 Result(s, i).fields[f] = IF f \in Columns(s) THEN Entity(s)[f] ELSE rows[i].fields[f]
        BY <1>1, <2>2, <2>3, <3>2, ResultType
      <4>3. Columns(s) \subseteq DOMAIN req[s].values
        BY <1>1, <2>3, <3>2, EntityType
      <4> QED
        BY <2>4, <4>1, <4>2, <4>3 DEF FieldsOf, ChangedFields
    <3> QED
      BY <2>3, <3>1, <3>2
  <2>7. Event(s, i).id = i /\ Event(s, i).type = req[s].op /\ Event(s, i).fields = DOMAIN req[s].values
    BY DEF Event
  <2>8. req[s].op = "create" <=> i \notin DOMAIN rows
    BY <2>2 DEF Writes
  <2>9. req[s].kind \in Audited =>
          Len(audit') = Len(audit) + 1 /\ audit'[Len(audit')] = Event(s, i)
    <3>1. audit \in Seq(EventType) /\ Event(s, i) \in EventType
      <4>1. DOMAIN req[s].values \subseteq AllFields /\ i \in Id
        BY <2>2, <2>3 DEF Stage, Asked, AllFields, Writes
      <4> QED
        BY <1>1, <2>3, <4>1 DEF Inv, TypeOK, Event, EventType
    <3> QED
      BY <2>2, <3>1
  <2>10. RowsChangeAsAsked
    <3> SUFFICES ASSUME NEW j \in DOMAIN rows', j \in DOMAIN rows => rows'[j] # rows[j]
                 PROVE  /\ \E x \in Session : pc[x] = "commit" /\ ChangedFields(j) \subseteq DOMAIN req[x].values
                        /\ \A l \in DOMAIN rows \ {j} : rows'[l] = rows[l]
                        /\ rows'[j].kind \in Audited =>
                             /\ Len(audit') = Len(audit) + 1
                             /\ audit'[Len(audit')].id = j
                             /\ ChangedFields(j) \subseteq audit'[Len(audit')].fields
      BY DEF RowsChangeAsAsked
    <3>1. j = i
      BY <2>4
    <3> QED
      BY <2>3, <2>4, <2>5, <2>6, <2>7, <2>9, <3>1
  <2>11. EventsTellWrites
    <3>1. CASE req[s].kind \in Audited
      BY <2>2, <2>4, <2>5, <2>7, <2>8, <2>9, <3>1 DEF EventsTellWrites
    <3>2. CASE req[s].kind \notin Audited
      BY <2>2, <3>2 DEF EventsTellWrites
    <3> QED
      BY <3>1, <3>2
  <2> QED
    BY <2>10, <2>11
<1>2. ASSUME UNCHANGED tables PROVE RowsChangeAsAsked /\ EventsTellWrites
  BY <1>2 DEF tables, RowsChangeAsAsked, EventsTellWrites
<1>3. Inv /\ [Next]_vars => [RowsChangeAsAsked /\ EventsTellWrites]_vars
  BY <1>1, <1>2
<1> QED
  BY <1>3, FoundationInvariant, PTL DEF Spec, ChangesAccounted
===============================================================================
