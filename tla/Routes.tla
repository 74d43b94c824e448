-------------------------------- MODULE Routes --------------------------------
(***************************************************************************)
(* One request on its way through the server: the gate that                *)
(* handle_connection is, the dispatch of route, and the wire operations it *)
(* ends in, while other connections write cells and create members.  No    *)
(* route writes a control cube, so the rules stand while a server runs:    *)
(* they differ from behaviour to behaviour.  A behaviour follows one       *)
(* request, whose answer depends on no earlier one but through the cells.  *)
(*                                                                         *)
(* A token is what Sessions makes of it: the roles of its session, or      *)
(* Stale.  What a query folds is Queries, how a batch is written WriteApi, *)
(* a save Persistence; here they are the cells they read or write, a row   *)
(* of an answer for a cell.  A joined cube has the dimension it is joined  *)
(* on and that of its attributes, and a query projects the former.         *)
(* Methods, paths and bodies that cannot be parsed are left out, and so    *)
(* are writes to consolidated coordinates.                                 *)
(***************************************************************************)
EXTENDS Access, FiniteSetsExt, Functions, TLC

CONSTANTS Cubes,             \* the datasets, control cubes included
          TableSecurity, DimensionSecurity,
          Aggregating,       \* the cubes that are no attribute tables
          MeasureOf,         \* cube -> the axis of its measures, or 0
          Derived,           \* the system cubes that the engine maintains
          Under,             \* <<dimension, consolidated member>> -> its leaves
          Starts,            \* the cells a behaviour may start with
          Members,           \* dimension -> the members it starts with
          Requests,          \* what a client may ask
          Writes,            \* what other connections write: cube, at, value
          MaxWrites,         \* bound on them
          Admin,             \* the role that may save
          Stale,             \* a token that is no session's (any more)
          None               \* no token; no parameter

ControlCubes == {TableSecurity, DimensionSecurity}

ASSUME ControlCubesExist == ControlCubes \subseteq Cubes
ASSUME CubesHaveDimensions == DOMAIN DimensionsOf = Cubes
ASSUME RollupsAreMembers == \A u \in DOMAIN Under : u = <<u[1], u[2]>>
ASSUME RequestsNameTables ==
    \A r \in Requests :
        /\ r.route \in {"describe", "sample", "query", "sql", "write"} => r.dataset # None
        /\ r.join # None => r.route \in {"query", "sql"}
ASSUME StartsHaveCubes == \A s \in Starts : DOMAIN s = Cubes
ASSUME WritesAreData == \A w \in Writes : w.cube \in Cubes \ ControlCubes

VARIABLES cells,     \* cube -> its cells: coordinates -> value
          members,   \* dimension -> its members
          auth,      \* SecurityState.require_auth
          writes,    \* number of writes of other connections
          q          \* the request

vars == <<cells, members, auth, writes, q>>

NoRequest == [route |-> "none", session |-> None, dataset |-> None, join |-> None,
              using |-> None, attributes |-> {}, inner |-> FALSE,
              domain |-> None, select |-> TRUE, limit |-> None, offset |-> 0,
              cells |-> {}, value |-> 0, create |-> FALSE]
NoFacts   == [count |-> 0, numeric |-> FALSE, least |-> None, greatest |-> None,
              sizes |-> <<>>, distinct |-> 0]
NoAnswer  == [code |-> "none", cubes |-> {}, rows |-> {}, joined |-> {}, names |-> {},
              count |-> 0, facts |-> NoFacts]
NoRules   == [whole |-> <<>>, members |-> <<>>]

(* snapshot is history: the cells the request was answered from.           *)
Idle == [pc |-> "idle", request |-> NoRequest, held |-> {}, table |-> <<>>, dims |-> NoRules,
         answer |-> NoAnswer, snapshot |-> <<>>]

Init ==
    /\ cells \in Starts
    /\ members = Members
    /\ auth \in BOOLEAN
    /\ writes = 0
    /\ q = Idle

-------------------------------------------------------------------------------
(* Cells, and the members they name.                                       *)
Put(c, ks, v) ==
    /\ cells' = [cells EXCEPT ![c] = [k \in ks |-> v] @@ @]
    /\ members' = [d \in DOMAIN members |->
                      members[d] \cup {k[a] : k \in ks, a \in {b \in DOMAIN DimensionsOf[c] :
                                                                  DimensionsOf[c][b] = d}}]

(* A write of another connection, which its own rules let through.         *)
WriteElsewhere(w) ==
    /\ writes < MaxWrites /\ q.pc # "done"
    /\ writes' = writes + 1
    /\ Put(w.cube, {w.at}, w.value)
    /\ UNCHANGED <<auth, q>>

-------------------------------------------------------------------------------
(* The gate.  Capabilities are public, and a server started with           *)
(* --allow-anonymous needs no token, but one that is presented must be     *)
(* good on every route.                                                    *)
Rejected(r) ==
    \/ r.session = Stale
    \/ r.session = None /\ auth /\ r.route # "capabilities"

Ask(r) ==
    /\ q.pc = "idle"
    /\ q' = [Idle EXCEPT !.request = r,
                         !.held = IF r.session \in {Stale, None} THEN {} ELSE r.session,
                         !.pc = IF Rejected(r) THEN "done" ELSE "rules",
                         !.answer.code = IF Rejected(r) THEN "unauthorized" ELSE @]
    /\ UNCHANGED <<cells, members, auth, writes>>

(* The policy, folded from the control cubes.                              *)
ReadRules ==
    /\ q.pc = "rules"
    /\ q' = [q EXCEPT !.table = TableRules(cells[TableSecurity], q.held),
                      !.dims = DimensionRules(cells[DimensionSecurity], q.held),
                      !.pc = "route"]
    /\ UNCHANGED <<cells, members, auth, writes>>

(* Mutant: only the rules for cubes hide one.                              *)
Hidden_TableOnly(c) == ~CanRead(q.table, c)

Hidden(c) == ~CanRead(q.table, c) \/ HidesCube(q.dims, c)

LeavesOf(d, m) == IF <<d, m>> \in DOMAIN Under THEN Under[<<d, m>>] ELSE {m}

(* Mutant: what is under a denied member stays visible.                    *)
DeniedLeaves_ItselfOnly(d) == DeniedMembers(q.dims, d)

(* denied_leaf_ids: a denied member hides all that is under it.            *)
DeniedLeaves(d) == UNION {{m} \cup LeavesOf(d, m) : m \in DeniedMembers(q.dims, d)}

Visible(c) ==
    {k \in DOMAIN cells[c] :
        \A a \in DOMAIN k : k[a] \notin DeniedLeaves(DimensionsOf[c][a])}

-------------------------------------------------------------------------------
(* The answers.                                                            *)
At(route) == q.pc = "route" /\ q.request.route = route

Reply(answer) == q' = [q EXCEPT !.pc = "done", !.answer = answer, !.snapshot = cells]
Refuse(code)  == Reply([NoAnswer EXCEPT !.code = code])
Ok            == [NoAnswer EXCEPT !.code = "ok"]

Unchanged == UNCHANGED <<cells, members, auth, writes>>

Capabilities == At("capabilities") /\ Reply(Ok) /\ Unchanged

Datasets ==
    /\ At("datasets")
    /\ Reply([Ok EXCEPT !.cubes = {c \in Cubes : ~Hidden(c)}])
    /\ Unchanged

(* The tables a SELECT names: its own and the one it joins.                *)
Tables(r) == {r.dataset, r.join} \ {None}

(* All the members of a dimension, consolidated ones included.             *)
Everyone(d) == members[d] \cup {u[2] : u \in {v \in DOMAIN Under : v[1] = d}}

(* attribute_join::resolve: the dimensions a join can key on, which must be *)
(* one.                                                                    *)
Keys(r) ==
    {d \in Range(DimensionsOf[r.dataset]) \cap Range(DimensionsOf[r.join]) : r.using \in {d, None}}

KeyIn(r, c) == Min({a \in DOMAIN DimensionsOf[c] : DimensionsOf[c][a] \in Keys(r)})

(* apply asks no more of a join that asks for no attributes.               *)
Joinable(r) ==
    r.join # None =>
        LET axis == MeasureOf[r.join] IN
        /\ Cardinality(Keys(r)) = 1
        /\ \/ r.attributes = {}
           \/ axis # 0 /\ r.attributes \subseteq Everyone(DimensionsOf[r.join][axis])

(* The cells of the joined cube that a row is given: those of its key and  *)
(* of an attribute asked for, whatever the session is denied of that cube. *)
Partners(r, k, stored) ==
    {j \in DOMAIN stored[r.join] :
        /\ j[MeasureOf[r.join]] \in r.attributes
        /\ j[KeyIn(r, r.join)] = k[KeyIn(r, r.dataset)]}

Joins(r) == r.join # None /\ r.attributes # {}

Attached(r, rows, stored) == IF Joins(r) THEN UNION {Partners(r, k, stored) : k \in rows} ELSE {}

(* A plan's join keeps every row, and so does an inner one without         *)
(* attributes.                                                             *)
Kept(r, rows, stored) ==
    IF r.route = "sql" /\ r.inner /\ Joins(r)
      THEN {k \in rows : Partners(r, k, stored) # {}} ELSE rows

(* The read-only SQL console: one SELECT, over cubes that may be read.     *)
Sql ==
    LET r == q.request  rows == Kept(r, Visible(r.dataset), cells) IN
    /\ At("sql")
    /\ IF ~r.select THEN Refuse("invalid_argument")
       ELSE IF \E c \in Tables(r) : Hidden(c) THEN Refuse("unknown_dataset")
       ELSE IF ~(Tables(r) \subseteq Cubes) \/ ~Joinable(r) THEN Refuse("invalid_argument")
       ELSE Reply([Ok EXCEPT !.rows = rows, !.joined = Attached(r, rows, cells)])
    /\ Unchanged

(* Saving is for admins, unless nobody has to say who they are.            *)
Save ==
    /\ At("save")
    /\ IF auth /\ Admin \notin q.held THEN Refuse("forbidden")
       ELSE Reply(Ok) \/ Refuse("save_failed")
    /\ Unchanged

(* Both reasons not to answer about a dataset look the same.               *)
Unknown(c) == Hidden(c) \/ c \notin Cubes

(* describe, of all cells and all members: text wins over numbers, and     *)
(* where there is neither the declared kind decides; the values are        *)
(* counted where they are the column of a cube without measures.           *)
Facts(c, stored) ==
    LET values  == {stored[k] : k \in DOMAIN stored}
        numbers == values \cap Int
        numeric == values \subseteq numbers /\ (numbers # {} \/ c \in Aggregating)
        bounded == numeric /\ numbers # {}
    IN  [count    |-> Cardinality(DOMAIN stored),
         numeric  |-> numeric,
         least    |-> IF bounded THEN Min(numbers) ELSE None,
         greatest |-> IF bounded THEN Max(numbers) ELSE None,
         sizes    |-> [a \in DOMAIN DimensionsOf[c] |-> Cardinality(Everyone(DimensionsOf[c][a]))],
         distinct |-> IF MeasureOf[c] = 0 THEN Cardinality(values) ELSE 0]

Describe ==
    LET c == q.request.dataset IN
    /\ At("describe")
    /\ IF Unknown(c) THEN Refuse("unknown_dataset")
       ELSE Reply([Ok EXCEPT !.facts = Facts(c, cells[c])])
    /\ Unchanged

(* Mutant: the page is cut before the hidden cells are taken out.          *)
Page_OfAll(c, r) ==
    {page \cap Visible(c) : page \in
        kSubset(Min({r.limit, Max({Cardinality(DOMAIN cells[c]) - r.offset, 0})}), DOMAIN cells[c])}

(* The pages of the visible cells, which come in no particular order.      *)
Page(c, r) ==
    kSubset(Min({r.limit, Max({Cardinality(Visible(c)) - r.offset, 0})}), Visible(c))

Sample ==
    LET c == q.request.dataset IN
    /\ At("sample")
    /\ IF Unknown(c) THEN Refuse("unknown_dataset")
       ELSE IF q.request.limit = None THEN Refuse("invalid_argument")
       ELSE \E page \in Page(c, q.request) :
                Reply([Ok EXCEPT !.rows = page, !.count = Cardinality(Visible(c))])
    /\ Unchanged

(* Mutant: the joined cube is not looked at.                               *)
JoinIsHidden_Never(r) == FALSE

JoinIsHidden(r) == r.join # None /\ Hidden(r.join)

(* domain_map: a member is left out when any of its leaves is hidden.      *)
Domain(d) == {m \in Everyone(d) : LeavesOf(d, m) \cap DeniedLeaves(d) = {}}

Query ==
    LET r == q.request  rows == Kept(r, Visible(r.dataset), cells) IN
    /\ At("query")
    /\ IF Unknown(r.dataset) \/ JoinIsHidden(r) \/ ~(Tables(r) \subseteq Cubes)
         THEN Refuse("unknown_dataset")
         ELSE IF ~Joinable(r) THEN Refuse("invalid_argument")
         ELSE Reply([Ok EXCEPT !.rows = rows, !.joined = Attached(r, rows, cells),
                               !.names = IF r.domain = None THEN {} ELSE Domain(r.domain)])
    /\ Unchanged

(* The checks of a batch, all of them before its first cell is written.    *)
Vetoed(c, r) ==
    \/ Hidden(c)
    \/ LevelFor(q.table, c) < Write
    \/ c \in Cubes /\ \E k \in r.cells, a \in DOMAIN DimensionsOf[c] :
           LET d == DimensionsOf[c][a]
           IN  \/ ReadLevelFor(q.dims, d, k[a]) < Write
               \/ r.create /\ ~CanCreateMember(q.dims, d)

(* Mutant: a control cube is a cube like any other.                        *)
Guarded_Open(c) == FALSE

(* write_cells: control cubes are not data.                                *)
Guarded(c) == c \in ControlCubes

Missing(c, r) ==
    \E k \in r.cells, a \in DOMAIN DimensionsOf[c] : k[a] \notin members[DimensionsOf[c][a]]

(* The other refusals of write_cells: a cube the engine maintains, nothing *)
(* to write, a member that is missing and not to be made, and a text in a  *)
(* cube of numbers.                                                        *)
Refusals(c, r) ==
    {code \in {"invalid_argument", "unknown_member"} :
        IF code = "unknown_member" THEN ~r.create /\ Missing(c, r)
        ELSE c \in Derived \/ r.cells = {} \/ (c \in Aggregating /\ r.value \notin Int)}

(* The codes a batch may be turned away with; none, and it is written.     *)
Turned(c, r) ==
    IF Vetoed(c, r) THEN {"forbidden"}
    ELSE IF c \notin Cubes THEN {"unknown_dataset"}
    ELSE IF Guarded(c) THEN {"forbidden"} ELSE Refusals(c, r)

WriteCells ==
    LET r == q.request
        c == r.dataset
    IN
    /\ At("write")
    /\ \/ /\ \E code \in Turned(c, r) : Refuse(code)
          /\ UNCHANGED <<cells, members>>
       \/ /\ Turned(c, r) = {}
          /\ Put(c, r.cells, r.value)
          /\ Reply(Ok)
    /\ UNCHANGED <<auth, writes>>

Next ==
    \/ \E w \in Writes : WriteElsewhere(w)
    \/ \E r \in Requests : Ask(r)
    \/ ReadRules
    \/ Capabilities \/ Datasets \/ Sql \/ Save \/ Describe \/ Sample \/ Query \/ WriteCells

Spec == Init /\ [][Next]_vars

-------------------------------------------------------------------------------
(* The properties.                                                         *)

(* The texts that the rows of the roles held have at a coordinate.         *)
TableRows(c) ==
    {cells[TableSecurity][k] : k \in {j \in DOMAIN cells[TableSecurity] :
                                         j[1] \in q.held /\ j[2] = c}}
MemberRows(d, m) ==
    {cells[DimensionSecurity][k] : k \in {j \in DOMAIN cells[DimensionSecurity] :
                                             j[1] \in q.held /\ j[2] = d /\ j[3] = m}}

Bars(texts)     == \E t \in texts : t \notin {ReadText, WriteText}
ReadOnly(texts) == \E t \in texts : t # WriteText

(* Whether the rules keep a cube, or a member, from sight.                 *)
Closed(c) ==
    \/ Bars(TableRows(c))
    \/ c \in Cubes /\ \E a \in DOMAIN DimensionsOf[c] : Bars(MemberRows(DimensionsOf[c][a], AllMembers))

Concealed(d, m) ==
    \/ m # AllMembers /\ Bars(MemberRows(d, m))
    \/ \E u \in DOMAIN Under : /\ u[1] = d /\ u[2] # AllMembers
                                /\ m \in Under[u] /\ Bars(MemberRows(d, u[2]))

InSight(c) ==
    {k \in DOMAIN q.snapshot[c] : \A a \in DOMAIN k : ~Concealed(DimensionsOf[c][a], k[a])}

(* Whether the rules let a batch be written.  The rule that counts for a   *)
(* member is its own or, failing that, its dimension's: one for a total    *)
(* above it does not, and a leaf that is concealed only by its total may   *)
(* be written (serve.rs:952-972), though "a member the role may not see    *)
(* cannot be written either" (serve.rs:950, WRITE-API-DESIGN.md:111).      *)
Writable(r) ==
    LET c == r.dataset IN
    /\ c \notin ControlCubes
    /\ ~Closed(c)
    /\ ~ReadOnly(TableRows(c))
    /\ c \in Cubes => \A k \in r.cells, a \in DOMAIN DimensionsOf[c] :
           LET d     == DimensionsOf[c][a]
               own   == IF k[a] = AllMembers THEN {} ELSE MemberRows(d, k[a])
               whole == MemberRows(d, AllMembers)
           IN  /\ ~ReadOnly(IF own # {} THEN own ELSE whole)
               /\ r.create => ~ReadOnly(whole)

Obeyed(r, a) ==
    /\ r.route = "datasets" => a.cubes = {c \in Cubes : ~Closed(c)}
    /\ \A c \in Tables(r) : r.route \in {"describe", "sample", "sql", "query"} => ~Closed(c)
    /\ r.route = "describe" => a.facts = Facts(r.dataset, q.snapshot[r.dataset])
    /\ r.route \in {"sql", "query"} =>
           /\ a.rows = Kept(r, InSight(r.dataset), q.snapshot)
           /\ a.joined = Attached(r, a.rows, q.snapshot)
    /\ r.route = "sample" => /\ a.rows \subseteq InSight(r.dataset)
                             /\ a.count = Cardinality(InSight(r.dataset))
                             /\ Cardinality(a.rows) =
                                    Min({r.limit, Max({a.count - r.offset, 0})})
    /\ r.route = "query" => \A m \in a.names : \A n \in LeavesOf(r.domain, m) :
                                ~Concealed(r.domain, n)
    /\ r.route = "write" => Writable(r)

(* SECURITY-DESIGN.md and access.rs:20.  No route answers about a cube     *)
(* that the roles may not see, and the rows, the counts of sample and the  *)
(* names it answers with are those of the cells and members they may see,  *)
(* no more and no less.  Two things look further.  describe's numbers are  *)
(* taken over all cells and members, so they are the same for every        *)
(* session (wire.rs:466-571).  The attributes that a join gives a row that *)
(* may be seen are all that its key has, those at members of the joined    *)
(* cube's other dimension that are denied included                         *)
(* (attribute_join.rs:245-259; SECURITY-DESIGN.md:128 has them absent).    *)
(* And a batch is written only if the members it names, or else their      *)
(* dimensions, are not barred to the roles by a rule of their own.         *)
AnswersObeyTheRules ==
    q.pc = "done" /\ q.answer.code = "ok" /\ q.request.route # "capabilities" =>
        /\ auth => q.request.session \notin {None, Stale}
        /\ Obeyed(q.request, q.answer)

(* Default accept: a request about cubes that exist, with a good token, is *)
(* turned away only by a rule that one of its roles has.                   *)
RefusalsHaveARule ==
    /\ q.pc = "done" /\ Tables(q.request) \subseteq Cubes
    /\ \/ q.answer.code = "unknown_dataset"
       \/ q.answer.code = "forbidden" /\ q.request.route = "write"
    => \/ \E c \in Tables(q.request) : Closed(c)
       \/ q.request.route = "write" /\ ~Writable(q.request)
===============================================================================
