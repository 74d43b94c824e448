------------------------------- MODULE MCRoutes -------------------------------
EXTENDS Routes

CONSTANTS sales, notes, tables, dimensions, list,    \* cubes; list is derived
          region, item, note, role, cube, dimension, member,    \* dimensions
          east, west, total, north,                  \* regions; north is new
          pen,                                       \* an item
          boss, phone,                               \* attributes
          reader, admin,                             \* roles
          ALL, nowhere,
          text, NONE, READ, WRITE, REDA

MCCubes == {sales, notes, tables, dimensions, list}
MCDimensionsOf ==
    sales :> <<region, item>> @@ notes :> <<region, note>> @@ list :> <<cube>> @@
    tables :> <<role, cube>> @@ dimensions :> <<role, dimension, member>>
MCAggregating == {sales}
MCDerived     == {list}
MCMeasureOf   == [c \in MCCubes |-> IF c = notes THEN 2 ELSE 0]
MCUnder       == <<region, total>> :> {east, west}

MCMembers ==
    region :> {east, west} @@ item :> {pen} @@ note :> {boss, phone} @@ role :> {reader, admin} @@
    cube :> MCCubes @@ dimension :> {region, item, note} @@
    member :> {east, west, total, pen, boss, ALL}

Sold == <<east, pen>> :> 1 @@ <<west, pen>> :> 2
Rule(k) == {k :> v : v \in {NONE, READ, WRITE, REDA}}
Both(A, B) == {a @@ b : a \in A, b \in B}

(* Rules for cubes: one for one role, or one for each; then for dimensions *)
(* and members: none, one, or two that meet in a member.                   *)
CubeRules ==
    {<<>>} \cup Rule(<<reader, sales>>) \cup Rule(<<reader, notes>>)
    \cup {<<reader, sales>> :> v @@ <<admin, sales>> :> w : v, w \in {READ, WRITE}}
    \cup {<<reader, sales>> :> WRITE @@ <<admin, sales>> :> NONE,
          <<admin, nowhere>> :> NONE}
OfMembers ==
    {<<>>} \cup Rule(<<reader, region, total>>) \cup Rule(<<reader, region, east>>)
    \cup Rule(<<reader, item, pen>>) \cup {<<reader, note, boss>> :> NONE} \cup Rule(<<admin, region, west>>)
    \cup {<<reader, region, east>> :> WRITE @@ <<admin, region, total>> :> v : v \in {NONE, READ}}
OfWholes ==
    {<<>>, <<admin, region, ALL>> :> NONE, <<reader, item, ALL>> :> NONE,
     <<reader, region, ALL>> :> WRITE @@ <<admin, region, ALL>> :> READ}
    \cup Rule(<<reader, region, ALL>>)

MCStarts ==
    {[c \in MCCubes |-> CASE c = sales -> Sold
                          [] c = notes -> <<east, boss>> :> text
                          [] c = tables -> r[1]
                          [] c = dimensions -> r[2]
                          [] OTHER -> <<>>] :
        r \in CubeRules \X {<<>>, <<reader, region, ALL>> :> READ}
             \cup {<<>>, <<admin, sales>> :> READ} \X Both(OfMembers, OfWholes)}

Put1(c, k, v) == [cube |-> c, at |-> k, value |-> v]
MCWrites == {Put1(sales, <<north, pen>>, 3), Put1(notes, <<west, phone>>, 4)}

Sessions == {{reader}, {reader, admin}}
To(route, c) == [NoRequest EXCEPT !.route = route, !.dataset = c]

Reads ==
    {To(route, c) : route \in {"describe", "sample", "query", "sql"}, c \in {sales, nowhere}}
    \cup {To("datasets", None), To("describe", notes), To("save", None),
          [To("sql", sales) EXCEPT !.select = FALSE],
          [To("sample", sales) EXCEPT !.limit = 1, !.offset = 1],
          [To("sample", sales) EXCEPT !.limit = 2],
          [To("query", sales) EXCEPT !.join = notes, !.attributes = {boss, phone}, !.inner = TRUE],
          [To("query", sales) EXCEPT !.join = notes, !.using = item],
          [To("query", sales) EXCEPT !.join = notes, !.attributes = {boss, pen}],
          [To("query", sales) EXCEPT !.domain = region],
          [To("query", sales) EXCEPT !.join = nowhere],
          [To("sql", sales) EXCEPT !.join = list]}
    \cup {[To("sql", sales) EXCEPT !.join = notes, !.attributes = as, !.inner = b] :
             as \in {{}, {boss}}, b \in BOOLEAN}
Edit(c, ks, v, create) ==
    [To("write", c) EXCEPT !.cells = ks, !.value = v, !.create = create]
Edits ==
    {Edit(sales, ks, 5, b) : ks \in {{<<east, pen>>}, {<<east, pen>>, <<west, pen>>}, {<<north, pen>>}},
                             b \in BOOLEAN}
    \cup {Edit(sales, {<<east, pen>>}, text, FALSE), Edit(list, {<<sales>>}, text, FALSE),
          Edit(tables, {<<reader, sales>>}, WRITE, FALSE), Edit(nowhere, {}, 1, FALSE),
          Edit(sales, {}, 1, FALSE)}

MCRequests ==
    {[r EXCEPT !.session = s] : r \in Reads \cup Edits, s \in Sessions}
    \cup {[r EXCEPT !.session = s] : s \in {Stale, None, {}},
             r \in {To("capabilities", None), To("save", None), To("describe", sales)}}
===============================================================================
