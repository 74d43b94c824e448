-------------------------------- MODULE Queries --------------------------------
(***************************************************************************)
(* A query of one cube, from the request to the page that answers it:      *)
(* execute_plan and the SELECT of execute_sql, which both end in           *)
(* Cube::query_slice, while writes add members and cells.  A lock is held  *)
(* for one dimension or for the snapshot, so what is read under each is a  *)
(* step of its own.                                                        *)
(*                                                                         *)
(* Members, measures and texts are model values, amounts integers, and an  *)
(* average is the pair of a sum and a count.  Hierarchies are fixed (the   *)
(* server never edits them) and one per dimension; consolidated measures   *)
(* are left out.  A joined cube has the shared dimension and that of its   *)
(* attributes.  A formula is the name of its root; %, ^, LOD and literals  *)
(* that are no numbers are left out.                                       *)
(***************************************************************************)
EXTENDS Integers, FiniteSets, SequencesExt, FiniteSetsExt

CONSTANTS Dims,          \* number of dimensions
          Leaves,        \* axis -> the leaves it may have
          Rollups,       \* axis -> (consolidated member -> (leaf -> weight))
          Default,       \* axis -> its default member
          Initial,       \* axis -> its first leaves, in display order
          Starts,        \* the cells a behaviour may start with
          Writes,        \* cell writes: coordinates and value
          MaxWrites,     \* bound on them
          Cubes,         \* measureAxis (0: none), aggregating, system
          Requests,      \* what a client may ask
          Conformed,     \* the axis the attribute cube shares
          Attributes,    \* its measures
          Tagged,        \* <<member, attribute>> -> text: its first cells
          Tags,          \* writes to it: at and value
          Formulas,      \* name -> a node: op, args (names), field, value
          Depth,         \* name -> how deep the formula nests
          Texts,         \* values that are text
          Spelling,      \* members and texts -> alphabetical position
          Value, None    \* the implicit measure; no such thing

Axis    == 1..Dims
Members == UNION {Leaves[a] : a \in Axis}
Amounts == Int \cup Texts
Names   == DOMAIN Spelling

ASSUME DimsAreCounted == Dims \in Nat \ {0}

ASSUME LeavesAreListedOnce ==
    /\ Initial \in [Axis -> Seq(Members)]
    /\ \A a \in Axis : /\ Range(Initial[a]) \subseteq Leaves[a]
                       /\ IsInjective(Initial[a])

ASSUME RollupsAreOfLeaves ==
    \A a \in Axis : \A m \in DOMAIN Rollups[a] :
        /\ DOMAIN Rollups[a][m] \subseteq Range(Initial[a]) /\ m \notin Leaves[a]
        /\ \A l \in DOMAIN Rollups[a][m] : Rollups[a][m][l] \in Int

ASSUME CellsAreAtLeaves ==
    /\ \A cs \in Starts : IsFiniteSet(DOMAIN cs) /\ \A c \in DOMAIN cs :
           cs[c] \in Amounts /\ c \in [Axis -> Members] /\ \A a \in Axis : c[a] \in Range(Initial[a])
    /\ \A w \in Writes : w.at \in [Axis -> Members] /\ w.value \in Amounts

ASSUME CubesHaveMeasures ==
    Cubes \subseteq [measureAxis : 0..Dims, aggregating : BOOLEAN, system : BOOLEAN]

ASSUME NamesAreSpelled ==
    /\ Texts \cup Members \subseteq Names
    /\ \A t \in Names : Spelling[t] \in Nat
    /\ \A a \in Axis : Default[a] \in Names /\ DOMAIN Rollups[a] \subseteq Names
    /\ \A k \in DOMAIN Tagged : Tagged[k] \in Names
    /\ \A w \in Tags : w.value \in Names

ASSUME NoneIsNothing ==
    /\ None \notin Names /\ None \notin Seq(Names)
    /\ \A D \in SUBSET Names : None \notin [D -> Int]

(* Columns are named, or are the number of an axis.                        *)
ASSUME NamesAreNoNumbers == (Names \cup {Value} \cup Attributes) \cap Int = {}

(* Formulas are trees.                                                     *)
ASSUME FormulasAreTrees ==
    /\ IsFiniteSet(DOMAIN Formulas)
    /\ \A f \in DOMAIN Formulas :
           /\ Depth[f] \in 1..Cardinality(DOMAIN Formulas)
           /\ Formulas[f].args \in Seq(DOMAIN Formulas)
           /\ \A g \in Range(Formulas[f].args) : Depth[g] < Depth[f]
           /\ Formulas[f].op = "number" => Formulas[f].value \in Int \X (Nat \ {0})

(* A name that is asked for is no number, SQL knows no formulas, and what  *)
(* is denied is a member before anybody adds one.                          *)
IsList(s) == s \in Seq(Range(s))

IsRequest(r) ==
    /\ r.front \in {"plan", "sql"} /\ r.groupBy \subseteq Axis
    /\ IsList(r.measures) /\ IsList(r.filters) /\ IsList(r.order)
    /\ r.offset \in Nat /\ (r.limit # None => r.limit \in Nat)
    /\ \A e \in Range(r.measures) :
           /\ e = [name |-> e.name, fold |-> e.fold, expr |-> e.expr]
           /\ e.name \notin Axis
           /\ e.expr # None => r.front = "plan" /\ e.expr \in DOMAIN Formulas
    /\ \A f \in Range(r.filters) : f.axis \in Axis /\ f.members \in Seq(Names) \ {<<>>}
    /\ \A a \in Axis : r.denied[a] \subseteq Range(Initial[a]) \cup DOMAIN Rollups[a]

ASSUME RequestsAreWhole == \A r \in Requests : IsRequest(r)

VARIABLES cube,    \* the cube that is asked
          known,   \* axis -> its leaves, in display order
          shown,   \* axis -> the cached display order
          cells,   \* coordinates -> value
          tags,    \* the attribute cube's cells
          writes,  \* number of writes so far
          q        \* the query

vars == <<cube, known, shown, cells, tags, writes, q>>

(* A map with one entry more, n sequences after one another, the elements  *)
(* of a sequence at some of its places, and the elements of a set in an    *)
(* order (a relation).                                                     *)
With(f, k, v) == [x \in DOMAIN f \cup {k} |-> IF x = k THEN v ELSE f[x]]

Concat(n, parts) ==
    LET upto[i \in 0..n] == IF i = 0 THEN <<>> ELSE upto[i - 1] \o parts[i]
    IN  upto[n]

Only(s, I) ==
    Concat(Len(s), [n \in DOMAIN s |-> IF n \in I THEN <<s[n]>> ELSE <<>>])

Listed(S, R) == CHOOSE s \in [1..Cardinality(S) -> S] :
                    \A i, j \in DOMAIN s : i < j => <<s[i], s[j]>> \in R

NoRequest == [front |-> "plan", measures |-> <<>>, groupBy |-> {}, filters |-> <<>>,
              denied |-> [a \in Axis |-> {}], join |-> None,
              order |-> <<>>, offset |-> 0, limit |-> None]

(* SliceQuery: measures, folds, filters, denied; columns: name -> formula. *)
(* asked, snapshot and joined are history: the leaves when the request     *)
(* came in, the cells when scanned, the attribute cells when joined.       *)
Idle == [pc |-> "idle", request |-> NoRequest, at |-> 1,
         measures |-> {}, folds |-> <<>>, columns |-> <<>>, filters |-> [a \in Axis |-> None],
         denied |-> [a \in Axis |-> {}], scope |-> [a \in Axis |-> None],
         left |-> {}, groups |-> <<>>, rows |-> <<>>, page |-> <<>>, truncated |-> FALSE,
         asked |-> Initial, snapshot |-> <<>>, joined |-> <<>>]

Init ==
    /\ cube \in Cubes
    /\ known = Initial
    /\ shown \in {Initial, [a \in Axis |-> <<>>]}
    /\ cells \in Starts
    /\ tags = Tagged
    /\ writes = 0
    /\ q = Idle

-------------------------------------------------------------------------------
(* Writes: a new leaf goes to the end of the display order, and its cell   *)
(* is stored after it.                                                     *)
AddLeaf(a, m) ==
    /\ m \in Leaves[a] \ Range(known[a])
    /\ known' = [known EXCEPT ![a] = Append(@, m)]
    /\ UNCHANGED <<cube, shown, cells, tags, writes, q>>

PutCell(w) ==
    /\ writes < MaxWrites
    /\ \A a \in Axis : w.at[a] \in Range(known[a])
    /\ cells' = With(cells, w.at, w.value)
    /\ writes' = writes + 1
    /\ UNCHANGED <<cube, known, shown, tags, q>>

PutTag(w) ==
    /\ writes < MaxWrites
    /\ w.at[1] \in Range(known[Conformed])
    /\ tags' = With(tags, w.at, w.value)
    /\ writes' = writes + 1
    /\ UNCHANGED <<cube, known, shown, cells, q>>

(* Another query brings a display order up to date.                        *)
RefreshOrder(a) ==
    /\ shown[a] # known[a]
    /\ shown' = [shown EXCEPT ![a] = known[a]]
    /\ UNCHANGED <<cube, known, cells, tags, writes, q>>

-------------------------------------------------------------------------------
(* The request.                                                            *)
Sql    == q.request.front = "sql"
Refuse == q' = [q EXCEPT !.pc = "refused"]

Implemented == {"SUM", "AVG", "COUNT", "MIN", "MAX", "COUNTD"}

ASSUME NoneIsNoFold == None \notin Implemented

Ask(r) ==
    /\ q.pc \in {"idle", "done", "refused"}
    /\ q' = [Idle EXCEPT !.request = r, !.asked = known,
                         !.pc = IF \/ \E i \in DOMAIN r.measures :
                                           r.measures[i].fold \notin
                                               IF r.measures[i].expr = None
                                                 THEN Implemented \cup {None} ELSE {None}
                                   \/ \E i \in DOMAIN r.filters : r.filters[i].op = "top"
                                THEN "refused" ELSE "measures"]
    /\ UNCHANGED <<cube, known, shown, cells, tags, writes>>

(* The aggregates of a formula, and whether there is no other function     *)
(* call in it.  An operator that calc.rs does not know ("unknown") is not  *)
(* looked for here: it fails where a row applies it.                       *)
Aggregates == {"SUM", "AVG", "COUNT", "MIN", "MAX"}
Arithmetic == {"+", "-", "*", "/", ">", "="}
Operators  == Arithmetic \cup {"AND", "OR", "unknown"}
Others     == {"number", "null", "ZN", "IFNULL", "IF", "NOT", "minus"}

(* The parser gives every operator its operands.                           *)
ASSUME OperandsAreThere ==
    \A f \in DOMAIN Formulas :
        LET op == Formulas[f].op  n == Len(Formulas[f].args)
        IN  /\ op \in Aggregates \cup {"number", "null"} => n = 0
            /\ op \in {"ZN", "NOT", "minus"}             => n = 1
            /\ op \in Operators \cup {"IFNULL"}          => n = 2
            /\ op = "IF"                                 => n = 3

Slots[f \in DOMAIN Formulas] ==
    LET node == Formulas[f]
    IN  IF node.op \in Aggregates
          THEN <<[name |-> node.field, fold |-> node.op, expr |-> None]>>
        ELSE Concat(Len(node.args), [i \in DOMAIN node.args |-> Slots[node.args[i]]])

Evaluable[f \in DOMAIN Formulas] ==
    /\ Formulas[f].op \in Aggregates \cup Operators \cup Others
    /\ \A g \in Range(Formulas[f].args) : Evaluable[g]

(* A measure that stands for every measure of the cube.                    *)
IsAll(e) == cube.measureAxis # 0 /\ e.name = Value /\ e.expr = None /\ (Sql => e.fold = None)

(* The columns asked for, and the measures they are made of.               *)
Asked ==
    LET axis == known[cube.measureAxis]
        columns(e) == IF IsAll(e) THEN [j \in DOMAIN axis |-> [e EXCEPT !.name = axis[j]]]
                                  ELSE <<e>>
    IN  Concat(Len(q.request.measures),
               [i \in DOMAIN q.request.measures |-> columns(q.request.measures[i])])

Expanded ==
    LET cs == Asked
    IN  Concat(Len(cs), [i \in DOMAIN cs |-> IF cs[i].expr = None THEN <<cs[i]>>
                                              ELSE Slots[cs[i].expr]])

IsMeasure(m) ==
    IF cube.measureAxis = 0 THEN m = Value ELSE m \in Range(known[cube.measureAxis])

(* A plan that names no aggregation means SUM; a bare SQL column records   *)
(* none, and the last one recorded for a measure wins.                     *)
Recorded(es) ==
    IF Sql THEN Only(es, {i \in DOMAIN es : es[i].fold # None})
    ELSE [i \in DOMAIN es |-> [es[i] EXCEPT !.fold = IF @ = None THEN "SUM" ELSE @]]

(* Mutant: the second aggregation of a measure replaces the first.         *)
FoldedTwice_LastWins(es) == FALSE

FoldedTwice(es) ==
    /\ ~Sql
    /\ \E i, j \in DOMAIN es : es[i].name = es[j].name /\ es[i].fold # es[j].fold

(* Of the entries with a name the last one counts.                         *)
Titles(es)     == {es[i].name : i \in DOMAIN es}
LastOf(es, n)  == es[Max({i \in DOMAIN es : es[i].name = n})]

TakeMeasures ==
    LET cs == Asked  es == Expanded  rs == Recorded(es)
    IN  /\ q.pc = "measures"
        /\ IF \/ \E i \in DOMAIN cs : cs[i].expr # None /\ ~Evaluable[cs[i].expr]
              \/ \E i \in DOMAIN es : ~IsMeasure(es[i].name)
              \/ FoldedTwice(rs)
              \/ es # <<>> /\ cube.measureAxis \in q.request.groupBy
           THEN Refuse
           ELSE q' = [q EXCEPT !.pc = "filters",
                               !.measures = Titles(es),
                               !.columns = [n \in Titles(cs) |-> LastOf(cs, n).expr],
                               !.folds = [n \in Titles(rs) |-> LastOf(rs, n).fold]]
        /\ shown' = IF \E i \in DOMAIN q.request.measures : IsAll(q.request.measures[i])
                      THEN [shown EXCEPT ![cube.measureAxis] = known[cube.measureAxis]]
                      ELSE shown
        /\ UNCHANGED <<cube, known, cells, tags, writes>>

-------------------------------------------------------------------------------
(* The filters.                                                            *)
Under(a, m) ==
    IF m \in Range(known[a]) THEN [l \in {m} |-> 1]
    ELSE IF m \in DOMAIN Rollups[a] THEN Rollups[a][m] ELSE <<>>

(* Mutant: only the member itself is left out, not what is under it.       *)
Except_ItselfOnly(a, m) == Only(known[a], {i \in DOMAIN known[a] : known[a][i] # m})

Except(a, m) == Only(known[a], {i \in DOMAIN known[a] : known[a][i] \notin DOMAIN Under(a, m)})

FilterValues(f) == IF f.op = "notEquals" THEN Except(f.axis, f.members[1]) ELSE f.members

Combined(old, new) == IF Sql \/ old = None THEN new ELSE old \o new

AddFilter ==
    LET f == q.request.filters[q.at]
    IN  /\ q.pc = "filters"
        /\ q.at \in DOMAIN q.request.filters
        /\ IF \/ f.op \notin {"equals", "in"} \cup (IF Sql THEN {} ELSE {"notEquals"})
              \/ f.op = "notEquals" /\ Under(f.axis, f.members[1]) = <<>>
           THEN Refuse
           ELSE q' = [q EXCEPT !.at = @ + 1,
                               !.filters[f.axis] = Combined(@, FilterValues(f))]
        /\ shown' = IF ~Sql /\ f.op = "notEquals" /\ Under(f.axis, f.members[1]) # <<>>
                      THEN [shown EXCEPT ![f.axis] = known[f.axis]] ELSE shown
        /\ UNCHANGED <<cube, known, cells, tags, writes>>

(* SQL puts the default member of every dimension that is neither grouped  *)
(* nor filtered, but for the measures and the system cubes.                *)
Defaulted == {a \in Axis : /\ Sql /\ ~cube.system
                           /\ a # cube.measureAxis
                           /\ a \notin q.request.groupBy}

(* Mutant: what is under a hidden member stays visible.                    *)
Hidden_ItselfOnly(a) == q.request.denied[a]

(* denied_leaf_ids: the ids a denied name has, and those under it; a name  *)
(* that the dimension does not know has none.                              *)
Hidden(a) == UNION {DOMAIN Under(a, m) \cup ({m} \cap DOMAIN Rollups[a]) : m \in q.request.denied[a]}

EndFilters ==
    /\ q.pc = "filters"
    /\ q.at > Len(q.request.filters)
    /\ IF Sql /\ q.measures # {} /\ cube.measureAxis # 0 /\ q.filters[cube.measureAxis] # None
         THEN Refuse
         ELSE q' = [q EXCEPT !.pc = "order", !.at = 1,
                             !.filters = [a \in Axis |-> IF a \in Defaulted /\ @[a] = None
                                                           THEN <<Default[a]>> ELSE @[a]],
                             !.denied = [a \in Axis |-> Hidden(a)]]
    /\ UNCHANGED <<cube, known, shown, cells, tags, writes>>

-------------------------------------------------------------------------------
(* The slice.                                                              *)
(* Mutant: the order is only brought up to date for the first dimension.   *)
Ordered_FirstOnly(a) == IF a = 1 THEN known[a] ELSE shown[a]

Ordered(a) == known[a]

EnsureDisplayOrder ==
    /\ q.pc = "order"
    /\ shown' = [shown EXCEPT ![q.at] = Ordered(q.at)]
    /\ q' = IF q.at < Dims THEN [q EXCEPT !.at = @ + 1]
                           ELSE [q EXCEPT !.at = 1, !.pc = "resolve"]
    /\ UNCHANGED <<cube, known, cells, tags, writes>>

(* What a filter value stands for: in an attribute cube only itself.       *)
Stored(a, m) ==
    IF cube.aggregating THEN Under(a, m)
    ELSE IF m \in Range(known[a]) \cup DOMAIN Rollups[a] THEN [l \in {m} |-> 1] ELSE <<>>

(* The leaves of several members, each with the weight it has in the last. *)
Scope(a, members) ==
    LET of(l) == {i \in DOMAIN members : l \in DOMAIN Stored(a, members[i])}
    IN  [l \in UNION {DOMAIN Stored(a, members[i]) : i \in DOMAIN members} |->
            Stored(a, members[Max(of(l))])[l]]

Resolve ==
    LET a == q.at  members == q.filters[a]
    IN  /\ q.pc = "resolve"
        /\ IF members # None /\ \E i \in DOMAIN members : Stored(a, members[i]) = <<>>
             THEN Refuse
             ELSE q' = [q EXCEPT !.scope[a] =
                            IF members = None THEN None ELSE Scope(a, members),
                                 !.at = IF a < Dims THEN a + 1 ELSE 1,
                                 !.pc = IF a < Dims THEN @ ELSE "scan"]
        /\ UNCHANGED <<cube, known, shown, cells, tags, writes>>

InScope(c) == \A a \in Axis : q.scope[a] # None => c[a] \in DOMAIN q.scope[a]

Scan ==
    /\ q.pc = "scan"
    /\ q' = [q EXCEPT !.pc = "fold", !.snapshot = cells,
                      !.left = {c \in DOMAIN cells : InScope(c)}]
    /\ UNCHANGED <<cube, known, shown, cells, tags, writes>>

(* The dimensions of a group, and of them the ones that are a column.      *)
Pivoted == q.measures # {}
KeyAxes == Only([a \in Axis |-> a],
                {a \in Axis : IF a = cube.measureAxis THEN ~Pivoted ELSE a \in q.request.groupBy})
RowAxes == LET axes == KeyAxes
           IN  Only(axes, {i \in DOMAIN axes : axes[i] \in q.request.groupBy})
At(c, axes) == [i \in DOMAIN axes |-> c[axes[i]]]

FoldOf(m)    == IF m \in DOMAIN q.folds THEN q.folds[m] ELSE "SUM"
MeasureOf(c) == IF cube.measureAxis # 0 /\ Pivoted THEN c[cube.measureAxis] ELSE Value

(* Mutant: only the last dimension's weight is applied.                    *)
Weighted_OnceOnly(c, n) ==
    IF q.scope[Dims] # None /\ cube.aggregating THEN n * q.scope[Dims][c[Dims]] ELSE n

Weighted(c, n) ==
    LET upto[a \in 0..Dims] ==
            IF a = 0 THEN n
            ELSE upto[a - 1] * (IF q.scope[a] = None THEN 1 ELSE q.scope[a][c[a]])
    IN  IF cube.aggregating THEN upto[Dims] ELSE n

(* Acc: one for every measure of a group.  Among numbers the first one, and *)
(* the first after a text, starts anew; a text replaces what there was.    *)
NewAcc(fold) ==
    IF fold = "COUNTD" THEN [kind |-> "distinct", values |-> {}]
    ELSE [kind |-> "num", sum |-> 0, raw |-> 0, count |-> 0, least |-> 0, most |-> 0]

Add(acc, raw, weighted) ==
    IF acc.kind = "distinct" THEN [acc EXCEPT !.values = @ \cup {raw}]
    ELSE IF raw \in Texts THEN [kind |-> "text", text |-> raw]
    ELSE IF acc.kind = "num" /\ acc.count > 0
      THEN [kind |-> "num", sum |-> acc.sum + weighted, raw |-> acc.raw + raw,
            count |-> acc.count + 1, least |-> Min({acc.least, raw}),
            most |-> Max({acc.most, raw})]
    ELSE [kind |-> "num", sum |-> weighted, raw |-> raw, count |-> 1,
          least |-> raw, most |-> raw]

(* Numbers are fractions.                                                  *)
Finish(acc, fold) ==
    CASE acc.kind = "text" -> acc.text
      [] acc.kind = "distinct" -> <<Cardinality(acc.values), 1>>
      [] OTHER -> CASE fold = "SUM"   -> <<acc.sum, 1>>
                    [] fold = "COUNT" -> <<acc.count, 1>>
                    [] fold = "AVG"   -> <<acc.raw, acc.count>>
                    [] fold = "MIN"   -> <<acc.least, 1>>
                    [] fold = "MAX"   -> <<acc.most, 1>>

(* Mutant: the cell's value is read again, not taken from the snapshot.    *)
Read_Again(c) == cells[c]

Read(c) == q.snapshot[c]

(* The scan gives the cells in no particular order.                        *)
Fold(c) ==
    LET key  == At(c, KeyAxes)
        m    == MeasureOf(c)
        accs == IF key \in DOMAIN q.groups THEN q.groups[key] ELSE <<>>
        acc  == IF m \in DOMAIN accs THEN accs[m] ELSE NewAcc(FoldOf(m))
        raw  == Read(c)
        new  == Add(acc, raw, IF raw \in Texts THEN raw ELSE Weighted(c, raw))
    IN  /\ q.pc = "fold"
        /\ q' = [q EXCEPT !.left = @ \ {c},
                          !.groups = IF \E a \in Axis : c[a] \in q.denied[a] THEN @
                                     ELSE With(@, key, With(accs, m, new))]
        /\ UNCHANGED <<cube, known, shown, cells, tags, writes>>

-------------------------------------------------------------------------------
(* The rows.                                                               *)
Outputs ==
    IF Pivoted THEN q.measures
    ELSE IF q.request.groupBy = {} \/ (~Sql /\ cube.measureAxis = 0 /\ q.request.measures = <<>>)
      THEN {Value} ELSE {}

Row(key) ==
    [key |-> key,
     values |-> [m \in Outputs |-> IF m \in DOMAIN q.groups[key]
                                     THEN Finish(q.groups[key][m], FoldOf(m)) ELSE None]]

(* A member that the cached order does not have comes last.                *)
Place(order, m) ==
    IF m \in Range(order) THEN CHOOSE i \in DOMAIN order : order[i] = m ELSE Len(order) + 1

(* Mutant: the key is indexed by the dimension, not by its place in it.    *)
Rank_ByDimension(key, slot) ==
    IF RowAxes[slot] \in DOMAIN key
      THEN Place(shown[RowAxes[slot]], key[RowAxes[slot]]) ELSE 0

Rank(key, slot) == Place(shown[RowAxes[slot]], key[slot])

Precedes(k, l) ==
    \E s \in DOMAIN RowAxes : /\ Rank(k, s) < Rank(l, s)
                              /\ \A t \in 1..(s - 1) : Rank(k, t) = Rank(l, t)

(* The next row: equal ranks leave the order of the hash map.              *)
Emit(key) ==
    /\ q.pc = "fold" /\ q.left = {}
    /\ \A other \in DOMAIN q.groups : ~Precedes(other, key)
    /\ q' = [q EXCEPT !.rows = Append(@, Row(key)), !.groups = Restrict(@, DOMAIN @ \ {key})]
    /\ UNCHANGED <<cube, known, shown, cells, tags, writes>>

-------------------------------------------------------------------------------
(* The formulas, once every row is there.  A value is a number, a truth, or *)
(* absent, and an operator given the wrong sort of value is an error.      *)
Num(n)  == [kind |-> "num", n |-> n]
Bool(b) == [kind |-> "bool", b |-> b]
Absent  == [kind |-> "absent"]
Wrong   == [kind |-> "wrong"]

Arith(op, m, n) ==
    CASE op = "+" -> Num(<<m[1] * n[2] + n[1] * m[2], m[2] * n[2]>>)
      [] op = "-" -> Num(<<m[1] * n[2] - n[1] * m[2], m[2] * n[2]>>)
      [] op = "*" -> Num(<<m[1] * n[1], m[2] * n[2]>>)
      [] op = "/" -> IF n[1] = 0 THEN Absent
                     ELSE IF n[1] > 0 THEN Num(<<m[1] * n[2], m[2] * n[1]>>)
                     ELSE Num(<<-(m[1] * n[2]), -(m[2] * n[1])>>)
      [] op = ">" -> Bool(m[1] * n[2] > n[1] * m[2])
      [] op = "=" -> Bool(m[1] * n[2] = n[1] * m[2])

(* Mutant: an absent operand counts as zero.                               *)
Binary_Zero(op, u, v) ==
    LET zero(x) == IF x = Absent THEN Num(<<0, 1>>) ELSE x
    IN  IF op \notin Arithmetic THEN Wrong
        ELSE IF zero(u).kind = "num" /\ zero(v).kind = "num" THEN Arith(op, zero(u).n, zero(v).n)
        ELSE Wrong

Binary(op, u, v) ==
    CASE Wrong \in {u, v}  -> Wrong
      [] Absent \in {u, v} /\ Wrong \notin {u, v} -> Absent
      [] {u.kind, v.kind} = {"bool"} /\ op = "AND" -> Bool(u.b /\ v.b)
      [] {u.kind, v.kind} = {"bool"} /\ op = "OR"  -> Bool(u.b \/ v.b)
      [] {u.kind, v.kind} = {"num"} /\ op \in Arithmetic -> Arith(op, u.n, v.n)
      [] OTHER -> Wrong

Unary(op, u) ==
    CASE u = Absent -> Absent
      [] u.kind = "num" /\ op = "minus" -> Num(<<-u.n[1], u.n[2]>>)
      [] u.kind = "bool" /\ op = "NOT"  -> Bool(~u.b)
      [] OTHER -> Wrong

(* What a formula is worth where a measure m is worth of[m].               *)
Evaluate(formula, of) ==
    LET value[f \in DOMAIN Formulas] ==
            LET node   == Formulas[f]
                first  == value[node.args[1]]
                second == value[node.args[2]]
            IN  CASE node.op \in Aggregates ->
                         IF of[node.field] = None \/ of[node.field] \in Texts THEN Absent
                         ELSE Num(of[node.field])
                  [] node.op = "number" -> Num(node.value)
                  [] node.op = "null"   -> Absent
                  [] node.op = "ZN"     -> IF first = Absent THEN Num(<<0, 1>>) ELSE first
                  [] node.op = "IFNULL" -> IF first = Absent THEN second ELSE first
                  [] node.op = "IF"     -> CASE first = Bool(TRUE)  -> second
                                             [] first = Bool(FALSE) -> value[node.args[3]]
                                             [] first = Absent      -> Absent
                                             [] OTHER               -> Wrong
                  [] node.op \in {"NOT", "minus"} -> Unary(node.op, first)
                  [] node.op \in Operators -> Binary(node.op, first, second)
                  [] OTHER -> Wrong
    IN  value[formula]

Calculated == \E m \in DOMAIN q.columns : q.columns[m] # None
Measured   == IF Calculated THEN DOMAIN q.columns ELSE Outputs

(* into_number: a formula's value must be a number or absent.              *)
IsAmount(v) == v.kind \in {"num", "absent"}
Amount(v)   == IF v = Absent THEN None ELSE v.n

Calculate ==
    LET formulas  == {m \in DOMAIN q.columns : q.columns[m] # None}
        worth(row) == [m \in formulas |-> Evaluate(q.columns[m], row.values)]
        columns(row) == LET w == worth(row)
                        IN  [m \in DOMAIN q.columns |->
                                IF m \in formulas THEN Amount(w[m]) ELSE row.values[m]]
    IN  /\ q.pc = "fold" /\ q.left = {} /\ q.groups = <<>>
        /\ IF \E i \in DOMAIN q.rows : \E m \in formulas : ~IsAmount(worth(q.rows[i])[m])
             THEN Refuse
             ELSE q' = [q EXCEPT !.pc = "join",
                                 !.rows = IF formulas = {} THEN @
                                          ELSE [i \in DOMAIN @ |->
                                              [@[i] EXCEPT !.values = columns(q.rows[i])]]]
        /\ UNCHANGED <<cube, known, shown, cells, tags, writes>>

-------------------------------------------------------------------------------
(* The join.                                                               *)
Wanted == IF q.request.join = None THEN {} ELSE q.request.join.attributes

KeyOf(key) == key[CHOOSE s \in DOMAIN RowAxes : RowAxes[s] = Conformed]

(* The dimension of the join, given or inferred, is a conformed one, ...   *)
ResolveJoin(j) == j.using \in {None, Conformed}

(* ... it is among the columns, and the attributes are attributes.         *)
Joinable(j) ==
    \/ j.attributes = {}
    \/ Conformed \in q.request.groupBy /\ j.attributes \subseteq Attributes

TagOf(key, a) == IF <<key, a>> \in DOMAIN tags THEN tags[<<key, a>>] ELSE None

(* Mutant: every join is a left one.                                       *)
Survives_Always(row, j) == TRUE

Survives(row, j) ==
    j.mode = "inner" => \E a \in j.attributes : TagOf(KeyOf(row.key), a) # None

Attach(row, j) ==
    [row EXCEPT !.values =
        [a \in j.attributes \cup DOMAIN @ |->
            IF a \in j.attributes THEN TagOf(KeyOf(row.key), a) ELSE @[a]]]

Join ==
    LET j == q.request.join
        kept == Only(q.rows, {i \in DOMAIN q.rows : Survives(q.rows[i], j)})
    IN  /\ q.pc = "join"
        /\ IF j = None THEN q' = [q EXCEPT !.pc = "page"]
           ELSE IF \/ ~ResolveJoin(j) \/ ~Joinable(j)
                   \/ ~Sql /\ j.attributes \cap Measured # {}
             THEN Refuse
           ELSE q' = [q EXCEPT !.pc = "page", !.joined = tags,
                               !.rows = IF j.attributes = {} THEN @
                                        ELSE [i \in DOMAIN kept |-> Attach(kept[i], j)]]
        /\ UNCHANGED <<cube, known, shown, cells, tags, writes>>

-------------------------------------------------------------------------------
(* The page.  Absent values sort before numbers, and numbers before text.  *)
Cell(row, col) ==
    IF col \in Axis THEN row.key[CHOOSE s \in DOMAIN RowAxes : RowAxes[s] = col]
    ELSE row.values[col]

Smaller(u, v) ==
    LET class(x) == IF x = None THEN 0 ELSE IF x \in Names THEN 2 ELSE 1
    IN  \/ class(u) < class(v)
        \/ class(u) = 2 /\ class(v) = 2 /\ Spelling[u] < Spelling[v]
        \/ class(u) = 1 /\ class(v) = 1 /\ u[1] * v[2] < v[1] * u[2]

Compare(k, r, s) == IF k.descending THEN Smaller(Cell(s, k.column), Cell(r, k.column))
                                    ELSE Smaller(Cell(r, k.column), Cell(s, k.column))

Before(r, s) ==
    LET keys == q.request.order
    IN  \E i \in DOMAIN keys : /\ Compare(keys[i], r, s)
                               /\ \A j \in 1..(i - 1) : ~Compare(keys[j], s, r)

(* A stable sort.                                                          *)
Sorted(rows) ==
    LET ahead(i, j) == Before(rows[i], rows[j]) \/ (~Before(rows[j], rows[i]) /\ i < j)
        places == Listed(DOMAIN rows, {p \in (DOMAIN rows) \X (DOMAIN rows) : ahead(p[1], p[2])})
    IN  [n \in DOMAIN rows |-> rows[places[n]]]

Window(rows) ==
    LET rest == SubSeq(rows, q.request.offset + 1, Len(rows))
    IN  IF q.request.limit = None THEN rest
        ELSE SubSeq(rest, 1, Min({q.request.limit, Len(rest)}))

(* Mutant: the page is cut before it is sorted.                            *)
PageOf_CutFirst(rows) == Sorted(Window(rows))

PageOf(rows) == Window(Sorted(rows))

Cut(rows) == q.request.limit # None /\ Len(rows) - q.request.offset > q.request.limit

OrderAndLimit ==
    /\ q.pc = "page"
    /\ IF \E i \in DOMAIN q.request.order :
              q.request.order[i].column \notin q.request.groupBy \cup Measured \cup Wanted
         THEN Refuse
         ELSE q' = [q EXCEPT !.pc = "done", !.page = PageOf(q.rows), !.truncated = Cut(q.rows)]
    /\ UNCHANGED <<cube, known, shown, cells, tags, writes>>

Slice == EnsureDisplayOrder \/ Resolve \/ Scan \/ (\E c \in q.left : Fold(c))
Query == \/ \E r \in Requests : Ask(r)
         \/ TakeMeasures
         \/ AddFilter
         \/ EndFilters
         \/ Slice
         \/ \E key \in DOMAIN q.groups : Emit(key)
         \/ Calculate
         \/ Join
         \/ OrderAndLimit
Other == \/ \E a \in Axis : RefreshOrder(a) \/ \E m \in Leaves[a] : AddLeaf(a, m)
         \/ \E w \in Writes : PutCell(w)
         \/ \E w \in Tags : PutTag(w)

Next == Query \/ Other

Spec == Init /\ [][Next]_vars

-------------------------------------------------------------------------------
(* What a request means, said of sets of cells.  A filter keeps the cells  *)
(* under one of its members; SQL's default members are filters too.        *)
Passes(c, f) ==
    IF f.op = "notEquals" THEN c[f.axis] \notin DOMAIN Under(f.axis, f.members[1])
    ELSE \E m \in Range(f.members) : c[f.axis] \in DOMAIN Stored(f.axis, m)

Meant ==
    Range(q.request.filters) \cup
    {[axis |-> a, op |-> "equals", members |-> <<Default[a]>>] :
        a \in {b \in Defaulted : \A f \in Range(q.request.filters) : f.axis # b}}

Visible ==
    {c \in DOMAIN q.snapshot :
        /\ \A f \in Meant : Passes(c, f)
        /\ \A a \in Axis : \A m \in q.request.denied[a] : c[a] \notin {m} \cup DOMAIN Under(a, m)}

WeightOf(c) ==
    LET by(f) == LET m == CHOOSE m \in Range(f.members) : c[f.axis] \in DOMAIN Stored(f.axis, m)
                 IN  IF f.op = "notEquals" \/ ~cube.aggregating THEN 1 ELSE Under(f.axis, m)[c[f.axis]]
    IN  FoldSet(LAMBDA f, p : p * by(f), 1, Meant)

MeaningOf(C, fold) ==
    LET amounts == {q.snapshot[c] : c \in C}
    IN  IF C = {} THEN None ELSE
        CASE fold \in {"SUM", None} -> <<MapThenSumSet(LAMBDA c : WeightOf(c) * q.snapshot[c], C), 1>>
          [] fold = "AVG"    -> <<MapThenSumSet(LAMBDA c : q.snapshot[c], C), Cardinality(C)>>
          [] fold = "COUNT"  -> <<Cardinality(C), 1>>
          [] fold = "COUNTD" -> <<Cardinality(amounts), 1>>
          [] fold = "MIN"    -> <<Min(amounts), 1>>
          [] fold = "MAX"    -> <<Max(amounts), 1>>

(* Requests that have one meaning: measures are named (or there are none   *)
(* to name), no two columns alike, one filter for a dimension, without     *)
(* members that overlap; and cells at members that were there when it came *)
(* in.                                                                     *)
Plain ==
    /\ Pivoted \/ cube.measureAxis = 0
    /\ \A e, f \in Range(Asked) : e.name = f.name => e = f
    /\ \A f, g \in Range(q.request.filters) : f.axis = g.axis => f = g
    /\ \A f \in Range(q.request.filters) : \A m, n \in Range(f.members) :
           m # n => DOMAIN Stored(f.axis, m) \cap DOMAIN Stored(f.axis, n) = {}
    /\ \A c \in DOMAIN q.snapshot : \A a \in Axis : c[a] \in Range(q.asked[a])

CellsOf(key, m) ==
    {c \in Visible : At(c, RowAxes) = key /\ (cube.measureAxis # 0 => c[cube.measureAxis] = m)}

(* The measures of a formula, and whether all an entry folds are numbers.  *)
Measures(e) == IF e.expr = None THEN {e.name} ELSE {s.name : s \in Range(Slots[e.expr])}

Meanings(key, e) ==
    [m \in Measures(e) |->
        MeaningOf(CellsOf(key, m), (CHOOSE s \in Range(Slots[e.expr]) : s.name = m).fold)]

Numeric(key, e) ==
    e.fold = "COUNTD" \/
    \A m \in Measures(e) : \A c \in CellsOf(key, m) : q.snapshot[c] \notin Texts

(* A column that is no attribute's, of a formula or of a measure that was  *)
(* there when the request came in.                                         *)
Own(e) ==
    /\ e.name \notin Wanted
    /\ cube.measureAxis # 0 /\ e.expr = None => e.name \in Range(q.asked[cube.measureAxis])

(* The keys a join keeps.  An inner join looks for a partner among the     *)
(* attributes it is asked for: one that asks for none keeps every key      *)
(* (attribute_join.rs:173), and a key that has only others is dropped.     *)
(* "Only keys present in BOTH cubes survive" (attribute_join.rs:159;       *)
(* sql.rs:205, JOIN-HANDOVER.md:169) is true of neither.                   *)
Matched(key) ==
    Wanted # {} /\ q.request.join.mode = "inner" =>
        \E a \in Wanted : <<KeyOf(key), a>> \in DOMAIN q.joined

(* The rows of an answer are those the request denotes on one state of the *)
(* cells, whatever is written meanwhile: a row for every group with a      *)
(* visible cell, in it every measure folded as asked over the group's      *)
(* visible cells, a weight in sums only, and nothing where there are none. *)
(* Text is no number: it has a meaning for COUNTD only.  A formula is worth *)
(* what its measures make it.  A join adds to every row the attributes of   *)
(* its member that were asked for, on one state of them, whatever is       *)
(* denied of the attribute cube; an inner one drops the rows of members    *)
(* that have none of those, unless it asks for none.                       *)
AnswersMeanTheirRequest ==
    q.pc = "done" /\ Plain =>
        /\ {q.rows[i].key : i \in DOMAIN q.rows} = {k \in {At(c, RowAxes) : c \in Visible} : Matched(k)}
        /\ \A i, j \in DOMAIN q.rows : q.rows[i].key = q.rows[j].key => i = j
        /\ \A i \in DOMAIN q.rows :
               LET key == q.rows[i].key  values == q.rows[i].values
               IN  /\ \A e \in Range(Asked) : Own(e) /\ Numeric(key, e) =>
                          values[e.name] = (IF e.expr = None THEN MeaningOf(CellsOf(key, e.name), e.fold)
                                            ELSE Amount(Evaluate(e.expr, Meanings(key, e))))
                   /\ \A a \in Wanted : values[a] = IF <<KeyOf(key), a>> \in DOMAIN q.joined
                                                       THEN q.joined[<<KeyOf(key), a>>] ELSE None

(* The measures a formula cannot do without: all but those that ZN or      *)
(* IFNULL stand in for, and of an IF those of the condition.               *)
Needs[f \in DOMAIN Formulas] ==
    LET node == Formulas[f]
    IN  IF node.op \in Aggregates THEN {node.field}
        ELSE IF node.op \in {"ZN", "IFNULL"} THEN {}
        ELSE IF node.op = "IF" THEN Needs[node.args[1]]
        ELSE UNION {Needs[g] : g \in Range(node.args)}

(* No number comes from nothing: a formula is absent wherever a measure it *)
(* cannot do without has no visible cell ("a confident bucket invented     *)
(* from no data", calc.rs:216).                                            *)
NoNumberFromNothing ==
    q.pc = "done" /\ Plain =>
        \A i \in DOMAIN q.rows : \A e \in Range(Asked) :
            /\ e.expr # None
            /\ \E m \in Needs[e.expr] : CellsOf(q.rows[i].key, m) = {}
            => q.rows[i].values[e.name] = None

(* A group comes before another: the first dimension whose members differ  *)
(* says so, in the display order.                                          *)
Ahead(k, l) ==
    \E s \in DOMAIN RowAxes :
        /\ Place(known[RowAxes[s]], k[s]) < Place(known[RowAxes[s]], l[s])
        /\ \A t \in 1..(s - 1) : k[t] = l[t]

(* Rows come in the display order of their dimensions, also when leaves    *)
(* were added since it was last computed (query_slice, ensure_display_order).*)
RowsFollowTheDisplayOrder ==
    q.pc = "done" /\ Plain =>
        \A i, j \in DOMAIN q.rows : i < j => Ahead(q.rows[i].key, q.rows[j].key)

(* A page of a sorted answer holds the rows that precede those after it,   *)
(* skips those that precede it, keeps the display order of equal rows, and *)
(* says that it was cut exactly when rows follow it.                       *)
PageIsTheRightOne ==
    q.pc = "done" =>
        LET n       == Len(q.rows)
            place(r) == CHOOSE i \in DOMAIN q.rows : q.rows[i] = r
            first(r, s) == Before(r, s) \/ (~Before(s, r) /\ place(r) < place(s))
            ahead(r) == Cardinality({i \in DOMAIN q.rows : first(q.rows[i], r)})
            rest    == Max({0, n - q.request.offset})
        IN  (\A i, j \in DOMAIN q.rows : q.rows[i] = q.rows[j] => i = j) =>
            /\ \A i \in DOMAIN q.page : ahead(q.page[i]) = q.request.offset + i - 1
            /\ q.truncated <=> q.request.limit # None /\ rest > q.request.limit
            /\ Len(q.page) = IF q.truncated THEN q.request.limit ELSE rest

(* Every filter of a plan holds for every cell of its answer ("a normal    *)
(* SQL WHERE", plan.rs:177).                                               *)
EveryFilterHolds ==
    q.pc = "fold" => \A c \in q.left : \A f \in Range(q.request.filters) : Passes(c, f)
===============================================================================
