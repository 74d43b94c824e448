------------------------------ MODULE MCQueries ------------------------------
EXTENDS Queries

CONSTANTS sales, cost, tax,         \* 1: the measures, if any: tax is added later
          apple, pear, plum, fruit, \* 2: plum is added later
          east, west, net,          \* 3: net takes west away
          note,                     \* a text
          margin, safe,             \* names of formulas
          color, size, red, big     \* attributes of 2, and their values

ThreeAxes == 3
MCLeaves  == <<{sales, cost, tax}, {apple, pear, plum}, {east, west}>>
MCInitial == <<<<sales, cost>>, <<pear, apple>>, <<east, west>>>>
MCRollups == <<<<>>, fruit :> (apple :> 1 @@ pear :> 2), net :> (east :> 3 @@ west :> -1)>>
MCDefault == <<sales, fruit, net>>
MCTexts   == {note}
MCSpelling == apple :> 1 @@ cost :> 2 @@ east :> 3 @@ fruit :> 4 @@ net :> 5 @@ note :> 6 @@
              pear :> 7 @@ plum :> 8 @@ sales :> 9 @@ west :> 10 @@ red :> 11 @@ big :> 12 @@
              tax :> 13

Numbers == <<sales, apple, east>> :> 2 @@ <<sales, pear, east>> :> 2 @@
           <<sales, pear, west>> :> -3 @@ <<cost, apple, west>> :> 4
MCStarts == {Numbers}
MCWrites == {[at |-> <<sales, plum, east>>, value |-> 1],
             [at |-> <<sales, apple, east>>, value |-> 5],
             [at |-> <<cost, apple, west>>, value |-> note]}

MCCubes == {[measureAxis |-> 1, aggregating |-> TRUE, system |-> FALSE],
            [measureAxis |-> 1, aggregating |-> FALSE, system |-> FALSE],
            [measureAxis |-> 0, aggregating |-> TRUE, system |-> TRUE]}

None3   == [a \in Axis |-> {}]
Of(m, f) == [name |-> m, fold |-> f, expr |-> None]
By(a, op, ms) == [axis |-> a, op |-> op, members |-> ms]
Asc(c)  == [column |-> c, descending |-> FALSE]
Desc(c) == [column |-> c, descending |-> TRUE]
Plan(ms, gs, fs) == [front |-> "plan", measures |-> ms, groupBy |-> gs, filters |-> fs,
                     denied |-> None3, join |-> None, order |-> <<>>, offset |-> 0, limit |-> None]
Select(ms, gs, fs) == [Plan(ms, gs, fs) EXCEPT !.front = "sql"]

(* Formulas by name, and joins.                                            *)
Node(op, args) == [op |-> op, args |-> args, field |-> None, value |-> None]
Agg(f, m)      == [Node(f, <<>>) EXCEPT !.field = m]
MCFormulas ==
    [S |-> Agg("SUM", sales), C |-> Agg("SUM", cost), V |-> Agg("MAX", Value),
     one |-> [Node("number", <<>>) EXCEPT !.value = <<1, 1>>], null |-> Node("null", <<>>),
     rest |-> Node("-", <<"S", "C">>), ratio |-> Node("/", <<"rest", "C">>),
     more |-> Node(">", <<"S", "C">>), zn |-> Node("ZN", <<"C">>),
     choice |-> Node("IF", <<"more", "zn", "one">>), plus |-> Node("+", <<"S", "zn">>),
     minus |-> Node("minus", <<"one">>), or1 |-> Node("IFNULL", <<"ratio", "minus">>),
     eq |-> Node("=", <<"zn", "one">>), not |-> Node("NOT", <<"eq">>),
     both |-> Node("AND", <<"more", "not">>), pick |-> Node("IF", <<"both", "one", "null">>),
     or |-> Node("OR", <<"more", "more">>), either |-> Node("IF", <<"or", "S", "C">>),
     odd |-> Node("unknown", <<"S", "C">>), two |-> Node("+", <<"one", "one">>), double |-> Node("*", <<"V", "two">>),
     mean |-> Agg("AVG", sales), twice |-> Node("+", <<"S", "mean">>),
     bad |-> Agg("COUNTD", sales), mixUp |-> Node("IF", <<"S", "C", "one">>)]
MCDepth ==
    LET depth[f \in DOMAIN MCFormulas] ==
            1 + Max({0} \cup {depth[g] : g \in Range(MCFormulas[f].args)})
    IN  depth
Calc(n, f)  == [name |-> n, fold |-> None, expr |-> f]
Formulated  == {Plan(<<Calc(safe, f)>>, {2}, <<>>) :
                   f \in {"choice", "or1", "pick", "either", "more", "bad", "odd", "twice", "mixUp"}}
               \cup {Plan(<<Of(sales, None), Calc(margin, "ratio")>>, {2, 3}, <<>>),
                     Plan(<<Of(Value, None), Calc(margin, "double")>>, {3}, <<>>),
                     Plan(<<Of(Value, None), Calc(margin, "plus")>>, {3}, <<>>),
                     Plan(<<Of(sales, "MAX"), Calc(margin, "plus")>>, {2}, <<>>)}

MCAttributes == {color, size, cost}
MCTagged     == <<pear, color>> :> red
MCTags       == {[at |-> <<apple, size>>, value |-> big]}
On(k, as, m) == [using |-> k, attributes |-> as, mode |-> m]
Joined == {[Select(<<Of(Value, None)>>, {2}, <<>>) EXCEPT !.join = On(None, as, m)] :
              as \in {{color, size}}, m \in {"left", "inner"}}
          \cup {[Select(<<Of(cost, None)>>, {2}, <<>>) EXCEPT !.join = On(None, {}, "inner")]}
          \cup {[Plan(<<Of(sales, None)>>, {2, 3}, <<>>) EXCEPT !.join = On(k, as, "left")] :
                    k \in {None, 3}, as \in {{color}, {sales}}}
          \cup {[Plan(<<Of(sales, None)>>, {3}, <<>>) EXCEPT !.join = On(2, {color}, "left")]}
          \cup {[Plan(<<Of(sales, None), Of(cost, None)>>, {2}, <<>>) EXCEPT
                    !.join = On(2, {cost}, "left")],
                [Plan(<<Calc(safe, "plus")>>, {2}, <<>>) EXCEPT
                    !.join = On(2, {color}, "left"), !.order = <<Asc(color)>>]}

Folds == {Plan(<<Of(m, f)>>, {2}, <<By(3, "in", <<net>>)>>) :
             m \in {sales, Value}, f \in {None, "AVG", "COUNT", "MIN", "MAX", "COUNTD"}}
         \cup {Plan(<<Of(sales, "MEDIAN")>>, {2}, <<>>)}
Filters == {Plan(<<Of(Value, None)>>, {3}, <<By(2, op, ms)>>) :
             op \in {"equals", "notEquals"}, ms \in {<<apple>>, <<fruit>>, <<plum>>}}
           \cup {Plan(<<Of(Value, None)>>, {3}, <<By(2, op, <<fruit>>)>>) : op \in {"top", "contains"}}
           \cup {Plan(<<Of(sales, "SUM")>>, {2}, <<By(1, "in", <<sales, cost>>), By(3, "in", <<west, east>>)>>)}
Hiding  == {[Plan(<<Of(Value, None)>>, gs, <<>>) EXCEPT !.denied[2] = {m}] :
             gs \in {{2}, {3}}, m \in {fruit, pear}}
Sides   == {Select(<<Of(Value, None)>>, {2}, <<>>), Select(<<Of(sales, "AVG")>>, {}, <<By(2, "equals", <<pear>>)>>),
            Select(<<Of(sales, None)>>, {3}, <<By(1, "equals", <<sales>>)>>), Select(<<>>, {2, 3}, <<>>)}
Pages   == {[Select(<<Of(Value, None)>>, {2, 3}, <<>>) EXCEPT !.order = o, !.offset = k, !.limit = l] :
             o \in {<<Desc(Value)>>, <<Asc(sales), Desc(2)>>}, k \in {0, 1}, l \in {1, None}}
           \cup {[Select(<<Of(Value, None)>>, {2, 3}, <<>>) EXCEPT !.offset = 1, !.limit = 2]}
Refused == {Plan(<<Of(sales, "AVG"), Of(sales, "SUM")>>, {2}, <<>>), Plan(<<Of(Value, None)>>, {1}, <<>>),
            Plan(<<>>, {2}, <<>>), Plan(<<>>, {}, <<>>)}

MCRequests == Folds \cup Filters \cup Hiding \cup Sides \cup Pages \cup Refused
              \cup Formulated \cup Joined

(* Two filters of one dimension.                                           *)
Excluding == {Plan(<<Of(Value, None)>>, {2}, <<By(2, "notEquals", <<apple>>), By(2, "notEquals", <<pear>>)>>)}
===============================================================================
