----------------------------- MODULE MCCatalogue -----------------------------
EXTENDS Catalogue, TLC

CONSTANTS a, b, region, item, sales, notes, none

MCNames == {a, b}
MCRefs  == {region, item}
MCCubes == {sales, notes}
MCShapes ==
    sales :> {[axes |-> <<region, item>>, aggregating |-> TRUE],
              [axes |-> <<item, item>>, aggregating |-> TRUE]} @@
    notes :> {[axes |-> <<region>>, aggregating |-> FALSE]}
Number(at) == [at |-> at, value |-> "number"]
Text(at)   == [at |-> at, value |-> "text"]
MCFiles ==
    {<<Number(<<a, b>>)>>, <<Number(<<a>>), Text(<<b, a>>)>>, <<Number(<<b, a>>), Text(<<a>>)>>}
MCTrees == {<<<<a, b>>>>, <<<<b, a>>, <<a, b>>>>, <<<<b, a>>>>}
MCSpots == {<<>>, <<a>>, <<b, a>>}
===============================================================================
