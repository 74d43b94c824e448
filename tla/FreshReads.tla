------------------------------ MODULE FreshReads ------------------------------
(***************************************************************************)
(* What a cube promises the readers of an aggregate, without its cache.    *)
(*                                                                         *)
(* A cell write is applied and later returns to its caller; a structural   *)
(* edit changes what an aggregate means and is later announced.  A query   *)
(* is asked at some moment and answered at a later one.  The answer is     *)
(* computed from ONE state of the cells and ONE reading of the hierarchy,  *)
(* and neither may be older than what had been returned, or announced,     *)
(* when the query was asked.  It may be newer: a write that has not        *)
(* returned yet may or may not be seen (a regular register).  It may also  *)
(* be the nothing of a stray query: which member an id stands for is left  *)
(* open, as what a coordinate means to its hierarchy is not part of this.  *)
(***************************************************************************)
EXTENDS Integers

CONSTANTS Readers

VARIABLES applied,    \* writes applied to the cells so far
          returned,   \* highest write whose caller has its answer
          shape,      \* structural edits made so far
          announced,  \* structural edits known to be finished
          asking,     \* readers with a query in progress
          floor,      \* reader -> oldest state its answer may come from
          answer      \* reader -> state its last answer came from

vars == <<applied, returned, shape, announced, asking, floor, answer>>

Nothing == [root |-> -1, shape |-> -1, stray |-> FALSE]
Start   == [root |-> 0, shape |-> 0]

Init ==
    /\ applied = 0 /\ returned = 0
    /\ shape = 0 /\ announced = 0
    /\ asking = {}
    /\ floor = [r \in Readers |-> Start]
    /\ answer = [r \in Readers |-> Nothing]

Apply ==
    /\ applied' = applied + 1
    /\ UNCHANGED <<returned, shape, announced, asking, floor, answer>>

Return ==
    /\ returned' \in returned..applied
    /\ UNCHANGED <<applied, shape, announced, asking, floor, answer>>

Edit ==
    /\ shape' = shape + 1
    /\ UNCHANGED <<applied, returned, announced, asking, floor, answer>>

Announce ==
    /\ asking = {}
    /\ announced' = shape
    /\ UNCHANGED <<applied, returned, shape, asking, floor, answer>>

Ask(r) ==
    /\ r \notin asking
    /\ asking' = asking \cup {r}
    /\ floor' = [floor EXCEPT ![r] = [root |-> returned, shape |-> announced]]
    /\ answer' = [answer EXCEPT ![r] = Nothing]
    /\ UNCHANGED <<applied, returned, shape, announced>>

(* An answer states a total, of its member or a stray one, or that the     *)
(* query names an unknown member.                                          *)
Answer(r) ==
    /\ r \in asking
    /\ asking' = asking \ {r}
    /\ \/ answer' = answer
       \/ \E root \in floor[r].root..applied, edition \in floor[r].shape..shape,
             stray \in BOOLEAN :
              answer' = [answer EXCEPT ![r] = [root |-> root, shape |-> edition,
                                               stray |-> stray]]
    /\ UNCHANGED <<applied, returned, shape, announced, floor>>

Next ==
    \/ Apply \/ Return \/ Edit \/ Announce
    \/ \E r \in Readers : Ask(r) \/ Answer(r)

Spec == Init /\ [][Next]_vars
===============================================================================
