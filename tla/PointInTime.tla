----------------------------- MODULE PointInTime -----------------------------
(***************************************************************************)
(* What the store of a cube promises, without its trie: cells are a map    *)
(* from coordinates to values, and a reader that scans is answered from    *)
(* the map as it was when the reader took its snapshot, no matter what is  *)
(* written or deleted before it is answered.                               *)
(***************************************************************************)
CONSTANTS Readers, Ids, Values, Axes,
          Filters,  \* what readers ask for: ids, or All, by axis
          All,      \* in a filter: every id of the axis
          Pending   \* in place of an answer: the reader is still scanning

VARIABLES cells,    \* coordinate -> value, for the cells that exist
          taken,    \* reader -> cells when it took its snapshot
          filter,   \* reader -> ids it asks for, by axis
          answer    \* reader -> cells it was told of, or Pending

vars == <<cells, taken, filter, answer>>

Coords == [Axes -> Ids]
Chosen(f, c) == \A d \in Axes : f[d] = All \/ c[d] \in f[d]
Restriction(m, S) == [c \in DOMAIN m \cap S |-> m[c]]
Selected(m, f) == Restriction(m, {c \in DOMAIN m : Chosen(f, c)})

Init ==
    /\ cells = Restriction([c \in Coords |-> Pending], {})
    /\ taken = [r \in Readers |-> cells]
    /\ filter = [r \in Readers |-> [d \in Axes |-> All]]
    /\ answer = [r \in Readers |-> cells]

Write ==
    /\ LET before == cells
           after == cells'
       IN  \E c \in DOMAIN after :
               /\ after[c] \in Values
               /\ after = [x \in DOMAIN before \cup {c} |-> IF x = c THEN after[c] ELSE before[x]]
    /\ UNCHANGED <<taken, filter, answer>>

DeleteMember ==
    /\ LET before == cells
           after == cells'
       IN  \E d \in Axes, i \in Ids :
               after = Restriction(before, {c \in DOMAIN before : c[d] # i})
    /\ UNCHANGED <<taken, filter, answer>>

Ask(r) ==
    /\ answer[r] # Pending
    /\ taken' = [taken EXCEPT ![r] = cells]
    /\ \E f \in Filters : filter' = [filter EXCEPT ![r] = f]
    /\ answer' = [answer EXCEPT ![r] = Pending]
    /\ UNCHANGED cells

Answer(r) ==
    /\ answer[r] = Pending
    /\ answer' = [answer EXCEPT ![r] = Selected(taken[r], filter[r])]
    /\ UNCHANGED <<cells, taken, filter>>

Next == Write \/ DeleteMember \/ \E r \in Readers : Ask(r) \/ Answer(r)

Spec == Init /\ [][Next]_vars
==============================================================================
