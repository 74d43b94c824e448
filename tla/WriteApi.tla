------------------------------- MODULE WriteApi -------------------------------
(***************************************************************************)
(* Batched writeback into one cube: write_cells and the two cube writes it *)
(* ends in, Cube::write and Cube::write_splashed, by any number of         *)
(* connection threads at once.  A lock is held for one dimension or for    *)
(* one cell, never for a batch, so every cell is a step of its own.        *)
(*                                                                         *)
(* A coordinate stands for a whole tuple of members.  A consolidated one   *)
(* is given by Expansion: its leaf coordinates and their combined weights  *)
(* (build_leaf_product).  Amounts are integers; the requests are chosen so *)
(* that every share is one (SharesAreWhole).                               *)
(***************************************************************************)
EXTENDS Integers, Sequences, FiniteSets, Functions

CONSTANTS Batches,      \* requests, each on its own thread
          Leaves,       \* leaf coordinates that exist
          Missing,      \* leaf coordinates with a member that does not
          Expansion,    \* consolidated coordinate -> (leaf -> weight)
          Requests,     \* what a client may send
          Aggregating,  \* Cube.is_aggregating: not an attribute table
          Initials,     \* the cells a behaviour may start with
          Text, None    \* some string; no cell

Consolidated == DOMAIN Expansion
Cells == Leaves \cup Missing

Values == Int \cup {Text, None}
Modes  == {"reject", "replace", "add"}

ASSUME ExpansionsAreLeaves == \A a \in Consolidated : DOMAIN Expansion[a] \subseteq Leaves
ASSUME ExpansionsAreWeighted ==
    \A a \in Consolidated : /\ IsFiniteSet(DOMAIN Expansion[a])
                            /\ Expansion[a] \in [DOMAIN Expansion[a] -> Int]
ASSUME CoordinatesDiffer == Cells \cap Consolidated = {} /\ Leaves \cap Missing = {}
ASSUME RequestsAreBatches ==
    Requests \subseteq [cells : Seq([at : Cells \cup Consolidated, value : Int \cup {Text}]),
                        splash : Modes, createMissing : BOOLEAN]
ASSUME InitialsAreCells == Initials \subseteq [Cells -> Values]
ASSUME OthersAreNoNumbers == Text \notin Int /\ None \notin Int

VARIABLES cells,    \* SparseStore: leaf coordinate -> value or None
          created,  \* the missing coordinates whose member was added
          pc,       \* batch -> where its thread is
          req,      \* batch -> the request
          i,        \* batch -> index of the cell at hand
          todo,     \* batch -> leaves of the splash still to write
          leaf,     \* batch -> leaf whose old value was read (Add)
          base,     \* batch -> that old value
          result,   \* batch -> its answer
          before,   \* history: the cells when the request came in
          wrote     \* history: batch -> leaves it has written

vars == <<cells, created, pc, req, i, todo, leaf, base, result, before, wrote>>

NoRequest == [cells |-> <<>>, splash |-> "reject", createMissing |-> FALSE]
Steps == {"idle", "validate", "apply", "put", "splash", "sum", "done"}

Init ==
    /\ cells \in Initials
    /\ created = {}
    /\ pc = [b \in Batches |-> "idle"]
    /\ req = [b \in Batches |-> NoRequest]
    /\ i = [b \in Batches |-> 1]
    /\ todo = [b \in Batches |-> {}]
    /\ leaf = [b \in Batches |-> None]
    /\ base = [b \in Batches |-> 0]
    /\ result = [b \in Batches |-> "none"]
    /\ before = [b \in Batches |-> cells]
    /\ wrote = [b \in Batches |-> {}]

Cell(b)     == req[b].cells[i[b]]

(* Mutant: one cell too many.                                              *)
LastCell_OneTooMany(b) == i[b] = Len(req[b].cells) + 1

LastCell(b) == i[b] = Len(req[b].cells)

-------------------------------------------------------------------------------
(* A request comes in.                                                     *)
Submit(b, r) ==
    /\ pc[b] = "idle"
    /\ req' = [req EXCEPT ![b] = r]
    /\ before' = [before EXCEPT ![b] = cells]
    /\ IF r.cells = <<>>
          THEN /\ pc' = [pc EXCEPT ![b] = "done"]
               /\ result' = [result EXCEPT ![b] = "invalid"]
          ELSE /\ pc' = [pc EXCEPT ![b] = "validate"]
               /\ UNCHANGED result
    /\ UNCHANGED <<cells, created, i, todo, leaf, base, wrote>>

Exists(a) == a \in Leaves \cup created \cup Consolidated

(* The checks of one cell, in the loop that validates.                     *)
Acceptable(r, cell) ==
    /\ cell.at \in Consolidated => r.splash # "reject" /\ cell.value # Text
    /\ ~r.createMissing => Exists(cell.at)
    /\ cell.value = Text => ~Aggregating

Put(b, c, v) ==
    /\ cells' = [cells EXCEPT ![c] = v]
    /\ wrote' = [wrote EXCEPT ![b] = @ \cup {c}]

(* Mutant: a leaf is written as soon as it is found valid.                 *)
Validate_OneByOne(b) ==
    /\ pc[b] = "validate"
    /\ Acceptable(req[b], Cell(b)) => ~LastCell(b)
    /\ IF Acceptable(req[b], Cell(b)) /\ Cell(b).at \in Leaves
          THEN /\ Put(b, Cell(b).at, Cell(b).value)
               /\ i' = [i EXCEPT ![b] = @ + 1]
               /\ UNCHANGED <<pc, result>>
          ELSE /\ pc' = [pc EXCEPT ![b] = "done"]
               /\ result' = [result EXCEPT ![b] = "invalid"]
               /\ UNCHANGED <<cells, wrote, i>>
    /\ UNCHANGED <<created, req, todo, leaf, base, before>>

(* The next cell is validated; the last valid one starts the second pass.  *)
Validate(b) ==
    /\ pc[b] = "validate"
    /\ IF Acceptable(req[b], Cell(b))
          THEN /\ pc' = [pc EXCEPT ![b] = IF LastCell(b) THEN "apply" ELSE @]
               /\ i' = [i EXCEPT ![b] = IF LastCell(b) THEN 1 ELSE @ + 1]
               /\ UNCHANGED result
          ELSE /\ pc' = [pc EXCEPT ![b] = "done"]
               /\ result' = [result EXCEPT ![b] = "invalid"]
               /\ UNCHANGED i
    /\ UNCHANGED <<cells, created, req, todo, leaf, base, before, wrote>>

Weight(a)   == Expansion[a]
Magnitude(w) == IF w < 0 THEN -w ELSE w
TotalAbs(a) == SumFunction([c \in DOMAIN Weight(a) |-> Magnitude(Weight(a)[c])])

ASSUME SharesAreWhole ==
    \A r \in Requests : \A k \in DOMAIN r.cells :
        LET a == r.cells[k].at
            v == r.cells[k].value
        IN  a \in Consolidated /\ v # Text /\ TotalAbs(a) # 0 =>
                \A c \in DOMAIN Weight(a) : (v * Magnitude(Weight(a)[c])) % TotalAbs(a) = 0

(* The second pass reaches a cell.  A consolidated one is expanded; there  *)
(* may be nothing to allocate to, which no validation looks at.  A leaf's  *)
(* missing members are added before its cell is written.                   *)
Apply(b) ==
    LET a == Cell(b).at IN
    /\ pc[b] = "apply"
    /\ IF a \notin Consolidated
          THEN /\ pc' = [pc EXCEPT ![b] = "put"]
               /\ created' = created \cup ({a} \cap Missing)
               /\ UNCHANGED <<todo, result>>
          ELSE /\ IF TotalAbs(a) = 0
                     THEN /\ pc' = [pc EXCEPT ![b] = "done"]
                          /\ result' = [result EXCEPT ![b] = "failed"]
                          /\ UNCHANGED todo
                     ELSE /\ pc' = [pc EXCEPT ![b] = "splash"]
                          /\ todo' = [todo EXCEPT ![b] = DOMAIN Weight(a)]
                          /\ UNCHANGED result
               /\ UNCHANGED created
    /\ UNCHANGED <<cells, req, i, leaf, base, before, wrote>>

(* The thread goes on to its next cell, or answers.                        *)
NextCell(b) ==
    /\ pc' = [pc EXCEPT ![b] = IF LastCell(b) THEN "done" ELSE "apply"]
    /\ i' = [i EXCEPT ![b] = IF LastCell(b) THEN @ ELSE @ + 1]
    /\ result' = [result EXCEPT ![b] = IF LastCell(b) THEN "ok" ELSE @]

(* Cube::write: the store takes one cell.                                  *)
PutLeaf(b) ==
    /\ pc[b] = "put"
    /\ Put(b, Cell(b).at, Cell(b).value)
    /\ NextCell(b)
    /\ UNCHANGED <<created, req, todo, leaf, base, before>>

(* Mutant: the sign of the weight is forgotten.                            *)
Share_Unsigned(b, c) ==
    LET a == Cell(b).at
    IN  (Cell(b).value * Magnitude(Weight(a)[c])) \div TotalAbs(a)

(* |w| / total_abs of the value, with the sign of the weight.              *)
Share(b, c) ==
    LET a == Cell(b).at
        w == Weight(a)[c]
        part == (Cell(b).value * Magnitude(w)) \div TotalAbs(a)
    IN  IF w < 0 THEN -part ELSE part

(* Mutant: the leaf stays on the list.                                     *)
AfterShare_Again(b, c) == UNCHANGED <<pc, i, result, todo>>

(* Mutant: the rest of the list is forgotten.                              *)
AfterShare_FirstOnly(b, c) == NextCell(b) /\ todo' = [todo EXCEPT ![b] = {}]

AfterShare(b, c) ==
    /\ todo' = [todo EXCEPT ![b] = @ \ {c}]
    /\ IF todo[b] = {c} THEN NextCell(b)
       ELSE pc' = [pc EXCEPT ![b] = "splash"] /\ UNCHANGED <<i, result>>

(* SplashMode::Replace: a leaf is overwritten with its share.              *)
PutShare(b, c) ==
    /\ pc[b] = "splash" /\ c \in todo[b] /\ req[b].splash # "add"
    /\ Put(b, c, Share(b, c))
    /\ AfterShare(b, c)
    /\ UNCHANGED <<created, req, leaf, base, before>>

(* SplashMode::Add: the old value is read ...                              *)
ReadBase(b, c) ==
    /\ pc[b] = "splash" /\ c \in todo[b] /\ req[b].splash = "add"
    /\ leaf' = [leaf EXCEPT ![b] = c]
    /\ base' = [base EXCEPT ![b] = IF cells[c] \in {None, Text} THEN 0 ELSE cells[c]]
    /\ pc' = [pc EXCEPT ![b] = "sum"]
    /\ UNCHANGED <<cells, created, req, i, todo, result, before, wrote>>

(* ... and written back with the share on top, in a lock of its own.       *)
PutSum(b) ==
    /\ pc[b] = "sum"
    /\ Put(b, leaf[b], base[b] + Share(b, leaf[b]))
    /\ AfterShare(b, leaf[b])
    /\ UNCHANGED <<created, req, leaf, base, before>>

Thread(b) ==
    \/ Validate(b) \/ Apply(b) \/ PutLeaf(b)
    \/ \E c \in Leaves : PutShare(b, c) \/ ReadBase(b, c)
    \/ PutSum(b)

Next == \E b \in Batches : (\E r \in Requests : Submit(b, r)) \/ Thread(b)

Spec == Init /\ [][Next]_vars

(* A connection's thread runs until it has answered.                       *)
FairSpec == Spec /\ \A b \in Batches : WF_vars(Thread(b))

-------------------------------------------------------------------------------
(* The properties.                                                         *)

TypeOK ==
    /\ cells \in [Cells -> Values]
    /\ created \subseteq Missing
    /\ pc \in [Batches -> Steps]
    /\ \A b \in Batches : req[b] \in Requests \cup {NoRequest}
    /\ \A b \in Batches : pc[b] \notin {"idle", "done"} => i[b] \in DOMAIN req[b].cells
    /\ \A b \in Batches : todo[b] \subseteq Leaves /\ leaf[b] \in Leaves \cup {None}
    /\ base \in [Batches -> Int]
    /\ result \in [Batches -> {"none", "ok", "invalid", "failed"}]
    /\ wrote \in [Batches -> SUBSET Cells]

Footprint(a) == IF a \in Consolidated THEN DOMAIN Weight(a) ELSE {a}
Covers(r) == UNION {Footprint(r.cells[k].at) : k \in DOMAIN r.cells}

(* A batch that validation refuses has changed nothing, however the other  *)
(* threads moved while it was being checked.                               *)
RefusedBatchWroteNothing ==
    \A b \in Batches : result[b] = "invalid" => wrote[b] = {}

(* A batch that is answered "ok" wrote every cell it covers and no other.  *)
OkBatchWroteItAll ==
    \A b \in Batches : result[b] = "ok" => wrote[b] = Covers(req[b])

Numeric(v) == IF v \in {None, Text} THEN 0 ELSE v

(* What a query reads at coordinate a: the weighted sum of its leaves.     *)
ReadBack(of, a) ==
    SumFunction([c \in DOMAIN Weight(a) |-> Weight(a)[c] * Numeric(of[c])])

Alone(b) == \A other \in Batches \ {b} : pc[other] = "idle"

(* A splash of one total, answered "ok" with no other batch around, reads  *)
(* back as asked: the total, or what was there plus the delta.             *)
SplashReadsBack ==
    \A b \in Batches :
        LET a == req[b].cells[1].at IN
        result[b] = "ok" /\ Alone(b) /\ Len(req[b].cells) = 1 /\ a \in Consolidated =>
            ReadBack(cells, a) = req[b].cells[1].value +
                (IF req[b].splash = "add" THEN ReadBack(before[b], a) ELSE 0)

(* Every request is answered.                                              *)
EveryBatchIsAnswered ==
    \A b \in Batches : pc[b] = "validate" ~> pc[b] = "done"
===============================================================================
