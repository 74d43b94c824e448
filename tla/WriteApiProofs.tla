---------------------------- MODULE WriteApiProofs ----------------------------
(***************************************************************************)
(* However many batches write the same leaves, cell by cell and leaf by    *)
(* leaf: a batch that validation refuses has written nothing, one that is  *)
(* answered "ok" has written every leaf it covers and no other, and the    *)
(* leaves of a total written alone add up to what was asked.               *)
(*                                                                         *)
(* IInv says what each batch has written so far, AmountInv what it wrote.  *)
(***************************************************************************)
EXTENDS WriteApi, FiniteSetTheorems, WellFoundedInduction, TLAPS

(* What the first n cells of a request cover.                              *)
CoveredBy(r, n) == UNION {Footprint(r.cells[k].at) : k \in 1..n}

Writing == {"apply", "put", "splash", "sum"}

(* Each batch has written exactly what it has gone through: the cells      *)
(* before the one at hand, and of a splash the leaves no longer to do.     *)
BatchInv(b) ==
    /\ pc[b] # "idle" => req[b] \in Requests
    /\ pc[b] = "idle" => i[b] = 1
    /\ pc[b] \in Writing \cup {"validate"} => i[b] \in 1..Len(req[b].cells)
    /\ pc[b] # "done" => result[b] = "none"
    /\ pc[b] \in {"idle", "validate"} => wrote[b] = {}
    /\ pc[b] \in {"apply", "put"} => wrote[b] = CoveredBy(req[b], i[b] - 1)
    /\ pc[b] = "put" => Cell(b).at \notin Consolidated
    /\ pc[b] \in {"splash", "sum"} =>
           /\ todo[b] \subseteq Footprint(Cell(b).at)
           /\ wrote[b] = CoveredBy(req[b], i[b] - 1) \cup (Footprint(Cell(b).at) \ todo[b])
    /\ pc[b] = "sum" => leaf[b] \in todo[b]
    /\ result[b] = "invalid" => wrote[b] = {}
    /\ result[b] = "ok" => wrote[b] = Covers(req[b])

Shape ==
    /\ DOMAIN pc = Batches /\ DOMAIN req = Batches /\ DOMAIN i = Batches
    /\ DOMAIN todo = Batches /\ DOMAIN leaf = Batches /\ DOMAIN result = Batches
    /\ DOMAIN wrote = Batches

IInv == Shape /\ \A b \in Batches : BatchInv(b)

LEMMA LengthIsNat == \A r \in Requests : /\ Len(r.cells) \in Nat
                                         /\ DOMAIN r.cells = 1..Len(r.cells)
                                         /\ r.cells = <<>> <=> Len(r.cells) = 0
<1> SUFFICES ASSUME NEW r \in Requests
             PROVE  /\ Len(r.cells) \in Nat
                    /\ DOMAIN r.cells = 1..Len(r.cells)
                    /\ r.cells = <<>> <=> Len(r.cells) = 0
  OBVIOUS
<1>1. r.cells \in Seq([at : Cells \cup Consolidated, value : Int \cup {Text}])
  BY RequestsAreBatches
<1> QED
  BY <1>1

(* The cells of a request, one by one.                                     *)
LEMMA OneCellMore ==
  ASSUME NEW r \in Requests, NEW n \in 1..Len(r.cells)
  PROVE  /\ CoveredBy(r, n) = CoveredBy(r, n - 1) \cup Footprint(r.cells[n].at)
         /\ n = Len(r.cells) => CoveredBy(r, n) = Covers(r)
         /\ CoveredBy(r, 0) = {}
<1>1. Len(r.cells) \in Nat /\ DOMAIN r.cells = 1..Len(r.cells)
  BY LengthIsNat
<1>2. 1..n = (1..(n - 1)) \cup {n}
  BY <1>1
<1>3. CoveredBy(r, n) = CoveredBy(r, n - 1) \cup Footprint(r.cells[n].at)
  BY <1>2 DEF CoveredBy
<1>4. n = Len(r.cells) => CoveredBy(r, n) = Covers(r)
  BY <1>1 DEF CoveredBy, Covers
<1>5. CoveredBy(r, 0) = {}
  BY DEF CoveredBy
<1> QED
  BY <1>3, <1>4, <1>5

LEMMA InitIInv == Init => IInv
  BY DEF Init, IInv, Shape, BatchInv, Writing

(* A thread's step leaves the other threads where they are.                *)
Others(b) ==
    \A t \in Batches \ {b} :
        /\ pc'[t] = pc[t] /\ req'[t] = req[t] /\ i'[t] = i[t] /\ todo'[t] = todo[t]
        /\ leaf'[t] = leaf[t] /\ result'[t] = result[t] /\ wrote'[t] = wrote[t]

LEMMA OthersKeepBatchInv ==
  ASSUME IInv, NEW b \in Batches, Others(b), Shape', BatchInv(b)'
  PROVE  IInv'
<1>1. ASSUME NEW t \in Batches \ {b} PROVE BatchInv(t)'
  BY <1>1 DEF IInv, BatchInv, Others, Cell
<1> QED
  BY <1>1 DEF IInv

LEMMA SubmitKeepsIInv ==
  ASSUME IInv, NEW b \in Batches, NEW r \in Requests, Submit(b, r)
  PROVE  IInv'
<1>1. Shape' /\ Others(b)
  BY DEF IInv, Shape, Others, Submit
<1>2. /\ req'[b] = r /\ i'[b] = 1 /\ wrote'[b] = {}
      /\ r.cells = <<>> => pc'[b] = "done" /\ result'[b] = "invalid"
      /\ r.cells # <<>> => pc'[b] = "validate" /\ result'[b] = "none"
  BY DEF IInv, Shape, BatchInv, Submit
<1>3. r.cells # <<>> => 1 \in 1..Len(r.cells)
  BY LengthIsNat
<1>4. BatchInv(b)'
  BY <1>2, <1>3 DEF BatchInv, Writing
<1> QED
  BY <1>1, <1>4, OthersKeepBatchInv

LEMMA ValidateKeepsIInv ==
  ASSUME IInv, NEW b \in Batches, Validate(b)
  PROVE  IInv'
<1>1. Shape' /\ Others(b)
  BY DEF IInv, Shape, Others, Validate
<1>2. /\ req[b] \in Requests /\ req'[b] = req[b] /\ wrote'[b] = {}
      /\ i[b] \in 1..Len(req[b].cells) /\ result[b] = "none"
  BY DEF IInv, BatchInv, Validate, Writing
<1>3. Len(req[b].cells) \in Nat /\ CoveredBy(req[b], 0) = {}
  BY <1>2, LengthIsNat DEF CoveredBy
<1>4. CASE Acceptable(req[b], Cell(b)) /\ LastCell(b)
  <2>1. pc'[b] = "apply" /\ i'[b] = 1 /\ result'[b] = "none"
    BY <1>2, <1>4 DEF Validate, IInv, Shape
  <2>2. wrote'[b] = CoveredBy(req'[b], i'[b] - 1) /\ i'[b] \in 1..Len(req'[b].cells)
    BY <1>2, <1>3, <2>1
  <2>3. BatchInv(b)'
    BY <1>2, <2>1, <2>2 DEF BatchInv, Writing
  <2> QED
    BY <1>1, <2>3, OthersKeepBatchInv
<1>5. CASE Acceptable(req[b], Cell(b)) /\ ~LastCell(b)
  <2>1. pc'[b] = "validate" /\ i'[b] = i[b] + 1 /\ result'[b] = "none" /\ i[b] # Len(req[b].cells)
    BY <1>2, <1>5 DEF Validate, IInv, Shape, LastCell
  <2> QED
    BY <1>1, <1>2, <1>3, <2>1, OthersKeepBatchInv DEF BatchInv, Writing
<1>6. CASE ~Acceptable(req[b], Cell(b))
  <2>1. pc'[b] = "done" /\ result'[b] = "invalid"
    BY <1>6 DEF Validate, IInv, Shape
  <2> QED
    BY <1>1, <1>2, <2>1, OthersKeepBatchInv DEF BatchInv, Writing
<1> QED
  BY <1>4, <1>5, <1>6

LEMMA ApplyKeepsIInv ==
  ASSUME IInv, NEW b \in Batches, Apply(b)
  PROVE  IInv'
<1>1. Shape' /\ Others(b)
  BY DEF IInv, Shape, Others, Apply
<1>2. /\ req[b] \in Requests /\ req'[b] = req[b] /\ wrote'[b] = wrote[b] /\ i'[b] = i[b]
      /\ i[b] \in 1..Len(req[b].cells) /\ result[b] = "none"
      /\ wrote[b] = CoveredBy(req[b], i[b] - 1)
      /\ Cell(b)' = Cell(b)
  BY DEF IInv, BatchInv, Apply, Writing, Cell
<1>3. CASE Cell(b).at \notin Consolidated
  <2>1. pc'[b] = "put" /\ result'[b] = "none"
    BY <1>2, <1>3 DEF Apply, IInv, Shape
  <2>2. BatchInv(b)'
    BY <1>2, <1>3, <2>1 DEF BatchInv, Writing
  <2> QED
    BY <1>1, <2>2, OthersKeepBatchInv
<1>4. CASE Cell(b).at \in Consolidated /\ pc'[b] = "done"
  <2>1. result'[b] = "failed"
    BY <1>4 DEF Apply, IInv, Shape
  <2>2. BatchInv(b)'
    BY <1>2, <1>4, <2>1 DEF BatchInv, Writing
  <2> QED
    BY <1>1, <2>2, OthersKeepBatchInv
<1>5. CASE Cell(b).at \in Consolidated /\ pc'[b] # "done"
  <2>1. pc'[b] = "splash" /\ result'[b] = "none" /\ todo'[b] = Footprint(Cell(b).at)
    BY <1>2, <1>5 DEF Apply, IInv, Shape, Footprint
  <2>2. BatchInv(b)'
    BY <1>2, <1>5, <2>1 DEF BatchInv, Writing
  <2> QED
    BY <1>1, <2>2, OthersKeepBatchInv
<1> QED
  BY <1>3, <1>4, <1>5

(* A thread that has written all of the cell at hand.                      *)
LEMMA NextCellKeepsBatchInv ==
  ASSUME IInv, NEW b \in Batches, pc[b] \in Writing, NextCell(b), req'[b] = req[b],
         wrote'[b] = CoveredBy(req[b], i[b] - 1) \cup Footprint(Cell(b).at)
  PROVE  BatchInv(b)'
<1>1. /\ req[b] \in Requests /\ i[b] \in 1..Len(req[b].cells) /\ result[b] = "none"
  BY DEF IInv, BatchInv, Writing
<1>2. Len(req[b].cells) \in Nat
  BY <1>1, LengthIsNat
<1>3. wrote'[b] = CoveredBy(req[b], i[b])
  BY <1>1, OneCellMore DEF Cell
<1>4. CASE LastCell(b)
  <2>1. pc'[b] = "done" /\ result'[b] = "ok"
    BY <1>4 DEF NextCell, IInv, Shape
  <2>2. wrote'[b] = Covers(req[b])
    BY <1>1, <1>3, <1>4, OneCellMore DEF LastCell
  <2> QED
    BY <1>1, <2>1, <2>2 DEF BatchInv, Writing
<1>5. CASE ~LastCell(b)
  <2>1. /\ pc'[b] = "apply" /\ result'[b] = "none" /\ i'[b] = i[b] + 1
        /\ i[b] # Len(req[b].cells)
    BY <1>1, <1>5 DEF NextCell, IInv, Shape, LastCell
  <2>2. i'[b] - 1 = i[b] /\ i'[b] \in 1..Len(req[b].cells)
    BY <1>1, <1>2, <2>1
  <2> QED
    BY <1>1, <1>3, <2>1, <2>2 DEF BatchInv, Writing
<1> QED
  BY <1>4, <1>5

LEMMA PutLeafKeepsIInv ==
  ASSUME IInv, NEW b \in Batches, PutLeaf(b)
  PROVE  IInv'
<1>1. Shape' /\ Others(b)
  BY DEF IInv, Shape, Others, PutLeaf, NextCell, Put
<1>2. /\ pc[b] = "put" /\ req'[b] = req[b] /\ NextCell(b)
      /\ wrote'[b] = wrote[b] \cup {Cell(b).at}
  BY DEF IInv, Shape, PutLeaf, Put
<1>3. wrote[b] = CoveredBy(req[b], i[b] - 1) /\ Cell(b).at \notin Consolidated
  BY <1>2 DEF IInv, BatchInv
<1>4. BatchInv(b)'
  BY <1>2, <1>3, NextCellKeepsBatchInv DEF Footprint, Writing
<1> QED
  BY <1>1, <1>4, OthersKeepBatchInv

(* One leaf of a splash, in either mode.                                   *)
LEMMA ShareKeepsIInv ==
  ASSUME IInv, NEW b \in Batches, pc[b] \in {"splash", "sum"}, NEW c \in todo[b], NEW v,
         Put(b, c, v), AfterShare(b, c), UNCHANGED <<req, leaf>>
  PROVE  IInv'
<1>1. Shape' /\ Others(b)
  BY DEF IInv, Shape, Others, AfterShare, NextCell, Put
<1>2. /\ req[b] \in Requests /\ i[b] \in 1..Len(req[b].cells) /\ result[b] = "none"
      /\ todo[b] \subseteq Footprint(Cell(b).at)
      /\ wrote[b] = CoveredBy(req[b], i[b] - 1) \cup (Footprint(Cell(b).at) \ todo[b])
  BY DEF IInv, BatchInv, Writing
<1>3. wrote'[b] = wrote[b] \cup {c} /\ todo'[b] = todo[b] \ {c}
  BY DEF IInv, Shape, Put, AfterShare
<1>4. wrote'[b] = CoveredBy(req[b], i[b] - 1) \cup (Footprint(Cell(b).at) \ todo'[b])
  BY <1>2, <1>3
<1>5. CASE todo[b] = {c}
  <2>1. NextCell(b) /\ todo'[b] = {}
    BY <1>3, <1>5 DEF AfterShare
  <2>2. BatchInv(b)'
    BY <1>4, <2>1, NextCellKeepsBatchInv DEF Writing
  <2> QED
    BY <1>1, <2>2, OthersKeepBatchInv
<1>6. CASE todo[b] # {c}
  <2>1. pc'[b] = "splash" /\ i'[b] = i[b] /\ result'[b] = "none" /\ Cell(b)' = Cell(b)
    BY <1>2, <1>6 DEF AfterShare, IInv, Shape, Cell
  <2>2. BatchInv(b)'
    BY <1>2, <1>3, <1>4, <2>1 DEF BatchInv, Writing
  <2> QED
    BY <1>1, <2>2, OthersKeepBatchInv
<1> QED
  BY <1>5, <1>6

LEMMA ReadBaseKeepsIInv ==
  ASSUME IInv, NEW b \in Batches, NEW c, ReadBase(b, c)
  PROVE  IInv'
<1>1. Shape' /\ Others(b)
  BY DEF IInv, Shape, Others, ReadBase
<1>2. /\ pc[b] = "splash" /\ pc'[b] = "sum" /\ leaf'[b] = c /\ c \in todo[b] /\ todo'[b] = todo[b]
      /\ req'[b] = req[b] /\ i'[b] = i[b] /\ result'[b] = result[b] /\ wrote'[b] = wrote[b]
      /\ Cell(b)' = Cell(b)
  BY DEF IInv, Shape, ReadBase, Cell
<1>3. BatchInv(b)'
  BY <1>2 DEF IInv, BatchInv, Writing
<1> QED
  BY <1>1, <1>3, OthersKeepBatchInv

LEMMA ThreadKeepsIInv ==
  ASSUME IInv, NEW b \in Batches, Thread(b)
  PROVE  IInv'
<1>1. ASSUME NEW c, PutShare(b, c) PROVE IInv'
  BY <1>1, ShareKeepsIInv DEF PutShare
<1>2. CASE PutSum(b)
  <2>1. pc[b] = "sum" /\ leaf[b] \in todo[b]
    BY <1>2 DEF PutSum, IInv, BatchInv
  <2> QED
    BY <1>2, <2>1, ShareKeepsIInv DEF PutSum
<1> QED
  BY <1>1, <1>2, ValidateKeepsIInv, ApplyKeepsIInv, PutLeafKeepsIInv, ReadBaseKeepsIInv DEF Thread

LEMMA StepKeepsIInv == IInv /\ [Next]_vars => IInv'
<1> SUFFICES ASSUME IInv, [Next]_vars PROVE IInv'
  OBVIOUS
<1>1. CASE UNCHANGED vars
  BY <1>1 DEF vars, IInv, Shape, BatchInv, Cell
<1>2. CASE Next
  BY <1>2, SubmitKeepsIInv, ThreadKeepsIInv DEF Next
<1> QED
  BY <1>1, <1>2

LEMMA Inductive == Spec => []IInv
  BY InitIInv, StepKeepsIInv, PTL DEF Spec

(* write.rs:14: a batch refused by validation leaves nothing behind.       *)
THEOREM RefusalsWriteNothing == Spec => []RefusedBatchWroteNothing
<1>1. IInv => RefusedBatchWroteNothing
  BY DEF IInv, BatchInv, RefusedBatchWroteNothing
<1> QED
  BY <1>1, Inductive, PTL

(* A batch answered "ok" wrote every leaf of every cell, and no other.     *)
THEOREM OkWritesItAll == Spec => []OkBatchWroteItAll
<1>1. IInv => OkBatchWroteItAll
  BY DEF IInv, BatchInv, OkBatchWroteItAll
<1> QED
  BY <1>1, Inductive, PTL

-------------------------------------------------------------------------------
(* Sums over finite sets.                                                  *)

LEMMA SetInduction ==
  ASSUME NEW S, 0 \in S, \A n \in Nat : n \in S => n + 1 \in S
  PROVE  Nat \subseteq S
<1> SUFFICES ASSUME Nat \ S # {} PROVE FALSE
  OBVIOUS
<1>1. IsWellFoundedOn({ss \in Nat \X Nat : ss[1] < ss[2]}, Nat)
  BY NatLessThanWellFounded DEF OpToRel
<1>2. PICK n \in Nat \ S : \A m \in Nat \ S : ~(<<m, n>> \in {ss \in Nat \X Nat : ss[1] < ss[2]})
  BY <1>1, WFMin
<1>3. n - 1 \in Nat /\ n - 1 < n
  BY <1>2
<1>4. n - 1 \in S
  BY <1>2, <1>3
<1> QED BY <1>3, <1>4

LEMMA OneLess ==
  ASSUME NEW S, IsFiniteSet(S), NEW s \in SUBSET S, NEW x \in s, NEW n \in Nat,
         Cardinality(s) = n + 1
  PROVE  s \ {x} \in SUBSET S /\ Cardinality(s \ {x}) = n
<1>1. IsFiniteSet(s)
  BY FS_Subset
<1>2. Cardinality(s \ {x}) = Cardinality(s) - 1
  BY <1>1, FS_RemoveElement
<1> QED BY <1>2

(* The sets of a family that has the empty set and is closed under adding  *)
(* an element are all there are.                                           *)
LEMMA FiniteInduction ==
  ASSUME NEW S, IsFiniteSet(S), NEW T, {} \in T,
         \A s \in SUBSET S : \A x \in s : s \ {x} \in T => s \in T
  PROVE  S \in T
<1>1. PICK K : K = {n \in Nat : \A s \in SUBSET S : Cardinality(s) = n => s \in T}
  OBVIOUS
<1>2. 0 \in K
  <2> SUFFICES ASSUME NEW s \in SUBSET S, Cardinality(s) = 0 PROVE s \in T
    BY <1>1
  <2>1. IsFiniteSet(s)
    BY FS_Subset
  <2>2. s = {}
    BY <2>1, FS_EmptySet
  <2> QED BY <2>2
<1>3. ASSUME NEW n \in Nat, n \in K PROVE n + 1 \in K
  <2> SUFFICES ASSUME NEW s \in SUBSET S, Cardinality(s) = n + 1 PROVE s \in T
    BY <1>1
  <2>0. Cardinality({}) = 0
    BY FS_EmptySet
  <2>1. s # {}
    BY <2>0
  <2>2. PICK x \in s : TRUE
    BY <2>1
  <2>3. s \ {x} \in T
    BY <1>1, <1>3, OneLess
  <2> QED BY <2>3
<1>4. Nat \subseteq K
  BY <1>2, <1>3, SetInduction
<1>5. Cardinality(S) \in Nat
  BY FS_CardinalityType
<1> QED BY <1>1, <1>4, <1>5

(* w adds up f over each set in T, as SumFunctionOnSet does.               *)
First(s) == CHOOSE x \in s : TRUE
Adds(w, f, T) ==
    w = [s \in T |-> IF s = {} THEN 0
                     ELSE f[First(s)] + w[s \ {First(s)}]]

LEMMA AddsExists ==
  ASSUME NEW S, IsFiniteSet(S), NEW f
  PROVE  \E w : Adds(w, f, SUBSET S)
<1> DEFINE Small(n) == {s \in SUBSET S : Cardinality(s) <= n}
<1>0. \A s \in SUBSET S : IsFiniteSet(s) /\ Cardinality(s) \in Nat
  BY FS_Subset, FS_CardinalityType
<1>1. PICK K : K = {n \in Nat : \E w : Adds(w, f, Small(n))}
  OBVIOUS
<1>2. 0 \in K
  <2>1. PICK w : w = [s \in Small(0) |-> 0]
    OBVIOUS
  <2>2. \A s \in Small(0) : s = {}
    BY <1>0, FS_EmptySet
  <2>3. Adds(w, f, Small(0))
    BY <2>1, <2>2 DEF Adds
  <2> QED BY <1>1, <2>3
<1>3. ASSUME NEW n \in Nat, n \in K PROVE n + 1 \in K
  <2>1. PICK w : Adds(w, f, Small(n))
    BY <1>1, <1>3
  <2>2. PICK v : v = [s \in Small(n + 1) |-> IF s = {} THEN 0
                        ELSE f[First(s)] + w[s \ {First(s)}]]
    OBVIOUS
  <2>3. ASSUME NEW s \in Small(n), s \in Small(n + 1) PROVE v[s] = w[s]
    BY <2>1, <2>2, <2>3 DEF Adds
  <2>4. ASSUME NEW s \in Small(n + 1), s # {}
        PROVE  LET t == s \ {First(s)} IN t \in Small(n) /\ t \in Small(n + 1)
    <3>1. PICK x \in s : x = First(s)
      BY <2>4 DEF First
    <3>2. Cardinality(s \ {x}) = Cardinality(s) - 1
      BY <1>0, FS_RemoveElement
    <3>3. Cardinality(s) \in Nat /\ Cardinality(s) <= n + 1
      BY <1>0
    <3>4. Cardinality(s \ {x}) <= n /\ Cardinality(s \ {x}) <= n + 1
      BY <3>2, <3>3
    <3>5. s \ {x} \in Small(n) /\ s \ {x} \in Small(n + 1)
      BY <3>4
    <3> QED BY <3>1, <3>5
  <2> HIDE DEF Small
  <2>5. Adds(v, f, Small(n + 1))
    <3>1. \A s \in Small(n + 1) : s # {} =>
             v[s \ {First(s)}] = w[s \ {First(s)}]
      BY <2>3, <2>4
    <3> QED BY <2>2, <3>1 DEF Adds
  <2> QED BY <1>1, <2>5
<1>4. Nat \subseteq K
  BY <1>2, <1>3, SetInduction
<1>5. Small(Cardinality(S)) = SUBSET S
  BY FS_Subset
<1> QED BY <1>0, <1>1, <1>4, <1>5

(* w is f summed over each subset of its domain, whatever the order.       *)
Sums(w, f) ==
    /\ w \in [SUBSET DOMAIN f -> Int]
    /\ w[{}] = 0
    /\ \A s \in SUBSET DOMAIN f : \A x \in s : w[s] = f[x] + w[s \ {x}]
    /\ SumFunction(f) = w[DOMAIN f]

LEMMA SumIs ==
  ASSUME NEW f, IsFiniteSet(DOMAIN f), \A x \in DOMAIN f : f[x] \in Int
  PROVE  \E w : Sums(w, f)
<1> DEFINE S == DOMAIN f
<1>1. PICK w : w = CHOOSE v : Adds(v, f, SUBSET S)
  OBVIOUS
<1>2. Adds(w, f, SUBSET S)
  BY <1>1, AddsExists
<1>3. SumFunction(f) = w[S]
  BY <1>1 DEF SumFunction, SumFunctionOnSet, FoldFunctionOnSet, MapThenFoldSet, Adds, First
<1>4. ASSUME NEW s \in SUBSET S
      PROVE  w[s] = IF s = {} THEN 0
                    ELSE f[First(s)] + w[s \ {First(s)}]
  BY <1>2 DEF Adds
<1> DEFINE Good(s) == w[s] \in Int /\ \A x \in s : w[s] = f[x] + w[s \ {x}]
<1>5. PICK K : K = {n \in Nat : \A s \in SUBSET S : Cardinality(s) <= n => Good(s)}
  OBVIOUS
<1> HIDE DEF Good
<1>0. \A s \in SUBSET S : IsFiniteSet(s) /\ Cardinality(s) \in Nat
  BY FS_Subset, FS_CardinalityType
<1>6. 0 \in K
  <2> SUFFICES ASSUME NEW s \in SUBSET S, Cardinality(s) <= 0 PROVE Good(s)
    BY <1>5
  <2>1. Cardinality(s) = 0
    BY <1>0
  <2>2. s = {}
    BY <1>0, <2>1, FS_EmptySet
  <2>3. w[s] = 0
    BY <1>4, <2>2
  <2> QED BY <2>2, <2>3 DEF Good
<1>7. ASSUME NEW n \in Nat, n \in K PROVE n + 1 \in K
  <2> SUFFICES ASSUME NEW s \in SUBSET S, Cardinality(s) <= n + 1 PROVE Good(s)
    BY <1>5
  <2>1. CASE s = {}
    BY <1>4, <2>1 DEF Good
  <2>2. CASE s # {}
    <3>1. PICK y \in s : y = First(s)
      BY <2>2 DEF First
    <3>2. w[s] = f[y] + w[s \ {y}]
      BY <1>4, <2>2, <3>1
    <3>3. ASSUME NEW t \in SUBSET s, NEW x \in s, x \notin t PROVE t \in SUBSET S /\ Good(t)
      <4>1. IsFiniteSet(s \ {x}) /\ Cardinality(s \ {x}) = Cardinality(s) - 1
        BY <1>0, FS_RemoveElement
      <4>2. t \in SUBSET (s \ {x})
        BY <3>3
      <4>3. Cardinality(t) <= Cardinality(s \ {x})
        BY <4>1, <4>2, FS_Subset
      <4>4. Cardinality(s) \in Nat /\ Cardinality(t) \in Nat /\ Cardinality(s \ {x}) \in Nat
        BY <1>0
      <4>5. Cardinality(t) <= n
        BY <4>1, <4>3, <4>4
      <4> QED BY <1>5, <1>7, <4>5
    <3>4. f[y] \in Int /\ w[s \ {y}] \in Int
      BY <3>3 DEF Good
    <3>5. ASSUME NEW x \in s PROVE w[s] = f[x] + w[s \ {x}]
      <4>1. CASE x = y
        BY <3>2, <4>1
      <4>2. CASE x # y
        <5>1. PICK t : t = (s \ {x}) \ {y}
          OBVIOUS
        <5>2. t = (s \ {y}) \ {x} /\ y \in s \ {x} /\ x \in s \ {y}
          BY <4>2, <5>1
        <5>3. w[s \ {x}] = f[y] + w[t] /\ w[s \ {y}] = f[x] + w[t] /\ w[t] \in Int
          BY <3>3, <5>1, <5>2 DEF Good
        <5>4. f[x] \in Int
          OBVIOUS
        <5> QED BY <3>2, <3>4, <5>3, <5>4
      <4> QED BY <4>1, <4>2
    <3>6. w[s] \in Int
      BY <3>2, <3>4
    <3> QED BY <3>5, <3>6 DEF Good
  <2> QED BY <2>1, <2>2
<1>8. Nat \subseteq K
  BY <1>6, <1>7, SetInduction
<1>9. ASSUME NEW s \in SUBSET S PROVE Good(s)
  <2>1. Cardinality(s) \in K
    BY <1>0, <1>8
  <2>2. Cardinality(s) <= Cardinality(s)
    BY <1>0
  <2> QED BY <1>5, <2>1, <2>2
<1>10. w \in [SUBSET S -> Int]
  <2>1. w = [s \in SUBSET S |-> w[s]]
    BY <1>2 DEF Adds
  <2> QED BY <1>9, <2>1 DEF Good
<1> QED BY <1>3, <1>4, <1>9, <1>10 DEF Sums, Good

(* Of natural numbers, of zeros, and of two sums put together.             *)
LEMMA SumOfNats ==
  ASSUME NEW f, IsFiniteSet(DOMAIN f), \A x \in DOMAIN f : f[x] \in Nat
  PROVE  SumFunction(f) \in Nat
<1>1. PICK w : Sums(w, f)
  BY SumIs
<1>2. PICK T : T = {s \in SUBSET DOMAIN f : w[s] \in Nat}
  OBVIOUS
<1>3. {} \in T
  BY <1>1, <1>2 DEF Sums
<1>4. ASSUME NEW s \in SUBSET DOMAIN f, NEW x \in s, s \ {x} \in T PROVE s \in T
  <2>1. w[s] = f[x] + w[s \ {x}] /\ w[s \ {x}] \in Nat /\ f[x] \in Nat
    BY <1>1, <1>2, <1>4 DEF Sums
  <2> QED BY <1>2, <2>1
<1>5. DOMAIN f \in T
  BY <1>3, <1>4, FiniteInduction
<1> QED BY <1>1, <1>2, <1>5 DEF Sums

LEMMA SumOfZeros ==
  ASSUME NEW f, IsFiniteSet(DOMAIN f), \A x \in DOMAIN f : f[x] = 0
  PROVE  SumFunction(f) = 0
<1>1. PICK w : Sums(w, f)
  BY SumIs
<1>2. PICK T : T = {s \in SUBSET DOMAIN f : w[s] = 0}
  OBVIOUS
<1>3. {} \in T
  BY <1>1, <1>2 DEF Sums
<1>4. ASSUME NEW s \in SUBSET DOMAIN f, NEW x \in s, s \ {x} \in T PROVE s \in T
  <2>1. w[s] = f[x] + w[s \ {x}] /\ w[s \ {x}] = 0 /\ f[x] = 0
    BY <1>1, <1>2, <1>4 DEF Sums
  <2> QED BY <1>2, <2>1
<1>5. DOMAIN f \in T
  BY <1>3, <1>4, FiniteInduction
<1> QED BY <1>1, <1>2, <1>5 DEF Sums

LEMMA SumIsLinear ==
  ASSUME NEW D, IsFiniteSet(D), NEW f, NEW g, NEW h, DOMAIN f = D, DOMAIN g = D, DOMAIN h = D,
         NEW q \in Int, \A x \in D : /\ f[x] \in Int /\ g[x] \in Int /\ h[x] \in Int
                                     /\ h[x] = g[x] + q * f[x]
  PROVE  SumFunction(h) = SumFunction(g) + q * SumFunction(f)
<1>1. PICK u, v, w : Sums(u, f) /\ Sums(v, g) /\ Sums(w, h)
  BY SumIs
<1>2. PICK T : T = {s \in SUBSET D : w[s] = v[s] + q * u[s]}
  OBVIOUS
<1>3. {} \in T
  BY <1>1, <1>2 DEF Sums
<1>4. ASSUME NEW s \in SUBSET D, NEW x \in s, s \ {x} \in T PROVE s \in T
  <2>1. PICK a, b, c, d \in Int : /\ a = f[x] /\ b = u[s \ {x}] /\ c = g[x] /\ d = v[s \ {x}]
    BY <1>1 DEF Sums
  <2>2. w[s \ {x}] = d + q * b /\ h[x] = c + q * a
    BY <1>2, <1>4, <2>1
  <2>3. u[s] = a + b /\ v[s] = c + d /\ w[s] = h[x] + w[s \ {x}]
    BY <1>1, <2>1 DEF Sums
  <2>4. (c + q * a) + (d + q * b) = (c + d) + q * (a + b)
    OBVIOUS
  <2>5. w[s] = v[s] + q * u[s]
    BY <2>2, <2>3, <2>4
  <2> QED BY <1>2, <2>5
<1>5. D \in T
  BY <1>3, <1>4, FiniteInduction
<1> QED BY <1>1, <1>2, <1>5 DEF Sums

-------------------------------------------------------------------------------
(* Types, and what validation has made sure of.                            *)

(* A total is no text.                                                     *)
Fit(cell) == cell.at \in Consolidated => cell.value # Text

(* What validation has found fit, and what a splash has to go by.          *)
Sound(b) ==
    /\ pc[b] = "validate" => \A k \in 1..(i[b] - 1) : Fit(req[b].cells[k])
    /\ pc[b] \in Writing => \A k \in 1..Len(req[b].cells) : Fit(req[b].cells[k])
    /\ pc[b] \in {"splash", "sum"} => Cell(b).at \in Consolidated /\ TotalAbs(Cell(b).at) # 0
    /\ pc[b] = "sum" => req[b].splash = "add"

(* The share of a leaf in a cell of a batch.                               *)
Part(cell, c) ==
    LET w    == Weight(cell.at)[c]
        part == (cell.value * Magnitude(w)) \div TotalAbs(cell.at)
    IN  IF w < 0 THEN -part ELSE part

(* What a leaf of the first cell of a batch is to hold.                    *)
Amount(b, c) ==
    Part(req[b].cells[1], c) + (IF req[b].splash = "add" THEN Numeric(before[b][c]) ELSE 0)

(* A splash of one total with no other batch around: a leaf has its amount *)
(* or what it had when the request came in.                                *)
SplashInv(b) ==
    Alone(b) /\ Len(req[b].cells) = 1 =>
        LET D == Footprint(req[b].cells[1].at) IN
        /\ pc[b] \in {"validate", "apply"} => cells = before[b]
        /\ pc[b] \in {"splash", "sum"} =>
               \A c \in D : cells[c] = IF c \in todo[b] THEN before[b][c] ELSE Amount(b, c)
        /\ pc[b] = "sum" => base[b] = Numeric(before[b][leaf[b]])
        /\ result[b] = "ok" /\ req[b].cells[1].at \in Consolidated =>
               /\ req[b].cells[1].value # Text /\ TotalAbs(req[b].cells[1].at) # 0
               /\ \A c \in D : cells[c] = Amount(b, c)

(* The type invariant, and the type of the history.                        *)
Typed == TypeOK /\ before \in [Batches -> [Cells -> Values]]

AmountInv == Typed /\ \A b \in Batches : Sound(b) /\ SplashInv(b)

LEMMA RequestIs ==
  ASSUME NEW r \in Requests
  PROVE  /\ Len(r.cells) \in Nat /\ DOMAIN r.cells = 1..Len(r.cells) /\ r.splash \in Modes
         /\ \A k \in 1..Len(r.cells) : /\ r.cells[k].at \in Cells \cup Consolidated
                                       /\ r.cells[k].value \in Int \cup {Text}
<1>1. r \in [cells : Seq([at : Cells \cup Consolidated, value : Int \cup {Text}]),
             splash : Modes, createMissing : BOOLEAN]
  BY RequestsAreBatches
<1>2. PICK C : C = [at : Cells \cup Consolidated, value : Int \cup {Text}]
  OBVIOUS
<1>3. r.cells \in Seq(C) /\ r.splash \in Modes
  BY <1>1, <1>2
<1>4. Len(r.cells) \in Nat /\ DOMAIN r.cells = 1..Len(r.cells)
  BY <1>3
<1>5. ASSUME NEW k \in 1..Len(r.cells)
      PROVE  r.cells[k].at \in Cells \cup Consolidated /\ r.cells[k].value \in Int \cup {Text}
  <2>1. r.cells[k] \in C
    BY <1>3, <1>4
  <2> QED BY <1>2, <2>1
<1> QED BY <1>3, <1>4, <1>5

LEMMA WeightIs ==
  ASSUME NEW a \in Consolidated
  PROVE  /\ IsFiniteSet(DOMAIN Weight(a)) /\ DOMAIN Weight(a) \subseteq Leaves
         /\ \A c \in DOMAIN Weight(a) : Weight(a)[c] \in Int /\ Magnitude(Weight(a)[c]) \in Nat
         /\ TotalAbs(a) \in Nat
<1>1. /\ IsFiniteSet(DOMAIN Weight(a)) /\ DOMAIN Weight(a) \subseteq Leaves
      /\ Weight(a) \in [DOMAIN Weight(a) -> Int]
  BY ExpansionsAreWeighted, ExpansionsAreLeaves DEF Weight
<1>2. ASSUME NEW c \in DOMAIN Weight(a)
      PROVE  Weight(a)[c] \in Int /\ Magnitude(Weight(a)[c]) \in Nat
  <2>1. Weight(a)[c] \in Int
    BY <1>1
  <2> QED BY <2>1 DEF Magnitude
<1>3. PICK f : f = [c \in DOMAIN Weight(a) |-> Magnitude(Weight(a)[c])]
  OBVIOUS
<1>4. DOMAIN f = DOMAIN Weight(a) /\ \A c \in DOMAIN f : f[c] \in Nat
  BY <1>2, <1>3
<1>5. SumFunction(f) \in Nat
  BY <1>1, <1>4, SumOfNats
<1> QED BY <1>1, <1>2, <1>3, <1>5 DEF TotalAbs

LEMMA QuotientIsInt ==
  ASSUME NEW v \in Int, NEW t \in Nat \ {0}
  PROVE  v \div t \in Int
OBVIOUS

LEMMA PartIsInt ==
  ASSUME NEW cell, cell.at \in Consolidated, cell.value \in Int, TotalAbs(cell.at) # 0,
         NEW c \in DOMAIN Weight(cell.at)
  PROVE  Part(cell, c) \in Int
<1>1. /\ TotalAbs(cell.at) \in Nat \ {0} /\ Weight(cell.at)[c] \in Int
      /\ Magnitude(Weight(cell.at)[c]) \in Nat
  BY WeightIs
<1>2. PICK p : p = (cell.value * Magnitude(Weight(cell.at)[c])) \div TotalAbs(cell.at)
  OBVIOUS
<1>3. p \in Int
  <2>1. cell.value * Magnitude(Weight(cell.at)[c]) \in Int
    BY <1>1
  <2> QED BY <1>1, <1>2, <2>1, QuotientIsInt
<1>4. Part(cell, c) = IF Weight(cell.at)[c] < 0 THEN -p ELSE p
  BY <1>2 DEF Part
<1> QED BY <1>3, <1>4

-------------------------------------------------------------------------------
(* Every step keeps the types and the amounts.                             *)
LEMMA InitAmount == Init => AmountInv
<1> SUFFICES ASSUME Init PROVE AmountInv
  OBVIOUS
<1>1. cells \in [Cells -> Values]
  BY InitialsAreCells DEF Init
<1>2. Typed
  BY <1>1 DEF Init, Typed, TypeOK, Steps
<1>3. ASSUME NEW b \in Batches PROVE Sound(b) /\ SplashInv(b)
  BY DEF Init, Sound, SplashInv, Writing
<1> QED BY <1>2, <1>3 DEF AmountInv

(* A step of one thread: the others stay sound, and none of them is alone. *)
LEMMA OneThreadMoves ==
  ASSUME IInv, AmountInv, NEW b \in Batches, Others(b), Typed', Sound(b)', SplashInv(b)',
         pc'[b] # "idle"
  PROVE  AmountInv'
<1>1. ASSUME NEW t \in Batches \ {b} PROVE Sound(t)' /\ SplashInv(t)'
  <2>1. Sound(t)'
    <3>1. pc'[t] = pc[t] /\ req'[t] = req[t] /\ i'[t] = i[t]
      BY DEF Others
    <3> QED BY <3>1 DEF AmountInv, Sound, Cell
  <2>2. ~Alone(t)'
    BY DEF Alone
  <2> QED BY <2>1, <2>2 DEF SplashInv
<1> QED BY <1>1 DEF AmountInv

(* A step of a batch's own changes nothing in whether it is alone.         *)
LEMMA StaysAlone ==
  ASSUME NEW b \in Batches, Others(b)
  PROVE  Alone(b)' <=> Alone(b)
BY DEF Others, Alone

LEMMA SubmitAmount ==
  ASSUME IInv, IInv', AmountInv, NEW b \in Batches, NEW r \in Requests, Submit(b, r)
  PROVE  AmountInv'
<1>1. Others(b)
  BY DEF IInv, Shape, Others, Submit
<1>2. /\ pc' = [pc EXCEPT ![b] = IF r.cells = <<>> THEN "done" ELSE "validate"]
      /\ result' = [result EXCEPT ![b] = IF r.cells = <<>> THEN "invalid" ELSE @]
      /\ req' = [req EXCEPT ![b] = r] /\ before' = [before EXCEPT ![b] = cells]
      /\ UNCHANGED <<cells, created, i, todo, leaf, base, wrote>>
  <2>1. /\ pc \in [Batches -> Steps] /\ result \in [Batches -> {"none", "ok", "invalid", "failed"}]
    BY DEF AmountInv, Typed, TypeOK
  <2> QED BY <2>1 DEF Submit
<1>3. /\ pc'[b] \in {"done", "validate"} /\ i'[b] = 1 /\ before'[b] = cells /\ cells' = cells
      /\ result'[b] # "ok"
  <2>1. pc[b] = "idle" /\ i[b] = 1 /\ result[b] = "none"
    BY DEF Submit, IInv, BatchInv
  <2> QED BY <1>2, <2>1 DEF AmountInv, Typed, TypeOK
<1>4. Typed'
  <2>1. \A t \in Batches : pc'[t] \notin {"idle", "done"} => i'[t] \in DOMAIN req'[t].cells
    <3>1. ASSUME NEW t \in Batches \ {b}
          PROVE  pc'[t] \notin {"idle", "done"} => i'[t] \in DOMAIN req'[t].cells
      BY <1>1 DEF Others, AmountInv, Typed, TypeOK
    <3>2. pc'[b] = "validate" => i'[b] \in DOMAIN req'[b].cells
      <4>1. pc'[b] = "validate" => i'[b] \in 1..Len(req'[b].cells)
        BY DEF IInv, BatchInv
      <4>2. req'[b] = r
        BY <1>2 DEF IInv, Shape
      <4> QED BY <4>1, <4>2, RequestIs
    <3> QED BY <1>3, <3>1, <3>2
  <2>2. /\ pc' \in [Batches -> Steps]
        /\ result' \in [Batches -> {"none", "ok", "invalid", "failed"}]
        /\ before' \in [Batches -> [Cells -> Values]]
    BY <1>2 DEF AmountInv, Typed, TypeOK, Steps
  <2>3. \A t \in Batches : req'[t] \in Requests \cup {NoRequest}
    BY <1>2 DEF AmountInv, Typed, TypeOK, IInv, Shape
  <2> QED BY <1>2, <2>1, <2>2, <2>3 DEF AmountInv, Typed, TypeOK
<1>5. Sound(b)'
  BY <1>3 DEF Sound, Writing
<1>6. SplashInv(b)'
  BY <1>3 DEF SplashInv
<1> QED BY <1>1, <1>3, <1>4, <1>5, <1>6, OneThreadMoves

(* The index of a batch that is under way is that of one of its cells.     *)
LEMMA IndexIs ==
  ASSUME IInv, NEW t \in Batches, pc[t] \in Writing \cup {"validate"}
  PROVE  /\ i[t] \in DOMAIN req[t].cells /\ i[t] \in 1..Len(req[t].cells)
         /\ Len(req[t].cells) \in Nat /\ req[t] \in Requests
<1>1. req[t] \in Requests /\ i[t] \in 1..Len(req[t].cells)
  BY DEF IInv, BatchInv, Writing
<1> QED BY <1>1, RequestIs

(* The types of a thread's step, but for what it writes and is answered.   *)
LEMMA ThreadTypes ==
  ASSUME IInv', AmountInv, NEW b \in Batches, UNCHANGED <<req, before>>,
         cells' \in [Cells -> Values], created' \subseteq Missing,
         pc' \in [Batches -> Steps], \A t \in Batches : pc'[t] = pc[t] \/ pc'[t] # "idle",
         \A t \in Batches : todo'[t] \subseteq Leaves /\ leaf'[t] \in Leaves \cup {None},
         base' \in [Batches -> Int], result' \in [Batches -> {"none", "ok", "invalid", "failed"}],
         wrote' \in [Batches -> SUBSET Cells]
  PROVE  Typed'
<1>1. ASSUME NEW t \in Batches, pc'[t] \notin {"idle", "done"}
      PROVE  i'[t] \in DOMAIN req'[t].cells
  <2>1. pc'[t] \in Writing \cup {"validate"}
    BY <1>1 DEF Steps, Writing
  <2>2. req'[t] \in Requests /\ i'[t] \in 1..Len(req'[t].cells)
    BY <2>1 DEF IInv, BatchInv, Writing
  <2>3. DOMAIN req'[t].cells = 1..Len(req'[t].cells)
    BY <2>2, RequestIs
  <2> QED BY <2>2, <2>3
<1>2. \A t \in Batches : req'[t] \in Requests \cup {NoRequest}
  BY DEF AmountInv, Typed, TypeOK
<1>3. before' \in [Batches -> [Cells -> Values]]
  BY DEF AmountInv, Typed
<1> QED BY <1>1, <1>2, <1>3 DEF Typed, TypeOK

LEMMA ValidateAmount ==
  ASSUME IInv, IInv', AmountInv, NEW b \in Batches, Validate(b)
  PROVE  AmountInv'
<1>1. Others(b) /\ (Alone(b)' <=> Alone(b))
  <2>1. Others(b)
    BY DEF IInv, Shape, Others, Validate
  <2> QED BY <2>1, StaysAlone
<1>2. pc[b] = "validate" /\ UNCHANGED <<cells, created, req, todo, leaf, base, before, wrote>>
  BY DEF Validate
<1>3. /\ i[b] \in 1..Len(req[b].cells) /\ Len(req[b].cells) \in Nat /\ result[b] = "none"
      /\ \A k \in 1..(i[b] - 1) : Fit(req[b].cells[k])
  <2>1. result[b] = "none" /\ \A k \in 1..(i[b] - 1) : Fit(req[b].cells[k])
    BY <1>2 DEF IInv, BatchInv, AmountInv, Sound
  <2> QED BY <1>2, <2>1, IndexIs
<1>4. /\ pc' \in [Batches -> Steps] /\ result' \in [Batches -> {"none", "ok", "invalid", "failed"}]
      /\ pc'[b] \in {"validate", "apply", "done"} /\ result'[b] # "ok"
  <2>1. pc \in [Batches -> Steps] /\ result \in [Batches -> {"none", "ok", "invalid", "failed"}]
    BY DEF AmountInv, Typed, TypeOK
  <2>2. CASE Acceptable(req[b], Cell(b))
    <3>1. /\ pc' = [pc EXCEPT ![b] = IF LastCell(b) THEN "apply" ELSE @]
          /\ result' = result
      BY <2>2 DEF Validate
    <3> QED BY <1>2, <1>3, <2>1, <3>1 DEF Steps
  <2>3. CASE ~Acceptable(req[b], Cell(b))
    <3>1. /\ pc' = [pc EXCEPT ![b] = "done"]
          /\ result' = [result EXCEPT ![b] = "invalid"]
      BY <2>3 DEF Validate
    <3> QED BY <2>1, <3>1 DEF Steps
  <2> QED BY <2>2, <2>3
<1>5. Typed'
  <2>1. \A t \in Batches : pc'[t] = pc[t] \/ pc'[t] # "idle"
    BY <1>1, <1>4 DEF Others
  <2> QED BY <1>2, <1>4, <2>1, ThreadTypes DEF AmountInv, Typed, TypeOK
<1>6. Sound(b)'
  <2>1. CASE Acceptable(req[b], Cell(b))
    <3>1. Fit(req[b].cells[i[b]])
      BY <2>1 DEF Acceptable, Fit, Cell
    <3>2. \A k \in 1..i[b] : Fit(req[b].cells[k])
      <4>1. \A k \in 1..i[b] : k \in 1..(i[b] - 1) \/ k = i[b]
        BY <1>3
      <4> QED BY <1>3, <3>1, <4>1
    <3>3. CASE LastCell(b)
      <4>1. pc'[b] = "apply"
        BY <2>1, <3>3 DEF Validate, IInv, Shape
      <4> QED BY <1>2, <3>2, <3>3, <4>1 DEF Sound, LastCell
    <3>4. CASE ~LastCell(b)
      <4>1. pc'[b] = "validate" /\ i'[b] = i[b] + 1
        BY <1>2, <2>1, <3>4 DEF Validate, IInv, Shape
      <4>2. i'[b] - 1 = i[b]
        BY <1>3, <4>1
      <4> QED BY <1>2, <3>2, <4>1, <4>2 DEF Sound, Writing
    <3> QED BY <3>3, <3>4
  <2>2. CASE ~Acceptable(req[b], Cell(b))
    <3>1. pc'[b] = "done"
      BY <2>2 DEF Validate, IInv, Shape
    <3> QED BY <3>1 DEF Sound, Writing
  <2> QED BY <2>1, <2>2
<1>7. SplashInv(b)'
  <2>1. Alone(b) /\ Len(req[b].cells) = 1 => cells = before[b]
    BY <1>2 DEF AmountInv, SplashInv
  <2> QED BY <1>1, <1>2, <1>4, <2>1 DEF SplashInv
<1> QED BY <1>1, <1>4, <1>5, <1>6, <1>7, OneThreadMoves

LEMMA ApplyAmount ==
  ASSUME IInv, IInv', AmountInv, NEW b \in Batches, Apply(b)
  PROVE  AmountInv'
<1>1. Others(b) /\ (Alone(b)' <=> Alone(b))
  <2>1. Others(b)
    BY DEF IInv, Shape, Others, Apply
  <2> QED BY <2>1, StaysAlone
<1>2. pc[b] = "apply" /\ UNCHANGED <<cells, req, i, leaf, base, before, wrote>>
  BY DEF Apply
<1>3. /\ i[b] \in 1..Len(req[b].cells) /\ result[b] = "none" /\ Cell(b)' = Cell(b)
      /\ \A k \in 1..Len(req[b].cells) : Fit(req[b].cells[k])
  <2>1. result[b] = "none" /\ \A k \in 1..Len(req[b].cells) : Fit(req[b].cells[k])
    BY <1>2 DEF IInv, BatchInv, AmountInv, Sound, Writing
  <2>2. pc[b] \in Writing
    BY <1>2 DEF Writing
  <2> QED BY <1>2, <2>1, <2>2, IndexIs DEF Cell
<1>4. /\ pc' \in [Batches -> Steps] /\ result' \in [Batches -> {"none", "ok", "invalid", "failed"}]
      /\ pc'[b] \in {"put", "splash", "done"} /\ result'[b] # "ok"
      /\ created' \subseteq Missing
      /\ pc'[b] = "splash" => /\ Cell(b).at \in Consolidated /\ TotalAbs(Cell(b).at) # 0
                              /\ todo' = [todo EXCEPT ![b] = DOMAIN Weight(Cell(b).at)]
      /\ pc'[b] # "splash" => todo' = todo
  <2>1. /\ pc \in [Batches -> Steps] /\ result \in [Batches -> {"none", "ok", "invalid", "failed"}]
        /\ created \subseteq Missing
    BY DEF AmountInv, Typed, TypeOK
  <2>2. CASE Cell(b).at \notin Consolidated
    <3>1. /\ pc' = [pc EXCEPT ![b] = "put"]
          /\ created' = created \cup ({Cell(b).at} \cap Missing)
          /\ UNCHANGED <<todo, result>>
      BY <2>2 DEF Apply
    <3> QED BY <1>3, <2>1, <3>1 DEF Steps
  <2>3. CASE Cell(b).at \in Consolidated /\ TotalAbs(Cell(b).at) = 0
    <3>1. /\ pc' = [pc EXCEPT ![b] = "done"]
          /\ result' = [result EXCEPT ![b] = "failed"]
          /\ UNCHANGED <<todo, created>>
      BY <2>3 DEF Apply
    <3> QED BY <2>1, <3>1 DEF Steps
  <2>4. CASE Cell(b).at \in Consolidated /\ TotalAbs(Cell(b).at) # 0
    <3>1. /\ pc' = [pc EXCEPT ![b] = "splash"]
          /\ todo' = [todo EXCEPT ![b] = DOMAIN Weight(Cell(b).at)]
          /\ UNCHANGED <<result, created>>
      BY <2>4 DEF Apply
    <3> QED BY <1>3, <2>1, <2>4, <3>1 DEF Steps
  <2> QED BY <2>2, <2>3, <2>4
<1>5. \A t \in Batches : todo'[t] \subseteq Leaves
  <2>1. CASE pc'[b] = "splash"
    <3>1. DOMAIN Weight(Cell(b).at) \subseteq Leaves
      BY <1>4, <2>1, WeightIs
    <3> QED BY <1>4, <2>1, <3>1 DEF AmountInv, Typed, TypeOK, IInv, Shape
  <2> QED BY <1>4, <2>1 DEF AmountInv, Typed, TypeOK
<1>6. Typed'
  <2>1. \A t \in Batches : pc'[t] = pc[t] \/ pc'[t] # "idle"
    BY <1>1, <1>4 DEF Others
  <2>2. \A t \in Batches : leaf'[t] \in Leaves \cup {None}
    BY <1>2 DEF AmountInv, Typed, TypeOK
  <2> QED BY <1>2, <1>4, <1>5, <2>1, <2>2, ThreadTypes DEF AmountInv, Typed, TypeOK
<1>7. Sound(b)'
  BY <1>2, <1>3, <1>4 DEF Sound, Writing
<1>8. SplashInv(b)'
  <2>1. Alone(b) /\ Len(req[b].cells) = 1 => cells = before[b]
    BY <1>2 DEF AmountInv, SplashInv
  <2>2. ASSUME pc'[b] = "splash", Len(req[b].cells) = 1
        PROVE  todo'[b] = Footprint(req[b].cells[1].at)
    <3>1. Cell(b) = req[b].cells[1]
      BY <1>3, <2>2 DEF Cell
    <3>2. todo'[b] = DOMAIN Weight(Cell(b).at)
      BY <1>4, <2>2 DEF IInv, Shape
    <3> QED BY <1>4, <2>2, <3>1, <3>2 DEF Footprint
  <2> QED BY <1>1, <1>2, <1>4, <2>1, <2>2 DEF SplashInv
<1> QED BY <1>1, <1>4, <1>6, <1>7, <1>8, OneThreadMoves

(* What the store and the batch become when it writes a cell.              *)
LEMMA PutTypes ==
  ASSUME AmountInv, NEW b \in Batches, NEW c \in Cells, NEW v \in Values, Put(b, c, v)
  PROVE  /\ cells' \in [Cells -> Values] /\ wrote' \in [Batches -> SUBSET Cells]
         /\ cells'[c] = v /\ \A d \in Cells \ {c} : cells'[d] = cells[d]
BY DEF Put, AmountInv, Typed, TypeOK

LEMMA NextCellTypes ==
  ASSUME IInv, AmountInv, NEW b \in Batches, NextCell(b)
  PROVE  /\ pc' \in [Batches -> Steps]
         /\ result' \in [Batches -> {"none", "ok", "invalid", "failed"}]
         /\ pc'[b] = IF LastCell(b) THEN "done" ELSE "apply"
BY DEF NextCell, AmountInv, Typed, TypeOK, Steps

LEMMA PutLeafAmount ==
  ASSUME IInv, IInv', AmountInv, NEW b \in Batches, PutLeaf(b)
  PROVE  AmountInv'
<1>1. Others(b) /\ (Alone(b)' <=> Alone(b))
  <2>1. Others(b)
    BY DEF IInv, Shape, Others, PutLeaf, NextCell, Put
  <2> QED BY <2>1, StaysAlone
<1>2. /\ pc[b] = "put" /\ UNCHANGED <<created, req, todo, leaf, base, before>> /\ NextCell(b)
      /\ Put(b, Cell(b).at, Cell(b).value)
  BY DEF PutLeaf
<1>3. /\ i[b] \in 1..Len(req[b].cells) /\ Len(req[b].cells) \in Nat /\ req[b] \in Requests
      /\ Cell(b).at \notin Consolidated
      /\ \A k \in 1..Len(req[b].cells) : Fit(req[b].cells[k])
  <2>1. pc[b] \in Writing
    BY <1>2 DEF Writing
  <2>2. Cell(b).at \notin Consolidated /\ \A k \in 1..Len(req[b].cells) : Fit(req[b].cells[k])
    BY <1>2, <2>1 DEF IInv, BatchInv, AmountInv, Sound
  <2> QED BY <2>1, <2>2, IndexIs
<1>4. Cell(b).at \in Cells /\ Cell(b).value \in Values
  BY <1>3, RequestIs DEF Cell, Values
<1>5. /\ cells' \in [Cells -> Values] /\ wrote' \in [Batches -> SUBSET Cells]
      /\ pc' \in [Batches -> Steps] /\ result' \in [Batches -> {"none", "ok", "invalid", "failed"}]
      /\ pc'[b] = IF LastCell(b) THEN "done" ELSE "apply"
  BY <1>2, <1>4, PutTypes, NextCellTypes
<1>6. Typed'
  <2>1. \A t \in Batches : pc'[t] = pc[t] \/ pc'[t] # "idle"
    BY <1>1, <1>5 DEF Others
  <2> QED BY <1>2, <1>5, <2>1, ThreadTypes DEF AmountInv, Typed, TypeOK
<1>7. Sound(b)'
  BY <1>2, <1>3, <1>5 DEF Sound
<1>8. SplashInv(b)'
  <2> SUFFICES ASSUME Len(req[b].cells) = 1 PROVE SplashInv(b)'
    BY <1>2 DEF SplashInv
  <2>1. i[b] = 1 /\ LastCell(b)
    BY <1>3 DEF LastCell
  <2>2. pc'[b] = "done" /\ req'[b].cells[1].at \notin Consolidated
    BY <1>2, <1>3, <1>5, <2>1 DEF Cell
  <2> QED BY <2>2 DEF SplashInv
<1> QED BY <1>1, <1>5, <1>6, <1>7, <1>8, OneThreadMoves

(* What a thread knows of the splash it is at.                             *)
LEMMA SplashIs ==
  ASSUME IInv, AmountInv, NEW b \in Batches, pc[b] \in {"splash", "sum"}
  PROVE  /\ i[b] \in 1..Len(req[b].cells) /\ Len(req[b].cells) \in Nat /\ req[b] \in Requests
         /\ Cell(b).at \in Consolidated /\ TotalAbs(Cell(b).at) # 0 /\ Cell(b).value \in Int
         /\ todo[b] \subseteq DOMAIN Weight(Cell(b).at) /\ DOMAIN Weight(Cell(b).at) \subseteq Leaves
         /\ \A c \in todo[b] : Share(b, c) = Part(Cell(b), c) /\ Share(b, c) \in Int
         /\ \A k \in 1..Len(req[b].cells) : Fit(req[b].cells[k])
<1>1. pc[b] \in Writing
  BY DEF Writing
<1>2. /\ i[b] \in 1..Len(req[b].cells) /\ Len(req[b].cells) \in Nat /\ req[b] \in Requests
  BY <1>1, IndexIs
<1>3. /\ Cell(b).at \in Consolidated /\ TotalAbs(Cell(b).at) # 0
      /\ todo[b] \subseteq Footprint(Cell(b).at)
      /\ \A k \in 1..Len(req[b].cells) : Fit(req[b].cells[k])
  BY <1>1 DEF AmountInv, Sound, IInv, BatchInv
<1>4. Cell(b).value \in Int
  BY <1>2, <1>3, RequestIs DEF Cell, Fit
<1>5. todo[b] \subseteq DOMAIN Weight(Cell(b).at)
  BY <1>3 DEF Footprint
<1>6. DOMAIN Weight(Cell(b).at) \subseteq Leaves
  BY <1>3, WeightIs
<1>7. ASSUME NEW c \in todo[b] PROVE Share(b, c) = Part(Cell(b), c) /\ Share(b, c) \in Int
  <2>1. Share(b, c) = Part(Cell(b), c)
    BY DEF Share, Part
  <2>2. Part(Cell(b), c) \in Int
    BY <1>3, <1>4, <1>5, PartIsInt
  <2> QED BY <2>1, <2>2
<1> QED BY <1>2, <1>3, <1>4, <1>5, <1>6, <1>7

(* One leaf of a splash, in either mode.                                   *)
LEMMA ShareAmount ==
  ASSUME IInv, IInv', AmountInv, NEW b \in Batches, pc[b] \in {"splash", "sum"},
         NEW c \in todo[b], NEW v \in Int, Put(b, c, v), AfterShare(b, c),
         UNCHANGED <<created, req, leaf, base, before>>,
         Alone(b) /\ Len(req[b].cells) = 1 => v = Amount(b, c)
  PROVE  AmountInv'
<1>1. Others(b) /\ (Alone(b)' <=> Alone(b))
  <2>1. Others(b)
    BY DEF IInv, Shape, Others, AfterShare, NextCell, Put
  <2> QED BY <2>1, StaysAlone
<1>2. /\ i[b] \in 1..Len(req[b].cells) /\ Len(req[b].cells) \in Nat /\ req[b] \in Requests
      /\ Cell(b).at \in Consolidated /\ TotalAbs(Cell(b).at) # 0 /\ Cell(b).value \in Int
      /\ todo[b] \subseteq DOMAIN Weight(Cell(b).at) /\ DOMAIN Weight(Cell(b).at) \subseteq Leaves
      /\ \A k \in 1..Len(req[b].cells) : Fit(req[b].cells[k])
  BY SplashIs
<1>3. c \in Cells /\ v \in Values
  BY <1>2 DEF Cells, Values
<1>4. /\ cells' \in [Cells -> Values] /\ wrote' \in [Batches -> SUBSET Cells]
      /\ cells'[c] = v /\ \A d \in Cells \ {c} : cells'[d] = cells[d]
  BY <1>3, PutTypes
<1>5. /\ todo' = [todo EXCEPT ![b] = todo[b] \ {c}] /\ todo'[b] = todo[b] \ {c}
  BY DEF AfterShare, IInv, Shape
<1>6. /\ pc' \in [Batches -> Steps] /\ result' \in [Batches -> {"none", "ok", "invalid", "failed"}]
      /\ pc'[b] = IF todo[b] # {c} THEN "splash" ELSE IF LastCell(b) THEN "done" ELSE "apply"
      /\ todo[b] # {c} => i'[b] = i[b] /\ result'[b] = "none"
  <2>1. CASE todo[b] = {c}
    <3>1. NextCell(b)
      BY <2>1 DEF AfterShare
    <3> QED BY <2>1, <3>1, NextCellTypes
  <2>2. CASE todo[b] # {c}
    <3>1. pc' = [pc EXCEPT ![b] = "splash"] /\ UNCHANGED <<i, result>>
      BY <2>2 DEF AfterShare
    <3>2. result[b] = "none"
      BY DEF IInv, BatchInv
    <3> QED BY <2>2, <3>1, <3>2 DEF AmountInv, Typed, TypeOK, Steps
  <2> QED BY <2>1, <2>2
<1>7. Typed'
  <2>1. \A t \in Batches : pc'[t] = pc[t] \/ pc'[t] # "idle"
    BY <1>1, <1>6 DEF Others
  <2>2. \A t \in Batches : todo'[t] \subseteq Leaves /\ leaf'[t] \in Leaves \cup {None}
    BY <1>5 DEF AmountInv, Typed, TypeOK, IInv, Shape
  <2> QED BY <1>4, <1>6, <2>1, <2>2, ThreadTypes DEF AmountInv, Typed, TypeOK
<1>8. Sound(b)'
  <2>1. todo[b] # {c} => Cell(b)' = Cell(b)
    BY <1>6 DEF Cell
  <2> QED BY <1>2, <1>6, <2>1 DEF Sound
<1>9. SplashInv(b)'
  <2> SUFFICES ASSUME Alone(b), Len(req[b].cells) = 1 PROVE SplashInv(b)'
    BY <1>1 DEF SplashInv
  <2>1. Cell(b) = req[b].cells[1] /\ LastCell(b)
    BY <1>2 DEF Cell, LastCell
  <2>2. PICK D : D = Footprint(req[b].cells[1].at)
    OBVIOUS
  <2>3. D = DOMAIN Weight(Cell(b).at) /\ D \subseteq Cells
    BY <1>2, <2>1, <2>2 DEF Footprint, Cells
  <2>4. \A d \in D : cells[d] = IF d \in todo[b] THEN before[b][d] ELSE Amount(b, d)
    BY <2>2 DEF AmountInv, SplashInv
  <2>5. v = Amount(b, c) /\ \A d \in D : Amount(b, d)' = Amount(b, d)
    BY DEF Amount
  <2>6. ASSUME NEW d \in D
        PROVE  cells'[d] = IF d \in todo'[b] THEN before'[b][d] ELSE Amount(b, d)'
    <3>1. CASE d = c
      BY <1>4, <1>5, <2>5, <3>1
    <3>2. CASE d # c
      BY <1>4, <1>5, <2>3, <2>4, <2>5, <3>2
    <3> QED BY <3>1, <3>2
  <2>7. CASE todo[b] = {c}
    <3>1. pc'[b] = "done" /\ todo'[b] = {}
      BY <1>5, <1>6, <2>1, <2>7
    <3>2. \A d \in D : cells'[d] = Amount(b, d)'
      BY <2>6, <3>1
    <3>3. req'[b].cells[1].value # Text /\ TotalAbs(req'[b].cells[1].at) # 0
      BY <1>2, <2>1, OthersAreNoNumbers
    <3> QED BY <2>2, <3>1, <3>2, <3>3 DEF SplashInv
  <2>8. CASE todo[b] # {c}
    <3>1. pc'[b] = "splash" /\ result'[b] # "ok"
      BY <1>6, <2>8
    <3> QED BY <2>2, <2>6, <3>1 DEF SplashInv
  <2> QED BY <2>7, <2>8
<1> QED BY <1>1, <1>6, <1>7, <1>8, <1>9, OneThreadMoves

LEMMA NumericIsInt ==
  ASSUME NEW v \in Values
  PROVE  Numeric(v) \in Int
BY DEF Values, Numeric

LEMMA ReadBaseAmount ==
  ASSUME IInv, IInv', AmountInv, NEW b \in Batches, NEW c, ReadBase(b, c)
  PROVE  AmountInv'
<1>1. Others(b) /\ (Alone(b)' <=> Alone(b))
  <2>1. Others(b)
    BY DEF IInv, Shape, Others, ReadBase
  <2> QED BY <2>1, StaysAlone
<1>2. /\ pc[b] = "splash" /\ c \in todo[b] /\ req[b].splash = "add"
      /\ leaf' = [leaf EXCEPT ![b] = c] /\ base' = [base EXCEPT ![b] = Numeric(cells[c])]
      /\ pc' = [pc EXCEPT ![b] = "sum"]
      /\ UNCHANGED <<cells, created, req, i, todo, result, before, wrote>>
  BY DEF ReadBase, Numeric
<1>3. /\ i[b] \in 1..Len(req[b].cells) /\ Len(req[b].cells) \in Nat
      /\ Cell(b).at \in Consolidated /\ TotalAbs(Cell(b).at) # 0
      /\ todo[b] \subseteq DOMAIN Weight(Cell(b).at) /\ DOMAIN Weight(Cell(b).at) \subseteq Leaves
      /\ \A k \in 1..Len(req[b].cells) : Fit(req[b].cells[k])
  BY <1>2, SplashIs
<1>4. Numeric(cells[c]) \in Int
  <2>1. c \in Cells
    BY <1>2, <1>3 DEF Cells
  <2>2. cells[c] \in Values
    BY <2>1 DEF AmountInv, Typed, TypeOK
  <2> QED BY <2>2, NumericIsInt
<1>5. /\ pc' \in [Batches -> Steps] /\ base' \in [Batches -> Int] /\ pc'[b] = "sum"
      /\ leaf'[b] = c /\ base'[b] = Numeric(cells[c])
      /\ \A t \in Batches : leaf'[t] \in Leaves \cup {None}
  BY <1>2, <1>3, <1>4 DEF AmountInv, Typed, TypeOK, Steps, IInv, Shape
<1>6. Typed'
  <2>1. \A t \in Batches : pc'[t] = pc[t] \/ pc'[t] # "idle"
    BY <1>1, <1>5 DEF Others
  <2> QED BY <1>2, <1>5, <2>1, ThreadTypes DEF AmountInv, Typed, TypeOK
<1>7. Sound(b)'
  <2>1. Cell(b)' = Cell(b)
    BY <1>2 DEF Cell
  <2> QED BY <1>2, <1>3, <1>5, <2>1 DEF Sound
<1>8. SplashInv(b)'
  <2> SUFFICES ASSUME Alone(b), Len(req[b].cells) = 1 PROVE SplashInv(b)'
    BY <1>1, <1>2 DEF SplashInv
  <2>1. Cell(b) = req[b].cells[1]
    BY <1>3 DEF Cell
  <2>2. PICK D : D = Footprint(req[b].cells[1].at)
    OBVIOUS
  <2>3. D = DOMAIN Weight(Cell(b).at) /\ c \in D
    BY <1>2, <1>3, <2>1, <2>2 DEF Footprint
  <2>4. \A d \in D : cells[d] = IF d \in todo[b] THEN before[b][d] ELSE Amount(b, d)
    BY <1>2, <2>2 DEF AmountInv, SplashInv
  <2>5. \A d \in D : Amount(b, d)' = Amount(b, d)
    BY <1>2 DEF Amount
  <2>6. base'[b] = Numeric(before'[b][leaf'[b]])
    BY <1>2, <1>5, <2>3, <2>4
  <2>7. result'[b] # "ok"
    BY <1>2 DEF IInv, BatchInv
  <2>8. \A d \in D : cells'[d] = IF d \in todo'[b] THEN before'[b][d] ELSE Amount(b, d)'
    BY <1>2, <2>4, <2>5
  <2> QED BY <1>2, <1>5, <2>2, <2>6, <2>7, <2>8 DEF SplashInv
<1> QED BY <1>1, <1>5, <1>6, <1>7, <1>8, OneThreadMoves

LEMMA PutShareAmount ==
  ASSUME IInv, IInv', AmountInv, NEW b \in Batches, NEW c, PutShare(b, c)
  PROVE  AmountInv'
<1>1. /\ pc[b] = "splash" /\ c \in todo[b] /\ req[b].splash # "add" /\ Put(b, c, Share(b, c))
      /\ AfterShare(b, c) /\ UNCHANGED <<created, req, leaf, base, before>>
  BY DEF PutShare
<1>2. Share(b, c) = Part(Cell(b), c) /\ Share(b, c) \in Int /\ i[b] \in 1..Len(req[b].cells)
  BY <1>1, SplashIs
<1>3. Len(req[b].cells) = 1 => Share(b, c) = Amount(b, c)
  BY <1>1, <1>2 DEF Amount, Cell
<1> QED BY <1>1, <1>2, <1>3, ShareAmount

LEMMA PutSumAmount ==
  ASSUME IInv, IInv', AmountInv, NEW b \in Batches, PutSum(b)
  PROVE  AmountInv'
<1>1. PICK c : c = leaf[b]
  OBVIOUS
<1>2. /\ pc[b] = "sum" /\ c \in todo[b] /\ req[b].splash = "add"
      /\ Put(b, c, base[b] + Share(b, c)) /\ AfterShare(b, c)
      /\ UNCHANGED <<created, req, leaf, base, before>>
  BY <1>1 DEF PutSum, IInv, BatchInv, AmountInv, Sound
<1>3. Share(b, c) = Part(Cell(b), c) /\ Share(b, c) \in Int /\ i[b] \in 1..Len(req[b].cells)
  BY <1>2, SplashIs
<1>4. base[b] \in Int
  BY DEF AmountInv, Typed, TypeOK
<1>5. Alone(b) /\ Len(req[b].cells) = 1 => base[b] + Share(b, c) = Amount(b, c)
  <2> SUFFICES ASSUME Alone(b), Len(req[b].cells) = 1 PROVE base[b] + Share(b, c) = Amount(b, c)
    OBVIOUS
  <2>1. Cell(b) = req[b].cells[1]
    BY <1>3 DEF Cell
  <2>2. base[b] = Numeric(before[b][c])
    BY <1>1, <1>2 DEF AmountInv, SplashInv
  <2> QED BY <1>2, <1>3, <1>4, <2>1, <2>2 DEF Amount
<1>6. base[b] + Share(b, c) \in Int
  BY <1>3, <1>4
<1> QED BY <1>2, <1>5, <1>6, ShareAmount

LEMMA StepAmount == IInv /\ AmountInv /\ [Next]_vars => AmountInv'
<1> SUFFICES ASSUME IInv, AmountInv, [Next]_vars PROVE AmountInv'
  OBVIOUS
<1>1. IInv'
  BY StepKeepsIInv
<1>2. CASE UNCHANGED vars
  <2>1. Typed'
    BY <1>2 DEF AmountInv, Typed, TypeOK, vars
  <2>2. ASSUME NEW b \in Batches PROVE Sound(b)' /\ SplashInv(b)'
    <3>1. Sound(b)'
      BY <1>2 DEF AmountInv, Sound, Cell, vars
    <3>2. SplashInv(b)'
      BY <1>2 DEF AmountInv, SplashInv, Alone, Amount, vars
    <3> QED BY <3>1, <3>2
  <2> QED BY <2>1, <2>2 DEF AmountInv
<1>3. ASSUME NEW b \in Batches, NEW r \in Requests, Submit(b, r) PROVE AmountInv'
  BY <1>1, <1>3, SubmitAmount
<1>4. ASSUME NEW b \in Batches, Thread(b) PROVE AmountInv'
  BY <1>1, <1>4, ValidateAmount, ApplyAmount, PutLeafAmount, PutShareAmount, ReadBaseAmount,
     PutSumAmount DEF Thread
<1> QED BY <1>2, <1>3, <1>4 DEF Next

LEMMA AmountsHold == Spec => [](IInv /\ AmountInv)
<1>1. Init => IInv /\ AmountInv
  BY InitIInv, InitAmount
<1>2. IInv /\ AmountInv /\ [Next]_vars => (IInv /\ AmountInv)'
  BY StepKeepsIInv, StepAmount
<1> QED BY <1>1, <1>2, PTL DEF Spec

(* Cells hold numbers, texts or nothing, a thread's index is of one of its *)
(* cells, and what a splash has left to write are leaves.                  *)
THEOREM TypeCorrect == Spec => []TypeOK
<1>1. AmountInv => TypeOK
  BY DEF AmountInv, Typed
<1> QED BY <1>1, AmountsHold, PTL

-------------------------------------------------------------------------------
(* What a splash adds up to.                                               *)

(* Weights count a leaf for, against or not at all.                        *)
UnitWeights == \A a \in Consolidated : \A c \in DOMAIN Weight(a) : Weight(a)[c] \in {-1, 0, 1}

LEMMA QuotientOfWhole ==
  ASSUME NEW v \in Int, NEW t \in Nat \ {0}, v % t = 0
  PROVE  v = (v \div t) * t
OBVIOUS

(* Not all weights of a coordinate whose total is not 0 are 0.             *)
LEMMA SomeWeight ==
  ASSUME NEW a \in Consolidated, TotalAbs(a) # 0
  PROVE  \E c \in DOMAIN Weight(a) : Weight(a)[c] # 0
<1> SUFFICES ASSUME \A c \in DOMAIN Weight(a) : Weight(a)[c] = 0 PROVE FALSE
  OBVIOUS
<1>1. PICK D, f : D = DOMAIN Weight(a) /\ f = [c \in D |-> Magnitude(Weight(a)[c])]
  OBVIOUS
<1>2. IsFiniteSet(D) /\ DOMAIN f = D /\ \A c \in D : f[c] = 0
  BY <1>1, WeightIs DEF Magnitude
<1>3. SumFunction(f) = TotalAbs(a)
  BY <1>1 DEF TotalAbs
<1> QED BY <1>2, <1>3, SumOfZeros

(* The part of a leaf, weighted, is the same multiple of its weight for    *)
(* every leaf, and that multiple of the total weight is the value.         *)
LEMMA PartsAreEven ==
  ASSUME UnitWeights, NEW r \in Requests, NEW k \in 1..Len(r.cells), NEW cell, cell = r.cells[k],
         cell.at \in Consolidated, cell.value # Text, TotalAbs(cell.at) # 0
  PROVE  \E q \in Int : /\ q * TotalAbs(cell.at) = cell.value
                        /\ \A c \in DOMAIN Weight(cell.at) :
                               Weight(cell.at)[c] * Part(cell, c) = q * Magnitude(Weight(cell.at)[c])
<1>1. PICK v, W, t : v = cell.value /\ W = Weight(cell.at) /\ t = TotalAbs(cell.at)
  OBVIOUS
<1>2. v \in Int /\ t \in Nat \ {0} /\ DOMAIN r.cells = 1..Len(r.cells)
  BY <1>1, RequestIs, WeightIs
<1>3. \A c \in DOMAIN W : W[c] \in {-1, 0, 1} /\ (v * Magnitude(W[c])) % t = 0
  BY <1>1, <1>2, SharesAreWhole DEF UnitWeights
<1>4. PICK d \in DOMAIN W : W[d] # 0
  BY <1>1, SomeWeight
<1>5. v % t = 0
  <2>1. Magnitude(W[d]) = 1
    BY <1>3, <1>4 DEF Magnitude
  <2>2. (v * 1) % t = 0
    BY <1>3, <2>1
  <2>3. v * 1 = v
    BY <1>2
  <2> QED BY <2>2, <2>3
<1>6. PICK q : q = v \div t
  OBVIOUS
<1>7. q \in Int /\ q * t = v
  BY <1>2, <1>5, <1>6, QuotientIsInt, QuotientOfWhole
<1>8. ASSUME NEW c \in DOMAIN W PROVE W[c] * Part(cell, c) = q * Magnitude(W[c])
  <2>1. PICK p : p = (v * Magnitude(W[c])) \div t
    OBVIOUS
  <2>2. Part(cell, c) = IF W[c] < 0 THEN -p ELSE p
    BY <1>1, <2>1 DEF Part
  <2>3. CASE W[c] = 0
    <3>1. Magnitude(W[c]) = 0 /\ v * 0 = 0
      BY <1>2, <2>3 DEF Magnitude
    <3>2. p \in Int
      BY <1>2, <2>1, <3>1, QuotientIsInt
    <3>3. Part(cell, c) = p
      BY <2>2, <2>3
    <3> QED BY <1>7, <2>3, <3>1, <3>2, <3>3
  <2>4. CASE W[c] # 0
    <3>1. Magnitude(W[c]) = 1 /\ v * 1 = v
      BY <1>2, <1>3, <2>4 DEF Magnitude
    <3>2. p = q
      BY <1>6, <2>1, <3>1
    <3>3. W[c] = 1 \/ W[c] = -1
      BY <1>3, <2>4
    <3> QED BY <1>7, <2>2, <3>1, <3>2, <3>3
  <2> QED BY <2>3, <2>4
<1> QED BY <1>1, <1>7, <1>8

(* cube.rs:448: a splash of one total reads back as asked, however its     *)
(* leaves were written one by one, when every weight is 1, -1 or 0.        *)
THEOREM SplashesReadBack == UnitWeights => (Spec => []SplashReadsBack)
<1> SUFFICES ASSUME UnitWeights PROVE Spec => []SplashReadsBack
  OBVIOUS
<1>1. ASSUME IInv, AmountInv PROVE SplashReadsBack
  <2> SUFFICES ASSUME NEW b \in Batches, result[b] = "ok", Alone(b), Len(req[b].cells) = 1,
                      req[b].cells[1].at \in Consolidated
               PROVE  ReadBack(cells, req[b].cells[1].at) = req[b].cells[1].value +
                          (IF req[b].splash = "add" THEN ReadBack(before[b], req[b].cells[1].at)
                           ELSE 0)
    BY DEF SplashReadsBack
  <2>1. PICK r, cell, a : r = req[b] /\ cell = r.cells[1] /\ a = cell.at
    OBVIOUS
  <2>2. r \in Requests /\ 1 \in 1..Len(r.cells) /\ a \in Consolidated
    <3>1. pc[b] # "idle"
      BY <1>1 DEF IInv, BatchInv
    <3> QED BY <1>1, <2>1, <3>1 DEF IInv, BatchInv
  <2>3. /\ cell.value # Text /\ TotalAbs(a) # 0
        /\ \A c \in DOMAIN Weight(a) : cells[c] = Amount(b, c)
    BY <1>1, <2>1, <2>2 DEF AmountInv, SplashInv, Footprint
  <2>4. cell.value \in Int
    BY <2>1, <2>2, <2>3, RequestIs
  <2>5. PICK q \in Int : /\ q * TotalAbs(a) = cell.value
                         /\ \A c \in DOMAIN Weight(a) :
                                Weight(a)[c] * Part(cell, c) = q * Magnitude(Weight(a)[c])
    BY <2>1, <2>2, <2>3, PartsAreEven
  <2>6. PICK old : old = [c \in DOMAIN Weight(a) |->
                              IF r.splash = "add" THEN Numeric(before[b][c]) ELSE 0]
    OBVIOUS
  <2>7. PICK D, f, g, h : /\ D = DOMAIN Weight(a)
                          /\ f = [c \in D |-> Magnitude(Weight(a)[c])]
                          /\ g = [c \in D |-> Weight(a)[c] * old[c]]
                          /\ h = [c \in D |-> Weight(a)[c] * Numeric(cells[c])]
    OBVIOUS
  <2>8. IsFiniteSet(D) /\ DOMAIN f = D /\ DOMAIN g = D /\ DOMAIN h = D
    BY <2>2, <2>7, WeightIs
  <2>9. ASSUME NEW c \in D
        PROVE  /\ f[c] \in Int /\ g[c] \in Int /\ h[c] \in Int /\ h[c] = g[c] + q * f[c]
    <3>1. PICK w, p, o : w = Weight(a)[c] /\ p = Part(cell, c) /\ o = old[c]
      OBVIOUS
    <3>2. w \in Int /\ f[c] \in Int /\ c \in Cells
      BY <2>2, <2>7, <3>1, WeightIs DEF Cells
    <3>3. o \in Int
      <4>1. before[b][c] \in Values
        BY <1>1, <3>2 DEF AmountInv, Typed
      <4> QED BY <2>6, <2>7, <3>1, <4>1, NumericIsInt
    <3>4. p \in Int
      BY <2>1, <2>2, <2>3, <2>4, <2>7, <3>1, PartIsInt
    <3>5. cells[c] = p + o
      BY <2>1, <2>3, <2>6, <2>7, <3>1 DEF Amount
    <3>6. Numeric(cells[c]) = p + o
      BY <3>3, <3>4, <3>5, OthersAreNoNumbers DEF Numeric
    <3>7. h[c] = w * (p + o) /\ g[c] = w * o /\ w * p = q * f[c]
      BY <2>5, <2>7, <3>1, <3>6
    <3>8. w * (p + o) = w * o + w * p /\ w * (p + o) \in Int /\ w * o \in Int
      BY <3>2, <3>3, <3>4
    <3> QED BY <3>2, <3>7, <3>8
  <2>10. SumFunction(h) = SumFunction(g) + q * SumFunction(f)
    BY <2>8, <2>9, SumIsLinear
  <2>11. SumFunction(f) = TotalAbs(a) /\ SumFunction(h) = ReadBack(cells, a)
    BY <2>7 DEF TotalAbs, ReadBack
  <2>12. CASE r.splash = "add"
    <3>1. g = [c \in D |-> Weight(a)[c] * Numeric(before[b][c])]
      BY <2>6, <2>7, <2>12
    <3>2. SumFunction(g) = ReadBack(before[b], a)
      BY <2>7, <3>1 DEF ReadBack
    <3>3. SumFunction(g) \in Int
      <4>1. PICK u : Sums(u, g)
        BY <2>8, <2>9, SumIs
      <4> QED BY <4>1 DEF Sums
    <3> QED BY <2>1, <2>4, <2>5, <2>10, <2>11, <2>12, <3>2, <3>3
  <2>13. CASE r.splash # "add"
    <3>1. \A c \in D : g[c] = 0
      BY <2>2, <2>6, <2>7, <2>13, WeightIs
    <3>2. SumFunction(g) = 0
      BY <2>8, <3>1, SumOfZeros
    <3> QED BY <2>1, <2>4, <2>5, <2>10, <2>11, <2>13, <3>2
  <2> QED BY <2>12, <2>13
<1> QED BY <1>1, AmountsHold, PTL
===============================================================================
