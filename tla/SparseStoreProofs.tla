-------------------------- MODULE SparseStoreProofs --------------------------
(***************************************************************************)
(* Proofs about the trie.  A place of the trie is a sequence of ids, and   *)
(* what is at a place is what a walk reaches: facts about both go by       *)
(* induction over the places (SetInduction, PlaceInduction), and about a   *)
(* deletion by induction from the member's axis upwards (KeptExists).      *)
(*                                                                         *)
(* TrieInv says what a heap of nodes must be to be a trie: every child is  *)
(* a node of the heap whose name has the child's place, and only nodes     *)
(* below the last axis have values.  A change adds nodes with new names    *)
(* (Fits, ReplaceKeepsTrie), so every walk from an old root stays what it  *)
(* was (SnapshotStays).  ReadInv says of each reader that the nodes it has *)
(* still to visit and the cells it has found leave out nothing it asked    *)
(* for.  The refinement of PointInTime follows from the two.               *)
(***************************************************************************)
EXTENDS SparseStore, SequenceTheorems, WellFoundedInduction, TLAPS

-------------------------------------------------------------------------------
(* Induction: over the numbers, and so over the places of the trie.        *)

LEMMA SetInduction ==
  ASSUME NEW S, 0 \in S, \A n \in Nat : n \in S => n + 1 \in S
  PROVE  Nat \subseteq S
<1> SUFFICES ASSUME Nat \ S # {} PROVE FALSE
  OBVIOUS
<1>1. IsWellFoundedOn({ss \in Nat \X Nat : ss[1] < ss[2]}, Nat)
  BY NatLessThanWellFounded DEF OpToRel
<1>2. PICK n \in Nat \ S : \A m \in Nat \ S : ~(<<m, n>> \in {ss \in Nat \X Nat : ss[1] < ss[2]})
  BY <1>1, WFMin
<1>3. n - 1 \in Nat /\ n - 1 < n
  BY <1>2
<1>4. n - 1 \in S
  BY <1>2, <1>3
<1> QED BY <1>3, <1>4

LEMMA PlaceShape ==
  ASSUME NEW p \in Places
  PROVE  p \in Seq(Ids) /\ Len(p) \in 0..Dims /\ p \in [1..Len(p) -> Ids]
<1>1. PICK k \in 0..Dims : p \in [1..k -> Ids]
  BY DEF Places
<1>2. k \in Nat
  BY <1>1, DimsIsPositive
<1>3. p \in Seq(Ids)
  BY <1>1, <1>2, SeqDef
<1>4. Len(p) = k
  BY <1>1, <1>2, <1>3, LenProperties
<1> QED BY <1>1, <1>3, <1>4

LEMMA ShortIsPlace ==
  ASSUME NEW p \in Seq(Ids), Len(p) <= Dims
  PROVE  p \in Places
<1>1. p \in [1..Len(p) -> Ids] /\ Len(p) \in 0..Dims
  BY LenProperties, DimsIsPositive
<1> QED BY <1>1 DEF Places

LEMMA PlaceAppend ==
  ASSUME NEW p \in Places, Len(p) < Dims, NEW i \in Ids
  PROVE  /\ Append(p, i) \in Places /\ Len(Append(p, i)) = Len(p) + 1
         /\ Append(p, i)[Len(p) + 1] = i
         /\ \A j \in 1..Len(p) : Append(p, i)[j] = p[j]
<1>1. p \in Seq(Ids) /\ Len(p) \in Nat
  BY PlaceShape
<1>2. /\ Append(p, i) \in Seq(Ids) /\ Len(Append(p, i)) = Len(p) + 1
      /\ Append(p, i)[Len(p) + 1] = i
      /\ \A j \in 1..Len(p) : Append(p, i)[j] = p[j]
  BY <1>1, AppendProperties
<1>3. Len(p) + 1 <= Dims
  BY <1>1, DimsIsPositive
<1>4. Append(p, i) \in Places
  BY <1>2, <1>3, ShortIsPlace
<1> QED BY <1>2, <1>4

LEMMA RootPlace == <<>> \in Places /\ Len(<<>>) = 0
<1>1. <<>> \in Seq(Ids) /\ Len(<<>>) = 0
  BY EmptySeq
<1>2. 0 <= Dims
  BY DimsIsPositive
<1> QED BY <1>1, <1>2, ShortIsPlace

LEMMA PlaceLast ==
  ASSUME NEW p \in Places, Len(p) > 0
  PROVE  \E q \in Places, i \in Ids : p = Append(q, i) /\ Len(q) = Len(p) - 1
<1>1. p \in Seq(Ids) /\ Len(p) \in 1..Dims /\ p # <<>>
  BY PlaceShape, RootPlace
<1>2. PICK q \in Seq(Ids), i \in Ids : p = Append(q, i) /\ Len(q) = Len(p) - 1
  <2>1. PICK q, i : q = SubSeq(p, 1, Len(p) - 1) /\ i = p[Len(p)]
    OBVIOUS
  <2>2. i \in Ids /\ q \in Seq(Ids) /\ Len(q) = Len(p) - 1
        /\ \A j \in 1..Len(p) - 1 : q[j] = p[j]
    <3>1. PICK n \in Nat : n = Len(p) - 1
      BY <1>1
    <3>2. n \in Int /\ 1 \in Int /\ (\A j \in 1..n : p[j] \in Ids) /\ p[Len(p)] \in Ids
      BY <1>1, <3>1, ElementOfSeq
    <3>3. /\ SubSeq(p, 1, n) \in Seq(Ids)
          /\ Len(SubSeq(p, 1, n)) = IF 1 <= n THEN n - 1 + 1 ELSE 0
          /\ \A j \in 1..n - 1 + 1 : SubSeq(p, 1, n)[j] = p[1 + j - 1]
      BY <3>2, SubSeqProperties
    <3>4. q = SubSeq(p, 1, n)
      BY <2>1, <3>1
    <3>5. Len(q) = n
      BY <3>1, <3>3, <3>4
    <3>6. \A j \in 1..n : q[j] = p[j]
      BY <3>1, <3>3, <3>4
    <3> QED BY <2>1, <3>1, <3>2, <3>3, <3>4, <3>5, <3>6
  <2>3. /\ Append(q, i) \in Seq(Ids) /\ Len(Append(q, i)) = Len(p)
        /\ \A j \in 1..Len(p) : Append(q, i)[j] = p[j]
    BY <1>1, <2>1, <2>2, AppendProperties
  <2>4. p = Append(q, i)
    BY <1>1, <2>3, SeqEqual
  <2> QED BY <2>2, <2>4
<1>3. q \in Places
  BY <1>1, <1>2, ShortIsPlace, DimsIsPositive
<1> QED BY <1>2, <1>3

(* What holds at the root and at a child of wherever it holds, holds at    *)
(* every place.                                                            *)
LEMMA PlaceInduction ==
  ASSUME NEW S, <<>> \in S,
         \A p \in Places \cap S : \A i \in Ids : Len(p) < Dims => Append(p, i) \in S
  PROVE  Places \subseteq S
<1>1. PICK T : T = {n \in Nat : \A p \in Places : Len(p) = n => p \in S}
  OBVIOUS
<1>2. 0 \in T
  <2>1. ASSUME NEW p \in Places, Len(p) = 0 PROVE p = <<>>
    BY <2>1, PlaceShape, EmptySeq
  <2> QED BY <1>1, <2>1
<1>3. ASSUME NEW n \in Nat, n \in T PROVE n + 1 \in T
  <2>1. ASSUME NEW p \in Places, Len(p) = n + 1 PROVE p \in S
    <3>1. PICK q \in Places, i \in Ids : p = Append(q, i) /\ Len(q) = n
      BY <1>3, <2>1, PlaceLast
    <3>2. Len(p) \in 0..Dims /\ Dims \in Nat
      BY PlaceShape, DimsIsPositive
    <3>3. Len(q) < Dims /\ q \in S
      BY <1>1, <1>3, <2>1, <3>1, <3>2
    <3> QED BY <3>1, <3>3
  <2> QED BY <1>1, <2>1
<1>4. Nat \subseteq T
  BY <1>2, <1>3, SetInduction
<1>5. ASSUME NEW p \in Places PROVE p \in S
  BY <1>1, <1>4, PlaceShape
<1> QED BY <1>5

(* A place is on the way to a longer one.                                  *)
OnWay(p, c) == \A j \in 1..Len(p) : p[j] = c[j]

LEMMA CoordsArePlaces ==
  /\ \A c \in Coords : c \in Places /\ Len(c) = Dims
  /\ \A p \in Places : Len(p) = Dims => p \in Coords
<1>1. ASSUME NEW c \in Coords PROVE c \in Places /\ Len(c) = Dims
  <2>1. c \in [1..Dims -> Ids] /\ Dims \in Nat
    BY DimsIsPositive DEF Coords, Axes
  <2>2. c \in Seq(Ids)
    BY <2>1, SeqDef
  <2>3. Len(c) = Dims
    BY <2>1, <2>2, LenProperties
  <2> QED BY <2>2, <2>3, ShortIsPlace, DimsIsPositive
<1>2. ASSUME NEW p \in Places, Len(p) = Dims PROVE p \in Coords
  BY <1>2, PlaceShape DEF Coords, Axes
<1> QED BY <1>1, <1>2

LEMMA Prefixes ==
  ASSUME NEW c \in Coords, NEW k \in 0..Dims
  PROVE  /\ SubSeq(c, 1, k) \in Places /\ Len(SubSeq(c, 1, k)) = k
         /\ OnWay(SubSeq(c, 1, k), c)
<1>1. c \in Seq(Ids) /\ Len(c) = Dims /\ k \in Nat /\ Dims \in Nat /\ k <= Dims
  BY CoordsArePlaces, PlaceShape, DimsIsPositive
<1>2. \A i \in 1..k : c[i] \in Ids
  BY <1>1, ElementOfSeq
<1>3. /\ SubSeq(c, 1, k) \in Seq(Ids) /\ Len(SubSeq(c, 1, k)) = k
      /\ \A i \in 1..k : SubSeq(c, 1, k)[i] = c[i]
  <2>1. 1 \in Int /\ k \in Int
    BY <1>1
  <2>2. /\ SubSeq(c, 1, k) \in Seq(Ids)
        /\ Len(SubSeq(c, 1, k)) = IF 1 <= k THEN k - 1 + 1 ELSE 0
        /\ \A i \in 1..k - 1 + 1 : SubSeq(c, 1, k)[i] = c[1 + i - 1]
    BY <1>2, <2>1, SubSeqProperties
  <2>3. Len(SubSeq(c, 1, k)) = k
    BY <1>1, <2>2
  <2>4. \A i \in 1..k : SubSeq(c, 1, k)[i] = c[i]
    BY <1>1, <2>2
  <2> QED BY <2>2, <2>3, <2>4
<1>4. SubSeq(c, 1, k) \in Places
  BY <1>1, <1>3, ShortIsPlace
<1> QED BY <1>3, <1>4 DEF OnWay

LEMMA OnWayIsPrefix ==
  ASSUME NEW c \in Coords, NEW p \in Places
  PROVE  /\ OnWay(p, c) <=> p = SubSeq(c, 1, Len(p))
         /\ OnWay(p, c) /\ Len(p) = Dims => p = c
<1>1. p \in Seq(Ids) /\ Len(p) \in 0..Dims /\ c \in Seq(Ids) /\ Len(c) = Dims
  BY PlaceShape, CoordsArePlaces
<1>2. /\ SubSeq(c, 1, Len(p)) \in Seq(Ids) /\ Len(SubSeq(c, 1, Len(p))) = Len(p)
      /\ OnWay(SubSeq(c, 1, Len(p)), c)
  BY <1>1, Prefixes, PlaceShape
<1>3. OnWay(p, c) => p = SubSeq(c, 1, Len(p))
  BY <1>1, <1>2, SeqEqual DEF OnWay
<1>4. OnWay(p, c) /\ Len(p) = Dims => p = c
  BY <1>1, SeqEqual DEF OnWay
<1> QED BY <1>2, <1>3, <1>4

LEMMA WayGoesOn ==
  ASSUME NEW c \in Coords, NEW p \in Places, Len(p) < Dims
  PROVE  /\ c[Len(p) + 1] \in Ids
         /\ \A i \in Ids : OnWay(Append(p, i), c) <=> OnWay(p, c) /\ i = c[Len(p) + 1]
<1>1. Len(p) \in Nat /\ Len(p) + 1 \in 1..Dims
  BY PlaceShape, DimsIsPositive
<1>2. c[Len(p) + 1] \in Ids
  BY <1>1 DEF Coords, Axes
<1>3. ASSUME NEW i \in Ids
      PROVE  OnWay(Append(p, i), c) <=> OnWay(p, c) /\ i = c[Len(p) + 1]
  BY <1>1, PlaceAppend DEF OnWay
<1> QED BY <1>2, <1>3

-------------------------------------------------------------------------------
(* Walks.                                                                  *)

IsWalk(w, h, n, place) ==
    w = [k \in 0..Len(place) |-> IF k = 0 THEN n ELSE Child(h, w[k - 1], place[k])]

LEMMA WalkExists ==
  ASSUME NEW h, NEW n, NEW place, Len(place) \in Nat
  PROVE  \E w : IsWalk(w, h, n, place)
<1> DEFINE Upto(m, w) ==
        w = [k \in 0..m |-> IF k = 0 THEN n ELSE Child(h, w[k - 1], place[k])]
<1>1. PICK T : T = {m \in Nat : \E w : Upto(m, w)}
  OBVIOUS
<1>2. 0 \in T
  <2>1. PICK w : w = [k \in 0..0 |-> n]
    OBVIOUS
  <2>2. Upto(0, w)
    BY <2>1
  <2> QED BY <1>1, <2>2
<1>3. ASSUME NEW m \in Nat, m \in T PROVE m + 1 \in T
  <2>1. PICK w : Upto(m, w)
    BY <1>1, <1>3
  <2>2. PICK x : x = [k \in 0..(m + 1) |-> IF k = m + 1 THEN Child(h, w[m], place[k]) ELSE w[k]]
    OBVIOUS
  <2>3. \A k \in 0..(m + 1) : x[k] = IF k = 0 THEN n ELSE Child(h, x[k - 1], place[k])
    BY <2>1, <2>2
  <2>4. Upto(m + 1, x)
    BY <2>2, <2>3
  <2> QED BY <1>1, <2>4
<1>4. Len(place) \in T
  BY <1>2, <1>3, SetInduction
<1> QED BY <1>1, <1>4 DEF IsWalk

LEMMA NodeInIs ==
  ASSUME NEW h, NEW n, NEW place, Len(place) \in Nat
  PROVE  \E w : IsWalk(w, h, n, place) /\ NodeIn(h, n, place) = w[Len(place)]
<1> DEFINE w == CHOOSE walk : walk =
        [k \in 0..Len(place) |-> IF k = 0 THEN n ELSE Child(h, walk[k - 1], place[k])]
<1>1. IsWalk(w, h, n, place)
  BY WalkExists DEF IsWalk
<1>2. NodeIn(h, n, place) = w[Len(place)]
  BY DEF NodeIn
<1> QED BY <1>1, <1>2

LEMMA NodeInRoot ==
  ASSUME NEW h, NEW n
  PROVE  NodeIn(h, n, <<>>) = n
<1>1. Len(<<>>) = 0
  BY EmptySeq
<1>2. PICK w : IsWalk(w, h, n, <<>>) /\ NodeIn(h, n, <<>>) = w[0]
  BY <1>1, NodeInIs
<1> QED BY <1>1, <1>2 DEF IsWalk

LEMMA NodeInStep ==
  ASSUME NEW h, NEW n, NEW p \in Places, Len(p) < Dims, NEW i \in Ids
  PROVE  NodeIn(h, n, Append(p, i)) = Child(h, NodeIn(h, n, p), i)
<1>1. PICK q \in Places, m \in Nat :
        /\ q = Append(p, i) /\ m = Len(p) /\ Len(q) = m + 1
        /\ q[m + 1] = i /\ \A j \in 1..m : q[j] = p[j]
  <2>1. Len(p) \in Nat
    BY PlaceShape
  <2>2. /\ Append(p, i) \in Places /\ Len(Append(p, i)) = Len(p) + 1
        /\ Append(p, i)[Len(p) + 1] = i
        /\ \A j \in 1..Len(p) : Append(p, i)[j] = p[j]
    BY PlaceAppend
  <2> QED BY <2>1, <2>2
<1>2. PICK w : IsWalk(w, h, n, q) /\ NodeIn(h, n, q) = w[m + 1]
  <2>1. Len(q) \in Nat
    BY <1>1
  <2>2. \E w : IsWalk(w, h, n, q) /\ NodeIn(h, n, q) = w[Len(q)]
    BY <2>1, NodeInIs
  <2> QED BY <1>1, <2>2
<1>3. PICK v : IsWalk(v, h, n, p) /\ NodeIn(h, n, p) = v[m]
  BY <1>1, NodeInIs
<1>4. PICK T : T = {k \in Nat : k <= m => w[k] = v[k]}
  OBVIOUS
<1>5. 0 \in T
  BY <1>1, <1>2, <1>3, <1>4 DEF IsWalk
<1>6. ASSUME NEW k \in Nat, k \in T, k + 1 <= m PROVE w[k + 1] = v[k + 1]
  <2>1. w[k + 1] = Child(h, w[k], q[k + 1]) /\ v[k + 1] = Child(h, v[k], p[k + 1])
    BY <1>1, <1>2, <1>3, <1>6 DEF IsWalk
  <2>2. w[k] = v[k] /\ q[k + 1] = p[k + 1]
    BY <1>1, <1>4, <1>6
  <2> QED BY <2>1, <2>2
<1>7. m \in T
  <2>1. \A k \in Nat : k \in T => k + 1 \in T
    BY <1>4, <1>6
  <2>2. Nat \subseteq T
    BY <1>5, <2>1, SetInduction
  <2> QED BY <2>2
<1>8. w[m + 1] = Child(h, w[m], q[m + 1])
  BY <1>1, <1>2 DEF IsWalk
<1> QED BY <1>1, <1>2, <1>3, <1>4, <1>7, <1>8

(* The links of a heap lead to nodes of it, at the next places.            *)
Linked(h) ==
    \A n \in DOMAIN h :
        /\ n # None
        /\ \A i \in DOMAIN h[n].children :
               /\ i \in Ids /\ Len(n[2]) < Dims
               /\ h[n].children[i] \in DOMAIN h
               /\ h[n].children[i][2] = Append(n[2], i)

LEMMA WalksReachPlaces ==
  ASSUME NEW h, Linked(h), NEW n \in DOMAIN h, n[2] = <<>>, NEW p \in Places
  PROVE  NodeIn(h, n, p) = None \/ (NodeIn(h, n, p) \in DOMAIN h /\ NodeIn(h, n, p)[2] = p)
<1>1. PICK S : S = {q \in Places : \/ NodeIn(h, n, q) = None
                                   \/ NodeIn(h, n, q) \in DOMAIN h /\ NodeIn(h, n, q)[2] = q}
  OBVIOUS
<1>2. <<>> \in S
  BY <1>1, NodeInRoot, RootPlace
<1>3. ASSUME NEW q \in Places, q \in S, NEW i \in Ids, Len(q) < Dims PROVE Append(q, i) \in S
  <2>1. NodeIn(h, n, Append(q, i)) = Child(h, NodeIn(h, n, q), i) /\ Append(q, i) \in Places
    BY <1>3, NodeInStep, PlaceAppend
  <2> QED BY <1>1, <1>3, <2>1 DEF Child, Linked
<1>4. Places \subseteq S
  BY <1>2, <1>3, PlaceInduction
<1> QED BY <1>1, <1>4

(* Nodes that come leave the walks from older nodes as they were.          *)
LEMMA WalksStay ==
  ASSUME NEW h, NEW g, Linked(h), \A m \in DOMAIN h : m \in DOMAIN g /\ g[m] = h[m],
         NEW n \in DOMAIN h, n[2] = <<>>, NEW p \in Places
  PROVE  NodeIn(g, n, p) = NodeIn(h, n, p)
<1>1. PICK S : S = {q \in Places : NodeIn(g, n, q) = NodeIn(h, n, q)}
  OBVIOUS
<1>2. <<>> \in S
  BY <1>1, NodeInRoot, RootPlace
<1>3. ASSUME NEW q \in Places, q \in S, NEW i \in Ids, Len(q) < Dims PROVE Append(q, i) \in S
  <2>1. /\ NodeIn(h, n, Append(q, i)) = Child(h, NodeIn(h, n, q), i) /\ Append(q, i) \in Places
        /\ NodeIn(g, n, Append(q, i)) = Child(g, NodeIn(g, n, q), i)
    BY <1>3, NodeInStep, PlaceAppend
  <2>2. NodeIn(h, n, q) = None \/ NodeIn(h, n, q) \in DOMAIN h
    BY WalksReachPlaces
  <2> QED BY <1>1, <1>3, <2>1, <2>2 DEF Child
<1>4. Places \subseteq S
  BY <1>2, <1>3, PlaceInduction
<1> QED BY <1>1, <1>4

(* A walk that gets to a cell passes a node at every place on the way.     *)
LEMMA WaysAreWalked ==
  ASSUME NEW h, NEW n, NEW c \in Coords, NodeIn(h, n, c) # None,
         NEW p \in Places, OnWay(p, c)
  PROVE  NodeIn(h, n, p) # None
<1>1. PICK T : T = {k \in Nat : \A q \in Places :
                       OnWay(q, c) /\ Len(q) + k = Dims => NodeIn(h, n, q) # None}
  OBVIOUS
<1>2. 0 \in T
  <2>1. ASSUME NEW q \in Places, OnWay(q, c), Len(q) + 0 = Dims PROVE q = c
    BY <2>1, OnWayIsPrefix, PlaceShape
  <2> QED BY <1>1, <2>1
<1>3. ASSUME NEW k \in Nat, k \in T PROVE k + 1 \in T
  <2>1. ASSUME NEW q \in Places, OnWay(q, c), Len(q) + (k + 1) = Dims
        PROVE  NodeIn(h, n, q) # None
    <3>1. Len(q) < Dims /\ Len(q) \in Nat
      BY <2>1, PlaceShape, DimsIsPositive
    <3>2. PICK i \in Ids : i = c[Len(q) + 1] /\ OnWay(Append(q, i), c)
      BY <2>1, <3>1, WayGoesOn
    <3>3. Append(q, i) \in Places /\ Len(Append(q, i)) + k = Dims
      BY <2>1, <3>1, PlaceAppend, DimsIsPositive
    <3>4. NodeIn(h, n, Append(q, i)) # None
      BY <1>1, <1>3, <3>2, <3>3
    <3> QED BY <3>1, <3>4, NodeInStep DEF Child
  <2> QED BY <1>1, <2>1
<1>4. Nat \subseteq T
  BY <1>2, <1>3, SetInduction
<1>5. Dims - Len(p) \in Nat /\ Len(p) + (Dims - Len(p)) = Dims
  BY PlaceShape, DimsIsPositive
<1> QED BY <1>1, <1>4, <1>5

-------------------------------------------------------------------------------
(* The trie and its nodes.                                                 *)

IsNode(node) ==
    /\ node = [children |-> node.children, value |-> node.value]
    /\ node.value \in Values \cup {None}

OnlyLeaf(node, p) == node.value # None => Len(p) = Dims

TrieInv ==
    /\ changes \in 0..MaxChanges
    /\ \A n \in DOMAIN heap :
           n \in Names /\ n[1] <= changes /\ IsNode(heap[n]) /\ OnlyLeaf(heap[n], n[2])
    /\ Linked(heap)
    /\ root \in DOMAIN heap /\ root[2] = <<>>

(* A change neither drops nor alters a node.                               *)
HeapGrows ==
    \A n \in DOMAIN heap : n \in DOMAIN heap' /\ heap'[n] = heap[n]

LEMMA CopiedIs ==
  ASSUME TrieInv, NEW p \in Places
  PROVE  /\ IsNode(Copied(p)) /\ OnlyLeaf(Copied(p), p)
         /\ \A i \in DOMAIN Copied(p).children :
                /\ i \in Ids /\ Len(p) < Dims
                /\ Copied(p).children[i] = NodeAt(root, Append(p, i))
                /\ NodeAt(root, Append(p, i)) \in DOMAIN heap
                /\ NodeAt(root, Append(p, i))[2] = Append(p, i)
                /\ NodeAt(root, Append(p, i)) # None
         /\ \A i \in Ids : Len(p) < Dims /\ i \notin DOMAIN Copied(p).children
                => NodeAt(root, Append(p, i)) = None
<1>1. \A i \in Ids : Len(p) < Dims =>
          NodeAt(root, Append(p, i)) = Child(heap, NodeAt(root, p), i)
  BY NodeInStep DEF NodeAt
<1>2. NodeAt(root, p) = None \/ (NodeAt(root, p) \in DOMAIN heap /\ NodeAt(root, p)[2] = p)
  BY WalksReachPlaces DEF NodeAt, TrieInv
<1>3. CASE NodeAt(root, p) = None
  <2>1. Copied(p) = EmptyNode /\ DOMAIN Copied(p).children = {}
    BY <1>3 DEF Copied, EmptyNode, NoCells
  <2>2. IsNode(Copied(p)) /\ OnlyLeaf(Copied(p), p)
    BY <2>1 DEF IsNode, EmptyNode, OnlyLeaf
  <2> QED BY <1>1, <1>3, <2>1, <2>2 DEF Child
<1>4. CASE NodeAt(root, p) # None
  <2>1. PICK n \in DOMAIN heap : n = NodeAt(root, p) /\ Copied(p) = heap[n] /\ n[2] = p
    BY <1>2, <1>4 DEF Copied
  <2>2. \A i \in DOMAIN heap[n].children :
            /\ i \in Ids /\ Len(p) < Dims
            /\ heap[n].children[i] \in DOMAIN heap /\ heap[n].children[i] # None
            /\ heap[n].children[i][2] = Append(p, i)
    BY <2>1 DEF TrieInv, Linked
  <2>3. IsNode(heap[n]) /\ OnlyLeaf(heap[n], p)
    BY <2>1 DEF TrieInv
  <2> QED BY <1>1, <1>4, <2>1, <2>2, <2>3 DEF Child
<1> QED BY <1>3, <1>4

(* What a change must make for the trie to stay one: nodes at places from  *)
(* the root on, linked to each other and to nodes there were.              *)
Fits(nodes, P) ==
    /\ P \subseteq Places /\ <<>> \in P
    /\ DOMAIN nodes = {Fresh(p) : p \in P}
    /\ \A p \in P :
           /\ IsNode(nodes[Fresh(p)]) /\ OnlyLeaf(nodes[Fresh(p)], p)
           /\ \A i \in DOMAIN nodes[Fresh(p)].children :
                  /\ i \in Ids /\ Len(p) < Dims
                  /\ \/ nodes[Fresh(p)].children[i] = Fresh(Append(p, i)) /\ Append(p, i) \in P
                     \/ /\ nodes[Fresh(p)].children[i] \in DOMAIN heap
                        /\ nodes[Fresh(p)].children[i][2] = Append(p, i)

LEMMA ReplaceKeepsTrie ==
  ASSUME TrieInv, NEW nodes, NEW P, Fits(nodes, P), Replace(nodes)
  PROVE  /\ TrieInv' /\ HeapGrows
         /\ root' = Fresh(<<>>)
         /\ \A p \in P : Fresh(p) \in DOMAIN heap' /\ heap'[Fresh(p)] = nodes[Fresh(p)]
         /\ \A n \in DOMAIN heap' \ DOMAIN heap : n[2] \in P
<1>1. /\ changes' = changes + 1 /\ changes \in Nat /\ changes' \in 0..MaxChanges
      /\ root' = Fresh(<<>>)
  BY BoundIsNat DEF TrieInv, Replace
<1>2. /\ DOMAIN heap' = DOMAIN heap \cup DOMAIN nodes
      /\ \A n \in DOMAIN heap' : heap'[n] = IF n \in DOMAIN nodes THEN nodes[n] ELSE heap[n]
  BY DEF Replace
<1>3. ASSUME NEW p \in P
      PROVE  /\ Fresh(p) \in DOMAIN nodes /\ Fresh(p) \in Names /\ Fresh(p)[1] = changes'
             /\ Fresh(p)[2] = p /\ Fresh(p) # None
  <2>1. p \in Places /\ Fresh(p) \in DOMAIN nodes
    BY DEF Fits
  <2>2. Fresh(p) = <<changes', p>>
    BY <1>1 DEF Fresh
  <2>3. Fresh(p) \in Names
    BY <1>1, <2>1, <2>2 DEF Names
  <2> QED BY <2>1, <2>2, <2>3, NoneIsNoName
<1>4. ASSUME NEW n \in DOMAIN heap
      PROVE  /\ n \notin DOMAIN nodes
             /\ n \in Names /\ n[1] \in Nat /\ n[1] <= changes
  <2>1. n \in Names /\ n[1] <= changes /\ n[1] \in Nat
    BY DEF TrieInv, Names
  <2>2. \A p \in P : n # Fresh(p)
    BY <1>1, <2>1 DEF Fresh
  <2> QED BY <2>1, <2>2 DEF Fits
<1>5. HeapGrows
  BY <1>2, <1>4 DEF HeapGrows
<1>6. \A p \in P : Fresh(p) \in DOMAIN heap' /\ heap'[Fresh(p)] = nodes[Fresh(p)]
  BY <1>2, <1>3
<1>7. \A n \in DOMAIN heap' : n \in DOMAIN heap \/ \E p \in P : n = Fresh(p)
  BY <1>2 DEF Fits
<1>8. ASSUME NEW n \in DOMAIN heap'
      PROVE  n \in Names /\ n[1] <= changes' /\ IsNode(heap'[n]) /\ OnlyLeaf(heap'[n], n[2])
  <2>1. CASE n \in DOMAIN heap
    BY <2>1, <1>1, <1>4, <1>5 DEF TrieInv, HeapGrows
  <2>2. ASSUME NEW p \in P, n = Fresh(p)
        PROVE  n \in Names /\ n[1] <= changes' /\ IsNode(heap'[n]) /\ OnlyLeaf(heap'[n], n[2])
    BY <2>2, <1>1, <1>3, <1>6 DEF Fits
  <2> QED BY <2>1, <2>2, <1>7
<1>9. Linked(heap')
  <2> SUFFICES ASSUME NEW n \in DOMAIN heap'
               PROVE  /\ n # None
                      /\ \A i \in DOMAIN heap'[n].children :
                             /\ i \in Ids /\ Len(n[2]) < Dims
                             /\ heap'[n].children[i] \in DOMAIN heap'
                             /\ heap'[n].children[i][2] = Append(n[2], i)
    BY DEF Linked
  <2>1. CASE n \in DOMAIN heap
    BY <2>1, <1>5 DEF TrieInv, HeapGrows, Linked
  <2>2. ASSUME NEW p \in P, n = Fresh(p), NEW i \in DOMAIN heap'[n].children
        PROVE  /\ i \in Ids /\ Len(n[2]) < Dims
               /\ heap'[n].children[i] \in DOMAIN heap'
               /\ heap'[n].children[i][2] = Append(n[2], i)
    <3>1. heap'[n] = nodes[Fresh(p)] /\ n[2] = p
      BY <2>2, <1>3, <1>6
    <3>2. i \in Ids /\ Len(p) < Dims
      BY <2>2, <3>1 DEF Fits
    <3>3. \/ heap'[n].children[i] = Fresh(Append(p, i)) /\ Append(p, i) \in P
          \/ /\ heap'[n].children[i] \in DOMAIN heap
             /\ heap'[n].children[i][2] = Append(p, i)
      BY <2>2, <3>1 DEF Fits
    <3>4. CASE heap'[n].children[i] = Fresh(Append(p, i)) /\ Append(p, i) \in P
      BY <3>1, <3>2, <3>4, <1>3, <1>6
    <3>5. CASE heap'[n].children[i] \in DOMAIN heap /\ heap'[n].children[i][2] = Append(p, i)
      BY <3>1, <3>2, <3>5, <1>5 DEF HeapGrows
    <3> QED BY <3>3, <3>4, <3>5
  <2>3. ASSUME NEW p \in P, n = Fresh(p) PROVE n # None
    BY <2>3, <1>3
  <2> QED BY <2>1, <2>2, <2>3, <1>7
<1>10. root' \in DOMAIN heap' /\ root'[2] = <<>>
  BY <1>1, <1>3, <1>6 DEF Fits
<1>11. TrieInv'
  BY <1>1, <1>8, <1>9, <1>10 DEF TrieInv
<1>12. ASSUME NEW n \in DOMAIN heap' \ DOMAIN heap PROVE n[2] \in P
  BY <1>12, <1>3, <1>7
<1> QED BY <1>1, <1>5, <1>6, <1>11, <1>12

-------------------------------------------------------------------------------
(* Writes.                                                                 *)

WayTo(c) == {p \in Places : OnWay(p, c)}

LEMMA WritePathIs ==
  ASSUME NEW c \in Coords, NEW v \in Values
  PROVE  /\ DOMAIN WritePath(c, v) = {Fresh(p) : p \in WayTo(c)}
         /\ \A p \in WayTo(c) : WritePath(c, v)[Fresh(p)] = Written(c, v, p)
<1>1. ASSUME NEW p \in WayTo(c) PROVE \E k \in 0..Dims : p = SubSeq(c, 1, k)
  BY OnWayIsPrefix, PlaceShape DEF WayTo
<1>2. ASSUME NEW k \in 0..Dims PROVE SubSeq(c, 1, k) \in WayTo(c)
  BY Prefixes DEF WayTo
<1>3. {Fresh(SubSeq(c, 1, k)) : k \in 0..Dims} = {Fresh(p) : p \in WayTo(c)}
  BY <1>1, <1>2
<1>4. DOMAIN WritePath(c, v) = {Fresh(SubSeq(c, 1, k)) : k \in 0..Dims}
  BY DEF WritePath
<1>5. \A n \in {Fresh(SubSeq(c, 1, k)) : k \in 0..Dims} :
          WritePath(c, v)[n] = Written(c, v, n[2])
  BY DEF WritePath
<1>6. ASSUME NEW p \in WayTo(c) PROVE Fresh(p)[2] = p
  BY DEF Fresh
<1> QED BY <1>3, <1>4, <1>5, <1>6

LEMMA WriteFits ==
  ASSUME TrieInv, NEW c \in Coords, NEW v \in Values
  PROVE  /\ Fits(WritePath(c, v), WayTo(c))
         /\ WritePath(c, v)[Fresh(c)].value = v
         /\ \A p \in WayTo(c) : p # c =>
                /\ Len(p) < Dims /\ c[Len(p) + 1] \in Ids
                /\ WritePath(c, v)[Fresh(p)].value = Copied(p).value
                /\ DOMAIN WritePath(c, v)[Fresh(p)].children =
                       DOMAIN Copied(p).children \cup {c[Len(p) + 1]}
                /\ \A i \in DOMAIN WritePath(c, v)[Fresh(p)].children :
                       WritePath(c, v)[Fresh(p)].children[i] =
                           IF i = c[Len(p) + 1] THEN Fresh(Append(p, i))
                           ELSE Copied(p).children[i]
<1>1. c \in WayTo(c) /\ <<>> \in WayTo(c) /\ WayTo(c) \subseteq Places
  BY CoordsArePlaces, RootPlace DEF WayTo, OnWay
<1>2. ASSUME NEW p \in WayTo(c), p # c
      PROVE  /\ Len(p) < Dims /\ c[Len(p) + 1] \in Ids
             /\ Append(p, c[Len(p) + 1]) \in WayTo(c)
  <2>1. p \in Places /\ OnWay(p, c) /\ Len(p) \in 0..Dims /\ Dims \in Nat
    BY <1>2, PlaceShape, DimsIsPositive DEF WayTo
  <2>2. Len(p) # Dims
    BY <1>2, <2>1, OnWayIsPrefix
  <2>3. Len(p) < Dims
    BY <2>1, <2>2
  <2> QED BY <2>1, <2>3, WayGoesOn, PlaceAppend DEF WayTo
<1>3. ASSUME NEW p \in WayTo(c)
      PROVE  /\ IsNode(Copied(p)) /\ OnlyLeaf(Copied(p), p)
             /\ \A i \in DOMAIN Copied(p).children :
                    /\ i \in Ids /\ Len(p) < Dims
                    /\ Copied(p).children[i] \in DOMAIN heap
                    /\ Copied(p).children[i][2] = Append(p, i)
  BY <1>1, CopiedIs
<1>4. /\ WritePath(c, v)[Fresh(c)] = [Copied(c) EXCEPT !.value = v]
      /\ WritePath(c, v)[Fresh(c)].value = v
      /\ WritePath(c, v)[Fresh(c)].children = Copied(c).children
      /\ IsNode(WritePath(c, v)[Fresh(c)])
  <2>1. WritePath(c, v)[Fresh(c)] = [Copied(c) EXCEPT !.value = v]
    BY <1>1, WritePathIs DEF Written
  <2> QED BY <1>1, <1>3, <2>1 DEF IsNode
<1>5. ASSUME NEW p \in WayTo(c), p # c
      PROVE  /\ IsNode(WritePath(c, v)[Fresh(p)])
             /\ WritePath(c, v)[Fresh(p)].value = Copied(p).value
             /\ DOMAIN WritePath(c, v)[Fresh(p)].children =
                    DOMAIN Copied(p).children \cup {c[Len(p) + 1]}
             /\ \A i \in DOMAIN WritePath(c, v)[Fresh(p)].children :
                    WritePath(c, v)[Fresh(p)].children[i] =
                        IF i = c[Len(p) + 1] THEN Fresh(Append(p, i))
                        ELSE Copied(p).children[i]
  <2>1. PICK links : links = [i \in DOMAIN Copied(p).children \cup {c[Len(p) + 1]} |->
                                 IF i = c[Len(p) + 1] THEN Fresh(Append(p, i))
                                 ELSE Copied(p).children[i]]
    OBVIOUS
  <2>2. WritePath(c, v)[Fresh(p)] = [Copied(p) EXCEPT !.children = links]
    <3>1. Written(c, v, p) = [Copied(p) EXCEPT !.children =
              [i \in DOMAIN Copied(p).children \cup {c[Len(p) + 1]} |->
                  IF i = c[Len(p) + 1] THEN Fresh(Append(p, i)) ELSE Copied(p).children[i]]]
      BY <1>5 DEF Written
    <3>2. Written(c, v, p) = [Copied(p) EXCEPT !.children = links]
      BY <2>1, <3>1
    <3> QED BY <3>2, WritePathIs
  <2>3. /\ WritePath(c, v)[Fresh(p)].children = links
        /\ WritePath(c, v)[Fresh(p)].value = Copied(p).value
        /\ IsNode(WritePath(c, v)[Fresh(p)])
    BY <1>3, <2>2 DEF IsNode
  <2> QED BY <2>1, <2>3
<1>6. ASSUME NEW p \in WayTo(c), NEW i \in DOMAIN WritePath(c, v)[Fresh(p)].children
      PROVE  /\ i \in Ids /\ Len(p) < Dims
             /\ \/ /\ WritePath(c, v)[Fresh(p)].children[i] = Fresh(Append(p, i))
                   /\ Append(p, i) \in WayTo(c)
                \/ /\ WritePath(c, v)[Fresh(p)].children[i] \in DOMAIN heap
                   /\ WritePath(c, v)[Fresh(p)].children[i][2] = Append(p, i)
  <2>1. CASE p = c
    BY <2>1, <1>3, <1>4, <1>6
  <2>2. CASE p # c
    BY <2>2, <1>2, <1>3, <1>5, <1>6
  <2> QED BY <2>1, <2>2
<1>7. \A p \in WayTo(c) : OnlyLeaf(WritePath(c, v)[Fresh(p)], p)
  BY <1>3, <1>5, CoordsArePlaces DEF OnlyLeaf
<1>8. Fits(WritePath(c, v), WayTo(c))
  BY <1>1, <1>4, <1>5, <1>6, <1>7, WritePathIs DEF Fits
<1> QED BY <1>2, <1>4, <1>5, <1>8

(* After a write the trie has new nodes on the way to the cell and, where  *)
(* the way is not, the nodes it had.                                       *)
LEMMA WrittenTrie ==
  ASSUME TrieInv, NEW c \in Coords, NEW v \in Values, Write(c, v)
  PROVE  /\ TrieInv' /\ HeapGrows
         /\ \A p \in Places : NodeIn(heap', root', p) =
                IF OnWay(p, c) THEN Fresh(p) ELSE NodeIn(heap, root, p)
         /\ \A p \in WayTo(c) : heap'[Fresh(p)] = WritePath(c, v)[Fresh(p)]
         /\ \A n \in DOMAIN heap' \ DOMAIN heap : n[2] \in WayTo(c)
<1>1. /\ TrieInv' /\ HeapGrows /\ root' = Fresh(<<>>)
      /\ \A p \in WayTo(c) : /\ Fresh(p) \in DOMAIN heap'
                             /\ heap'[Fresh(p)] = WritePath(c, v)[Fresh(p)]
      /\ \A n \in DOMAIN heap' \ DOMAIN heap : n[2] \in WayTo(c)
  BY WriteFits, ReplaceKeepsTrie DEF Write
<1>2. PICK S : S = {p \in Places : NodeIn(heap', root', p) =
                        IF OnWay(p, c) THEN Fresh(p) ELSE NodeIn(heap, root, p)}
  OBVIOUS
<1>3. <<>> \in S
  BY <1>1, <1>2, NodeInRoot, RootPlace DEF OnWay
<1>4. ASSUME NEW p \in Places, p \in S, NEW i \in Ids, Len(p) < Dims PROVE Append(p, i) \in S
  <2>1. /\ Append(p, i) \in Places
        /\ NodeIn(heap', root', Append(p, i)) = Child(heap', NodeIn(heap', root', p), i)
        /\ NodeIn(heap, root, Append(p, i)) = Child(heap, NodeIn(heap, root, p), i)
    BY <1>4, PlaceAppend, NodeInStep
  <2>2. OnWay(Append(p, i), c) <=> OnWay(p, c) /\ i = c[Len(p) + 1]
    BY <1>4, WayGoesOn
  <2>3. CASE OnWay(p, c)
    <3>1. p \in WayTo(c) /\ p # c /\ NodeIn(heap', root', p) = Fresh(p)
      BY <1>2, <1>4, <2>3, CoordsArePlaces DEF WayTo
    <3>2. Fresh(p) # None
      BY <1>1, <3>1 DEF TrieInv, Linked
    <3>3. /\ DOMAIN heap'[Fresh(p)].children = DOMAIN Copied(p).children \cup {c[Len(p) + 1]}
          /\ \A j \in DOMAIN heap'[Fresh(p)].children :
                 heap'[Fresh(p)].children[j] =
                     IF j = c[Len(p) + 1] THEN Fresh(Append(p, j)) ELSE Copied(p).children[j]
      BY <1>1, <3>1, WriteFits
    <3>4. CASE i = c[Len(p) + 1]
      BY <1>2, <2>1, <2>2, <2>3, <3>1, <3>2, <3>3, <3>4 DEF Child
    <3>5. CASE i # c[Len(p) + 1]
      <4>1. NodeIn(heap', root', Append(p, i)) =
                IF i \in DOMAIN Copied(p).children THEN Copied(p).children[i] ELSE None
        BY <2>1, <3>1, <3>2, <3>3, <3>5 DEF Child
      <4>2. NodeIn(heap', root', Append(p, i)) = NodeAt(root, Append(p, i))
        BY <1>4, <4>1, CopiedIs
      <4> QED BY <1>2, <2>1, <2>2, <3>5, <4>2 DEF NodeAt
    <3> QED BY <3>4, <3>5
  <2>4. CASE ~OnWay(p, c)
    <3>1. NodeIn(heap', root', p) = NodeIn(heap, root, p)
      BY <1>2, <1>4, <2>4
    <3>2. NodeIn(heap, root, p) = None \/ NodeIn(heap, root, p) \in DOMAIN heap
      BY WalksReachPlaces DEF TrieInv
    <3>3. NodeIn(heap', root', Append(p, i)) = NodeIn(heap, root, Append(p, i))
      BY <1>1, <2>1, <3>1, <3>2 DEF Child, HeapGrows
    <3> QED BY <1>2, <2>1, <2>2, <2>4, <3>3
  <2> QED BY <2>3, <2>4
<1>5. Places \subseteq S
  BY <1>3, <1>4, PlaceInduction
<1> QED BY <1>1, <1>2, <1>5

-------------------------------------------------------------------------------
(* Deletions.                                                              *)

KeptAt(kept, axis, id, p) ==
    {i \in DOMAIN Copied(p).children :
        IF Len(p) = axis - 1
        THEN i # id /\ ~IsEmpty(Below(p, i))
        ELSE Below(p, i).value # None \/ kept[Append(p, i)] # {}}

(* What is kept at a place is found from what is kept below it.            *)
LEMMA KeptExists ==
  ASSUME TrieInv, NEW axis \in Axes, NEW id
  PROVE  \E kept : kept = [p \in Above(axis) |-> KeptAt(kept, axis, id, p)]
<1> DEFINE Lower(m) == {p \in Above(axis) : Len(p) + m >= axis}
           Upto(m, kept) == kept = [p \in Lower(m) |-> KeptAt(kept, axis, id, p)]
<1>0. axis \in Nat /\ axis >= 1 /\ axis <= Dims /\ Dims \in Nat
  BY DimsIsPositive DEF Axes
<1>1. PICK T : T = {m \in Nat : \E kept : Upto(m, kept)}
  OBVIOUS
<1>2. 0 \in T
  <2>1. \A p \in Above(axis) : ~(Len(p) + 0 >= axis)
    BY <1>0, PlaceShape DEF Above
  <2>2. Lower(0) = {}
    BY <2>1
  <2>3. PICK kept : kept = [p \in {} |-> {}]
    OBVIOUS
  <2>4. Upto(0, kept)
    BY <2>2, <2>3
  <2> QED BY <1>1, <2>4
<1>3. ASSUME NEW m \in Nat, m \in T PROVE m + 1 \in T
  <2>1. PICK kept : Upto(m, kept)
    BY <1>1, <1>3
  <2>2. PICK more : more = [p \in Lower(m + 1) |-> KeptAt(kept, axis, id, p)]
    OBVIOUS
  <2>3. ASSUME NEW p \in Lower(m + 1), NEW i \in DOMAIN Copied(p).children, Len(p) # axis - 1
        PROVE  more[Append(p, i)] = kept[Append(p, i)]
    <3>1. p \in Places /\ Len(p) < axis /\ Len(p) \in Nat /\ Len(p) + (m + 1) >= axis
      BY <2>3, PlaceShape DEF Above
    <3>2. i \in Ids /\ Len(p) < Dims /\ NodeAt(root, Append(p, i)) # None
      BY <2>3, <3>1, CopiedIs
    <3>3. Append(p, i) \in Places /\ Len(Append(p, i)) = Len(p) + 1
      BY <3>1, <3>2, PlaceAppend
    <3>4. Append(p, i) \in Above(axis)
      BY <1>0, <2>3, <3>1, <3>2, <3>3 DEF Above
    <3>5. Append(p, i) \in Lower(m) /\ Append(p, i) \in Lower(m + 1)
      BY <1>0, <3>1, <3>3, <3>4
    <3> QED BY <2>1, <2>2, <3>5
  <2>4. ASSUME NEW p \in Lower(m + 1)
        PROVE  KeptAt(more, axis, id, p) = KeptAt(kept, axis, id, p)
    BY <2>3, <2>4 DEF KeptAt
  <2>5. Upto(m + 1, more)
    BY <2>2, <2>4
  <2> HIDE DEF Upto
  <2> QED BY <1>1, <2>5
<1>4. Nat \subseteq T
  BY <1>2, <1>3, SetInduction
<1>5. PICK kept : Upto(axis, kept)
  BY <1>0, <1>1, <1>4
<1>6. Lower(axis) = Above(axis)
  BY <1>0, PlaceShape DEF Above
<1> QED BY <1>5, <1>6

LEMMA KeptIs ==
  ASSUME TrieInv, NEW axis \in Axes, NEW id
  PROVE  \A p \in Above(axis) : Kept(axis, id)[p] = KeptAt(Kept(axis, id), axis, id, p)
<1>1. Kept(axis, id) = CHOOSE kept : kept = [p \in Above(axis) |-> KeptAt(kept, axis, id, p)]
  BY DEF Kept, KeptAt
<1>2. Kept(axis, id) = [p \in Above(axis) |-> KeptAt(Kept(axis, id), axis, id, p)]
  BY <1>1, KeptExists
<1> QED BY <1>2

LEMMA PrunePathIs ==
  ASSUME NEW axis, NEW id
  PROVE  DOMAIN PrunePath(axis, id) = {Fresh(p) : p \in Above(axis)}
BY DEF PrunePath

LEMMA PrunedNodeIs ==
  ASSUME TrieInv, NEW axis \in Axes, NEW id, NEW p \in Above(axis)
  PROVE  /\ IsNode(PrunePath(axis, id)[Fresh(p)])
         /\ PrunePath(axis, id)[Fresh(p)].value = Copied(p).value
         /\ DOMAIN PrunePath(axis, id)[Fresh(p)].children = Kept(axis, id)[p]
         /\ \A i \in Kept(axis, id)[p] :
                PrunePath(axis, id)[Fresh(p)].children[i] =
                    IF Len(p) = axis - 1 THEN Copied(p).children[i] ELSE Fresh(Append(p, i))
<1>1. PICK kept : kept = Kept(axis, id)
  OBVIOUS
<1>2. PrunePath(axis, id) = [n \in {Fresh(q) : q \in Above(axis)} |-> Pruned(kept, axis, n[2])]
  BY <1>1 DEF PrunePath
<1>3. PrunePath(axis, id)[Fresh(p)] = Pruned(kept, axis, p)
  BY <1>2 DEF Fresh
<1>4. PICK links : links = [i \in kept[p] |-> IF Len(p) = axis - 1 THEN Copied(p).children[i]
                                              ELSE Fresh(Append(p, i))]
  OBVIOUS
<1>5. Pruned(kept, axis, p) = [Copied(p) EXCEPT !.children = links]
  BY <1>4 DEF Pruned
<1>6. IsNode(Copied(p))
  BY CopiedIs DEF Above
<1>7. /\ PrunePath(axis, id)[Fresh(p)].children = links
      /\ PrunePath(axis, id)[Fresh(p)].value = Copied(p).value
      /\ IsNode(PrunePath(axis, id)[Fresh(p)])
  BY <1>3, <1>5, <1>6 DEF IsNode
<1> QED BY <1>1, <1>4, <1>7

LEMMA PruneFits ==
  ASSUME TrieInv, NEW axis \in Axes, NEW id
  PROVE  Fits(PrunePath(axis, id), Above(axis))
<1>1. axis \in Nat /\ axis >= 1 /\ axis <= Dims /\ Dims \in Nat
  BY DimsIsPositive DEF Axes
<1>2. NodeAt(root, <<>>) # None
  BY NodeInRoot DEF NodeAt, TrieInv, Linked
<1>3. <<>> \in Above(axis) /\ Above(axis) \subseteq Places
  BY <1>1, <1>2, RootPlace DEF Above
<1>4. ASSUME NEW p \in Above(axis)
      PROVE  /\ IsNode(PrunePath(axis, id)[Fresh(p)])
             /\ OnlyLeaf(PrunePath(axis, id)[Fresh(p)], p)
             /\ DOMAIN PrunePath(axis, id)[Fresh(p)].children = Kept(axis, id)[p]
  <2>1. OnlyLeaf(Copied(p), p)
    BY CopiedIs DEF Above
  <2> QED BY <2>1, PrunedNodeIs DEF OnlyLeaf
<1>5. ASSUME NEW p \in Above(axis), NEW i \in Kept(axis, id)[p]
      PROVE  /\ i \in Ids /\ Len(p) < Dims
             /\ \/ /\ PrunePath(axis, id)[Fresh(p)].children[i] = Fresh(Append(p, i))
                   /\ Append(p, i) \in Above(axis)
                \/ /\ PrunePath(axis, id)[Fresh(p)].children[i] \in DOMAIN heap
                   /\ PrunePath(axis, id)[Fresh(p)].children[i][2] = Append(p, i)
  <2>1. p \in Places /\ Len(p) < axis /\ Len(p) \in Nat
    BY PlaceShape DEF Above
  <2>2. i \in DOMAIN Copied(p).children
    BY <1>5, KeptIs DEF KeptAt
  <2>3. /\ i \in Ids /\ Len(p) < Dims
        /\ Copied(p).children[i] = NodeAt(root, Append(p, i))
        /\ NodeAt(root, Append(p, i)) \in DOMAIN heap
        /\ NodeAt(root, Append(p, i))[2] = Append(p, i)
        /\ NodeAt(root, Append(p, i)) # None
    BY <2>1, <2>2, CopiedIs
  <2>4. PrunePath(axis, id)[Fresh(p)].children[i] =
            IF Len(p) = axis - 1 THEN Copied(p).children[i] ELSE Fresh(Append(p, i))
    BY <1>5, PrunedNodeIs
  <2>5. CASE Len(p) = axis - 1
    BY <2>3, <2>4, <2>5
  <2>6. CASE Len(p) # axis - 1
    <3>1. Append(p, i) \in Places /\ Len(Append(p, i)) = Len(p) + 1
      BY <2>1, <2>3, PlaceAppend
    <3>2. Append(p, i) \in Above(axis)
      BY <1>1, <2>1, <2>3, <2>6, <3>1 DEF Above
    <3> QED BY <2>3, <2>4, <2>6, <3>2
  <2> QED BY <2>5, <2>6
<1> QED BY <1>3, <1>4, <1>5, PrunePathIs DEF Fits

(* After a deletion a place above the member's axis has a new node, if any *)
(* at all, and one from there on its old node, unless it is the member's.  *)
LEMMA PrunedTrie ==
  ASSUME TrieInv, NEW axis \in Axes, NEW id, RemoveCellsWithIdAt(axis, id)
  PROVE  /\ TrieInv' /\ HeapGrows
         /\ root' = Fresh(<<>>)
         /\ \A p \in Above(axis) : heap'[Fresh(p)] = PrunePath(axis, id)[Fresh(p)]
         /\ \A n \in DOMAIN heap' \ DOMAIN heap : n[2] \in Above(axis)
         /\ \A p \in Places : NodeIn(heap', root', p) # None =>
                IF Len(p) < axis
                THEN /\ p \in Above(axis) /\ NodeIn(heap', root', p) = Fresh(p)
                     /\ p # <<>> => Kept(axis, id)[p] # {}
                ELSE NodeIn(heap', root', p) = NodeIn(heap, root, p) /\ p[axis] # id
<1>0. axis \in Nat /\ axis >= 1 /\ axis <= Dims /\ Dims \in Nat
  BY DimsIsPositive DEF Axes
<1>1. /\ TrieInv' /\ HeapGrows /\ root' = Fresh(<<>>)
      /\ \A p \in Above(axis) : /\ Fresh(p) \in DOMAIN heap'
                                /\ heap'[Fresh(p)] = PrunePath(axis, id)[Fresh(p)]
      /\ \A n \in DOMAIN heap' \ DOMAIN heap : n[2] \in Above(axis)
  BY PruneFits, ReplaceKeepsTrie DEF RemoveCellsWithIdAt
<1> DEFINE Good(p) ==
        NodeIn(heap', root', p) # None =>
            IF Len(p) < axis
            THEN /\ p \in Above(axis) /\ NodeIn(heap', root', p) = Fresh(p)
                 /\ p # <<>> => Kept(axis, id)[p] # {}
            ELSE NodeIn(heap', root', p) = NodeIn(heap, root, p) /\ p[axis] # id
<1>2. PICK S : S = {p \in Places : Good(p)}
  OBVIOUS
<1>3. <<>> \in S
  <2>1. <<>> \in Above(axis)
    BY PruneFits DEF Fits
  <2> QED BY <1>0, <1>1, <1>2, <2>1, NodeInRoot, RootPlace
<1>4. ASSUME NEW p \in Places, p \in S, NEW i \in Ids, Len(p) < Dims PROVE Append(p, i) \in S
  <2>1. PICK q \in Places : q = Append(p, i) /\ Len(q) = Len(p) + 1 /\ q[Len(p) + 1] = i
                            /\ \A j \in 1..Len(p) : q[j] = p[j]
    BY <1>4, PlaceAppend
  <2>2. NodeIn(heap', root', q) = Child(heap', NodeIn(heap', root', p), i)
        /\ NodeIn(heap, root, q) = Child(heap, NodeIn(heap, root, p), i)
    BY <1>4, <2>1, NodeInStep
  <2>3. Len(p) \in Nat /\ q # <<>>
    BY <2>1, PlaceShape, RootPlace
  <2> SUFFICES ASSUME NodeIn(heap', root', q) # None PROVE Good(q)
    BY <1>2, <2>1
  <2>4. NodeIn(heap', root', p) # None /\ Good(p)
    BY <1>2, <1>4, <2>2 DEF Child
  <2>5. CASE Len(p) < axis
    <3>1. p \in Above(axis) /\ NodeIn(heap', root', p) = Fresh(p)
      BY <2>4, <2>5
    <3>2. /\ DOMAIN heap'[Fresh(p)].children = Kept(axis, id)[p]
          /\ \A j \in Kept(axis, id)[p] :
                 heap'[Fresh(p)].children[j] =
                     IF Len(p) = axis - 1 THEN Copied(p).children[j] ELSE Fresh(Append(p, j))
      <4>1. heap'[Fresh(p)] = PrunePath(axis, id)[Fresh(p)]
        BY <1>1, <3>1
      <4> QED BY <3>1, <4>1, PrunedNodeIs
    <3>3. i \in Kept(axis, id)[p] /\ NodeIn(heap', root', q) = heap'[Fresh(p)].children[i]
      BY <2>2, <2>4, <3>1, <3>2 DEF Child
    <3>4. /\ i \in DOMAIN Copied(p).children
          /\ IF Len(p) = axis - 1 THEN i # id
             ELSE Below(p, i).value # None \/ Kept(axis, id)[q] # {}
      BY <2>1, <3>1, <3>3, KeptIs DEF KeptAt
    <3>5. /\ Copied(p).children[i] = NodeAt(root, q)
          /\ NodeAt(root, q) \in DOMAIN heap /\ NodeAt(root, q)[2] = q
          /\ NodeAt(root, q) # None
      BY <2>1, <3>4, CopiedIs
    <3>6. CASE Len(p) = axis - 1
      <4>1. NodeIn(heap', root', q) = NodeIn(heap, root, q)
        BY <3>2, <3>3, <3>5, <3>6 DEF NodeAt
      <4>2. q[axis] # id /\ ~(Len(q) < axis)
        BY <1>0, <2>1, <2>3, <3>4, <3>6
      <4> QED BY <4>1, <4>2
    <3>7. CASE Len(p) # axis - 1
      <4>1. Len(q) < axis /\ q \in Above(axis)
        BY <1>0, <2>1, <2>3, <2>5, <3>5, <3>7 DEF Above
      <4>2. NodeIn(heap', root', q) = Fresh(q)
        BY <2>1, <3>2, <3>3, <3>7
      <4>3. Below(p, i).value = None
        BY <1>0, <2>1, <3>5, <4>1 DEF Below, TrieInv, OnlyLeaf
      <4> QED BY <3>4, <3>7, <4>1, <4>2, <4>3
    <3> QED BY <3>6, <3>7
  <2>6. CASE ~(Len(p) < axis)
    <3>1. NodeIn(heap', root', p) = NodeIn(heap, root, p) /\ p[axis] # id
      BY <2>4, <2>6
    <3>2. NodeIn(heap, root, p) \in DOMAIN heap
      BY <2>4, <3>1, WalksReachPlaces DEF TrieInv
    <3>3. NodeIn(heap', root', q) = NodeIn(heap, root, q)
      BY <1>1, <2>2, <3>1, <3>2 DEF Child, HeapGrows
    <3>4. q[axis] = p[axis] /\ ~(Len(q) < axis)
      BY <1>0, <2>1, <2>3, <2>6
    <3> QED BY <3>1, <3>3, <3>4
  <2> QED BY <2>5, <2>6
<1>5. Places \subseteq S
  BY <1>3, <1>4, PlaceInduction
<1> QED BY <1>1, <1>2, <1>5

(* The cells of other members, and the ways to them, survive a deletion.   *)
LEMMA SurvivorsKept ==
  ASSUME TrieInv, NEW axis \in Axes, NEW id, NEW c \in Coords, c[axis] # id,
         QueryExact(heap, root, c) # None,
         NEW p \in Above(axis), OnWay(p, c)
  PROVE  c[Len(p) + 1] \in Kept(axis, id)[p]
<1>0. axis \in Nat /\ axis >= 1 /\ axis <= Dims /\ Dims \in Nat
  BY DimsIsPositive DEF Axes
<1>1. NodeIn(heap, root, c) # None /\ heap[NodeIn(heap, root, c)].value # None
  BY DEF QueryExact, NodeAt
<1>2. ASSUME NEW q \in Places, OnWay(q, c), Len(q) < Dims
      PROVE  c[Len(q) + 1] \in DOMAIN Copied(q).children
  <2>1. PICK i \in Ids : i = c[Len(q) + 1] /\ OnWay(Append(q, i), c)
    BY <1>2, WayGoesOn
  <2>2. Append(q, i) \in Places
    BY <1>2, PlaceAppend
  <2>3. NodeAt(root, Append(q, i)) # None
    BY <1>1, <2>1, <2>2, WaysAreWalked DEF NodeAt
  <2> QED BY <1>2, <2>1, <2>3, CopiedIs
<1>3. PICK T : T = {m \in Nat : \A q \in Above(axis) :
                       OnWay(q, c) /\ Len(q) + m = axis - 1 => c[Len(q) + 1] \in Kept(axis, id)[q]}
  OBVIOUS
<1>4. ASSUME NEW q \in Above(axis), OnWay(q, c)
      PROVE  /\ q \in Places /\ Len(q) < axis /\ Len(q) \in Nat
             /\ \E i \in Ids : /\ i = c[Len(q) + 1] /\ OnWay(Append(q, i), c)
                               /\ i \in DOMAIN Copied(q).children
                               /\ Append(q, i) \in Places /\ Len(Append(q, i)) = Len(q) + 1
                               /\ NodeAt(root, Append(q, i)) # None
  <2>1. q \in Places /\ Len(q) < axis /\ Len(q) \in Nat /\ Len(q) < Dims
    BY <1>0, PlaceShape DEF Above
  <2>2. PICK i \in Ids : i = c[Len(q) + 1] /\ OnWay(Append(q, i), c)
    BY <1>4, <2>1, WayGoesOn
  <2>3. i \in DOMAIN Copied(q).children
    BY <1>2, <1>4, <2>1, <2>2
  <2>4. Append(q, i) \in Places /\ Len(Append(q, i)) = Len(q) + 1
    BY <2>1, PlaceAppend
  <2>5. NodeAt(root, Append(q, i)) # None
    BY <2>1, <2>3, CopiedIs
  <2> QED BY <2>1, <2>2, <2>3, <2>4, <2>5
<1>5. 0 \in T
  <2>1. ASSUME NEW q \in Above(axis), OnWay(q, c), Len(q) + 0 = axis - 1
        PROVE  c[Len(q) + 1] \in Kept(axis, id)[q]
    <3>1. PICK i \in Ids : /\ i = c[Len(q) + 1] /\ OnWay(Append(q, i), c)
                           /\ i \in DOMAIN Copied(q).children
                           /\ Append(q, i) \in Places /\ Len(Append(q, i)) = Len(q) + 1
                           /\ NodeAt(root, Append(q, i)) # None
      BY <1>4, <2>1
    <3>2. Len(q) \in Nat /\ i # id
      BY <1>0, <1>4, <2>1, <3>1
    <3>3. ~IsEmpty(Below(q, i))
      <4>1. CASE Len(Append(q, i)) = Dims
        <5>1. Append(q, i) = c
          BY <3>1, <4>1, OnWayIsPrefix
        <5> QED BY <1>1, <5>1 DEF Below, IsEmpty, NodeAt
      <4>2. CASE Len(Append(q, i)) < Dims
        <5>1. c[Len(Append(q, i)) + 1] \in DOMAIN Copied(Append(q, i)).children
          BY <1>2, <3>1, <4>2
        <5>2. Copied(Append(q, i)) = Below(q, i)
          BY <3>1 DEF Copied, Below
        <5> QED BY <5>1, <5>2 DEF IsEmpty
      <4> QED BY <1>0, <2>1, <3>1, <3>2, <4>1, <4>2
    <3>4. i \in KeptAt(Kept(axis, id), axis, id, q)
      BY <2>1, <3>1, <3>2, <3>3 DEF KeptAt
    <3> QED BY <3>1, <3>4, KeptIs
  <2> QED BY <1>3, <2>1
<1>6. ASSUME NEW m \in Nat, m \in T PROVE m + 1 \in T
  <2>1. ASSUME NEW q \in Above(axis), OnWay(q, c), Len(q) + (m + 1) = axis - 1
        PROVE  c[Len(q) + 1] \in Kept(axis, id)[q]
    <3>1. PICK i \in Ids : /\ i = c[Len(q) + 1] /\ OnWay(Append(q, i), c)
                           /\ i \in DOMAIN Copied(q).children
                           /\ Append(q, i) \in Places /\ Len(Append(q, i)) = Len(q) + 1
                           /\ NodeAt(root, Append(q, i)) # None
      BY <1>4, <2>1
    <3>2. Len(q) \in Nat /\ Len(q) # axis - 1 /\ Len(Append(q, i)) + m = axis - 1
          /\ Len(Append(q, i)) < axis
      BY <1>0, <1>4, <2>1, <3>1
    <3>3. Append(q, i) \in Above(axis)
      BY <3>1, <3>2 DEF Above
    <3>4. Kept(axis, id)[Append(q, i)] # {}
      BY <1>3, <1>6, <3>1, <3>2, <3>3
    <3>5. i \in KeptAt(Kept(axis, id), axis, id, q)
      BY <3>1, <3>2, <3>4 DEF KeptAt
    <3> QED BY <3>1, <3>5, KeptIs
  <2> QED BY <1>3, <2>1
<1>7. Nat \subseteq T
  BY <1>5, <1>6, SetInduction
<1>8. PICK m \in Nat : Len(p) + m = axis - 1
  <2>1. PICK k \in Nat : k = Len(p) /\ k < axis
    BY PlaceShape DEF Above
  <2>2. (axis - 1) - k \in Nat /\ k + ((axis - 1) - k) = axis - 1
    BY <1>0, <2>1
  <2> QED BY <2>1, <2>2
<1> QED BY <1>3, <1>7, <1>8

-------------------------------------------------------------------------------
(* The trie in every state.                                                *)

LEMMA InitTrie == Init => TrieInv
<1> SUFFICES ASSUME Init PROVE TrieInv
  OBVIOUS
<1>1. PICK n : n = <<0, <<>>>> /\ root = n /\ DOMAIN heap = {n} /\ heap[n] = EmptyNode
  BY DEF Init
<1>2. changes \in 0..MaxChanges /\ changes = 0
  BY BoundIsNat DEF Init
<1>3. n \in Names /\ n[1] = 0 /\ n[2] = <<>>
  BY <1>1, BoundIsNat, RootPlace DEF Names
<1>4. IsNode(EmptyNode) /\ OnlyLeaf(EmptyNode, <<>>) /\ DOMAIN EmptyNode.children = {}
  BY DEF IsNode, OnlyLeaf, EmptyNode, NoCells
<1>5. Linked(heap)
  BY <1>1, <1>3, <1>4, NoneIsNoName DEF Linked
<1> QED BY <1>1, <1>2, <1>3, <1>4, <1>5 DEF TrieInv

LEMMA NextTrie ==
  ASSUME TrieInv, [Next]_vars
  PROVE  TrieInv' /\ HeapGrows
<1>1. ASSUME UNCHANGED trieVars PROVE TrieInv' /\ HeapGrows
  BY <1>1 DEF trieVars, TrieInv, Linked, HeapGrows
<1>2. ASSUME NEW c \in Coords, NEW v \in Values, Write(c, v)
      PROVE  TrieInv' /\ HeapGrows
  BY <1>2, WrittenTrie
<1>3. ASSUME NEW d \in Axes, NEW i \in Ids, RemoveCellsWithIdAt(d, i)
      PROVE  TrieInv' /\ HeapGrows
  BY <1>3, PrunedTrie
<1>4. ASSUME NEW r \in Readers, NEW f \in Filters, ScanSubcube(r, f)
      PROVE  TrieInv' /\ HeapGrows
  BY <1>1, <1>4 DEF ScanSubcube
<1>5. ASSUME NEW r \in Readers, ScanRecursive(r)
      PROVE  TrieInv' /\ HeapGrows
  BY <1>1, <1>5 DEF ScanRecursive
<1>6. CASE UNCHANGED vars
  BY <1>1, <1>6 DEF vars, trieVars
<1> QED BY <1>2, <1>3, <1>4, <1>5, <1>6 DEF Next

LEMMA TrieHolds == Spec => []TrieInv
<1>1. TrieInv /\ [Next]_vars => TrieInv'
  BY NextTrie
<1> QED BY <1>1, InitTrie, PTL DEF Spec

(* No step ever drops or alters a node of the trie: whatever a snapshot's  *)
(* root leads to when it is taken, it leads to for as long as it is read   *)
(* (sparse_store.rs, write_path and prune_path).                           *)
THEOREM NodesNeverChange == Spec => [][HeapGrows]_vars
<1>1. TrieInv /\ [Next]_vars => HeapGrows
  BY NextTrie
<1> QED BY <1>1, TrieHolds, PTL DEF Spec

(* Every node but the root leads to something.                             *)
Alive ==
    \A p \in Places : p # <<>> /\ NodeIn(heap, root, p) # None
        => ~IsEmpty(heap[NodeIn(heap, root, p)])

LEMMA WriteKeepsAlive ==
  ASSUME TrieInv, Alive, NEW c \in Coords, NEW v \in Values, Write(c, v)
  PROVE  Alive'
<1> SUFFICES ASSUME NEW p \in Places, p # <<>>, NodeIn(heap', root', p) # None
             PROVE  ~IsEmpty(heap'[NodeIn(heap', root', p)])
  BY DEF Alive
<1>1. NodeIn(heap', root', p) = IF OnWay(p, c) THEN Fresh(p) ELSE NodeIn(heap, root, p)
  BY WrittenTrie
<1>2. CASE OnWay(p, c)
  <2>1. p \in WayTo(c)
    BY <1>2 DEF WayTo
  <2>2. heap'[Fresh(p)] = WritePath(c, v)[Fresh(p)]
    BY <2>1, WrittenTrie
  <2>3. CASE p = c
    BY <1>1, <1>2, <2>2, <2>3, WriteFits, NoneIsNoValue DEF IsEmpty
  <2>4. CASE p # c
    <3>1. c[Len(p) + 1] \in DOMAIN WritePath(c, v)[Fresh(p)].children
      BY <2>1, <2>4, WriteFits
    <3> QED BY <1>1, <1>2, <2>2, <3>1 DEF IsEmpty
  <2> QED BY <2>3, <2>4
<1>3. CASE ~OnWay(p, c)
  <2>1. NodeIn(heap', root', p) = NodeIn(heap, root, p)
    BY <1>1, <1>3
  <2>2. NodeIn(heap, root, p) \in DOMAIN heap
    BY <2>1, WalksReachPlaces DEF TrieInv
  <2>3. heap'[NodeIn(heap, root, p)] = heap[NodeIn(heap, root, p)]
    BY <2>2, WrittenTrie DEF HeapGrows
  <2> QED BY <2>1, <2>3 DEF Alive
<1> QED BY <1>2, <1>3

LEMMA PruneKeepsAlive ==
  ASSUME TrieInv, Alive, NEW axis \in Axes, NEW id, RemoveCellsWithIdAt(axis, id)
  PROVE  Alive'
<1> SUFFICES ASSUME NEW p \in Places, p # <<>>, NodeIn(heap', root', p) # None
             PROVE  ~IsEmpty(heap'[NodeIn(heap', root', p)])
  BY DEF Alive
<1>1. IF Len(p) < axis
      THEN p \in Above(axis) /\ NodeIn(heap', root', p) = Fresh(p) /\ Kept(axis, id)[p] # {}
      ELSE NodeIn(heap', root', p) = NodeIn(heap, root, p)
  BY PrunedTrie
<1>2. CASE Len(p) < axis
  <2>1. heap'[Fresh(p)] = PrunePath(axis, id)[Fresh(p)]
    BY <1>1, <1>2, PrunedTrie
  <2>2. DOMAIN PrunePath(axis, id)[Fresh(p)].children # {}
    BY <1>1, <1>2, PrunedNodeIs
  <2> QED BY <1>1, <1>2, <2>1, <2>2 DEF IsEmpty
<1>3. CASE ~(Len(p) < axis)
  <2>1. NodeIn(heap', root', p) = NodeIn(heap, root, p)
    BY <1>1, <1>3
  <2>2. NodeIn(heap, root, p) \in DOMAIN heap
    BY <2>1, WalksReachPlaces DEF TrieInv
  <2>3. heap'[NodeIn(heap, root, p)] = heap[NodeIn(heap, root, p)]
    BY <2>2, PrunedTrie DEF HeapGrows
  <2> QED BY <2>1, <2>3 DEF Alive
<1> QED BY <1>2, <1>3

LEMMA NextAlive ==
  ASSUME TrieInv, Alive, [Next]_vars
  PROVE  Alive'
<1>1. ASSUME UNCHANGED trieVars PROVE Alive'
  BY <1>1 DEF trieVars, Alive
<1>2. ASSUME NEW c \in Coords, NEW v \in Values, Write(c, v) PROVE Alive'
  BY <1>2, WriteKeepsAlive
<1>3. ASSUME NEW d \in Axes, NEW i \in Ids, RemoveCellsWithIdAt(d, i) PROVE Alive'
  BY <1>3, PruneKeepsAlive
<1>4. ASSUME NEW r \in Readers, NEW f \in Filters, ScanSubcube(r, f) PROVE Alive'
  BY <1>1, <1>4 DEF ScanSubcube
<1>5. ASSUME NEW r \in Readers, ScanRecursive(r) PROVE Alive'
  BY <1>1, <1>5 DEF ScanRecursive
<1>6. CASE UNCHANGED vars
  BY <1>1, <1>6 DEF vars, trieVars
<1> QED BY <1>2, <1>3, <1>4, <1>5, <1>6 DEF Next

(* However writes and deletions alternate, no branch of the live trie is   *)
(* left without a cell, and only nodes below the last axis have values     *)
(* (prune_path drops what a deletion leaves empty, up to the root).        *)
THEOREM BranchesLive == Spec => []NoDeadBranches
<1>1. Init => Alive
  <2> SUFFICES ASSUME Init, NEW p \in Places, p # <<>>, NodeIn(heap, root, p) # None
               PROVE  FALSE
    BY DEF Alive
  <2>1. TrieInv
    BY InitTrie
  <2>2. NodeIn(heap, root, p) \in DOMAIN heap /\ NodeIn(heap, root, p)[2] = p
    BY <2>1, WalksReachPlaces DEF TrieInv
  <2> QED BY <2>2 DEF Init
<1>2. TrieInv /\ Alive /\ [Next]_vars => Alive'
  BY NextAlive
<1>3. TrieInv /\ Alive => NoDeadBranches
  <2> SUFFICES ASSUME TrieInv, Alive, NEW p \in Places, NodeIn(heap, root, p) # None
               PROVE  /\ heap[NodeIn(heap, root, p)].value # None => Len(p) = Dims
                      /\ IsEmpty(heap[NodeIn(heap, root, p)]) => NodeIn(heap, root, p) = root
    BY DEF NoDeadBranches, NodeAt
  <2>1. NodeIn(heap, root, p) \in DOMAIN heap /\ NodeIn(heap, root, p)[2] = p
    BY WalksReachPlaces DEF TrieInv
  <2>2. heap[NodeIn(heap, root, p)].value # None => Len(p) = Dims
    BY <2>1 DEF TrieInv, OnlyLeaf
  <2>3. IsEmpty(heap[NodeIn(heap, root, p)]) => p = <<>>
    BY DEF Alive
  <2> QED BY <2>2, <2>3, NodeInRoot
<1> QED BY <1>1, <1>2, <1>3, TrieHolds, PTL DEF Spec

(* A write makes new nodes on the way to its cell and nowhere else: the    *)
(* rest of the new trie is made of the old one's own nodes (write_path     *)
(* clones the Arcs of all other children).                                 *)
THEOREM WritesShare == Spec => WritesShareTheRest
<1> DEFINE Share == \A c \in Coords : <<changes', c>> \in DOMAIN heap' \ DOMAIN heap =>
                        \A place \in Places : place # SubSeq(c, 1, Len(place)) =>
                            NodeAt(root, place)' = NodeAt(root, place)
<1>1. TrieInv /\ [Next]_vars => Share
  <2> SUFFICES ASSUME TrieInv, [Next]_vars, NEW c \in Coords,
                      <<changes', c>> \in DOMAIN heap' \ DOMAIN heap,
                      NEW p \in Places, p # SubSeq(c, 1, Len(p))
               PROVE  NodeIn(heap', root', p) = NodeIn(heap, root, p)
    BY DEF NodeAt
  <2>1. ASSUME NEW x \in Coords, NEW v \in Values, Write(x, v)
        PROVE  NodeIn(heap', root', p) = NodeIn(heap, root, p)
    <3>1. <<changes', c>>[2] \in WayTo(x)
      BY <2>1, WrittenTrie
    <3>2. c \in WayTo(x)
      BY <3>1
    <3>3. c = x
      BY <3>2, OnWayIsPrefix, CoordsArePlaces DEF WayTo
    <3>4. ~OnWay(p, x)
      BY <3>3, OnWayIsPrefix
    <3> QED BY <2>1, <3>4, WrittenTrie
  <2>2. ASSUME NEW d \in Axes, NEW i \in Ids, RemoveCellsWithIdAt(d, i) PROVE FALSE
    <3>1. <<changes', c>>[2] \in Above(d)
      BY <2>2, PrunedTrie
    <3>2. Len(c) < d
      BY <3>1 DEF Above
    <3> QED BY <3>2, CoordsArePlaces, DimsIsPositive DEF Axes
  <2>3. ASSUME NEW r \in Readers, NEW f \in Filters, ScanSubcube(r, f) PROVE FALSE
    BY <2>3 DEF ScanSubcube, trieVars
  <2>4. ASSUME NEW r \in Readers, ScanRecursive(r) PROVE FALSE
    BY <2>4 DEF ScanRecursive, trieVars
  <2>5. CASE UNCHANGED vars
    BY <2>5 DEF vars
  <2> QED BY <2>1, <2>2, <2>3, <2>4, <2>5 DEF Next
<1>2. Spec => [][Share]_vars
  <2> HIDE DEF Share
  <2> QED BY <1>1, TrieHolds, PTL DEF Spec
<1> QED BY <1>2 DEF WritesShareTheRest

-------------------------------------------------------------------------------
(* The trie as a map.                                                      *)

LEMMA CellsInIs ==
  ASSUME NEW h, NEW n
  PROVE  /\ DOMAIN CellsIn(h, n) = {c \in Coords : QueryExact(h, n, c) # None}
         /\ \A c \in DOMAIN CellsIn(h, n) : CellsIn(h, n)[c] = QueryExact(h, n, c)
         /\ CellsIn(h, n) = [c \in DOMAIN CellsIn(h, n) |-> CellsIn(h, n)[c]]
<1>1. PICK value : value = [c \in Coords |-> QueryExact(h, n, c)]
  OBVIOUS
<1>2. CellsIn(h, n) = [c \in {c \in Coords : value[c] # None} |-> value[c]]
  BY <1>1 DEF CellsIn
<1>3. \A c \in Coords : value[c] = QueryExact(h, n, c)
  BY <1>1
<1> QED BY <1>2, <1>3

LEMMA CellsInEquals ==
  ASSUME NEW h, NEW n, NEW f, f = [c \in DOMAIN f |-> f[c]], DOMAIN f \subseteq Coords,
         \A c \in Coords : QueryExact(h, n, c) # None <=> c \in DOMAIN f,
         \A c \in DOMAIN f : QueryExact(h, n, c) = f[c]
  PROVE  CellsIn(h, n) = f
<1>1. PICK m : m = CellsIn(h, n)
  OBVIOUS
<1>2. /\ DOMAIN m = {c \in Coords : QueryExact(h, n, c) # None}
      /\ \A c \in DOMAIN m : m[c] = QueryExact(h, n, c)
      /\ m = [c \in DOMAIN m |-> m[c]]
  <2>1. /\ DOMAIN CellsIn(h, n) = {c \in Coords : QueryExact(h, n, c) # None}
        /\ \A c \in DOMAIN CellsIn(h, n) : CellsIn(h, n)[c] = QueryExact(h, n, c)
        /\ CellsIn(h, n) = [c \in DOMAIN CellsIn(h, n) |-> CellsIn(h, n)[c]]
    BY CellsInIs
  <2> QED BY <1>1, <2>1
<1>3. DOMAIN m = DOMAIN f
  BY <1>2
<1> QED BY <1>1, <1>2, <1>3

LEMMA ValuesAreTyped ==
  ASSUME TrieInv, NEW n \in DOMAIN heap, n[2] = <<>>, NEW c \in Coords
  PROVE  QueryExact(heap, n, c) \in Values \cup {None}
<1>1. c \in Places
  BY CoordsArePlaces
<1>2. NodeIn(heap, n, c) = None \/ NodeIn(heap, n, c) \in DOMAIN heap
  BY <1>1, WalksReachPlaces DEF TrieInv
<1>3. \A m \in DOMAIN heap : heap[m].value \in Values \cup {None}
  BY DEF TrieInv, IsNode
<1> QED BY <1>2, <1>3 DEF QueryExact

(* What a snapshot's root leads to does not change.                        *)
LEMMA SnapshotStays ==
  ASSUME TrieInv, HeapGrows, NEW n \in DOMAIN heap, n[2] = <<>>
  PROVE  /\ \A p \in Places : NodeIn(heap', n, p) = NodeIn(heap, n, p)
         /\ \A c \in Coords : QueryExact(heap', n, c) = QueryExact(heap, n, c)
         /\ CellsIn(heap', n) = CellsIn(heap, n)
<1>1. ASSUME NEW p \in Places PROVE NodeIn(heap', n, p) = NodeIn(heap, n, p)
  BY WalksStay DEF TrieInv, HeapGrows
<1>2. ASSUME NEW c \in Coords PROVE QueryExact(heap', n, c) = QueryExact(heap, n, c)
  <2>1. c \in Places
    BY CoordsArePlaces
  <2>2. NodeIn(heap, n, c) = None \/ NodeIn(heap, n, c) \in DOMAIN heap
    BY <2>1, WalksReachPlaces DEF TrieInv
  <2>3. NodeIn(heap', n, c) = NodeIn(heap, n, c)
    BY <1>1, <2>1
  <2> QED BY <2>2, <2>3 DEF QueryExact, HeapGrows
<1>3. PICK m : m = CellsIn(heap, n)
  OBVIOUS
<1>4. /\ DOMAIN m = {c \in Coords : QueryExact(heap, n, c) # None}
      /\ \A c \in DOMAIN m : m[c] = QueryExact(heap, n, c)
      /\ m = [c \in DOMAIN m |-> m[c]]
  BY <1>3, CellsInIs
<1>5. CellsIn(heap', n) = m
  BY <1>2, <1>4, CellsInEquals
<1> QED BY <1>1, <1>2, <1>3, <1>5

LEMMA WrittenMap ==
  ASSUME TrieInv, NEW c \in Coords, NEW v \in Values, Write(c, v)
  PROVE  CellsIn(heap', root') =
             [x \in DOMAIN CellsIn(heap, root) \cup {c} |->
                 IF x = c THEN v ELSE CellsIn(heap, root)[x]]
<1>1. QueryExact(heap', root', c) = v
  <2>1. c \in WayTo(c) /\ c \in Places
    BY CoordsArePlaces DEF WayTo, OnWay
  <2>2. NodeIn(heap', root', c) = Fresh(c) /\ TrieInv' /\ heap'[Fresh(c)].value = v
    <3>1. OnWay(c, c)
      BY DEF OnWay
    <3>2. NodeIn(heap', root', c) = Fresh(c)
      BY <2>1, <3>1, WrittenTrie
    <3>3. heap'[Fresh(c)] = WritePath(c, v)[Fresh(c)] /\ TrieInv'
      BY <2>1, WrittenTrie
    <3>4. WritePath(c, v)[Fresh(c)].value = v
      BY WriteFits
    <3> QED BY <3>2, <3>3, <3>4
  <2>3. Fresh(c) # None
    <3>1. Fresh(c) \in DOMAIN heap'
      BY <2>1, WriteFits, ReplaceKeepsTrie DEF Write
    <3> QED BY <2>2, <3>1 DEF TrieInv, Linked
  <2> QED BY <2>2, <2>3 DEF QueryExact
<1>2. ASSUME NEW x \in Coords, x # c PROVE QueryExact(heap', root', x) = QueryExact(heap, root, x)
  <2>1. x \in Places /\ ~OnWay(x, c)
    BY <1>2, CoordsArePlaces, OnWayIsPrefix
  <2>2. NodeIn(heap', root', x) = NodeIn(heap, root, x)
    BY <2>1, WrittenTrie
  <2>3. NodeIn(heap, root, x) = None \/ NodeIn(heap, root, x) \in DOMAIN heap
    BY <2>1, WalksReachPlaces DEF TrieInv
  <2>4. HeapGrows
    BY WrittenTrie
  <2> QED BY <2>2, <2>3, <2>4 DEF QueryExact, HeapGrows
<1>3. PICK old : old = CellsIn(heap, root)
  OBVIOUS
<1>4. /\ DOMAIN old = {x \in Coords : QueryExact(heap, root, x) # None}
      /\ \A x \in DOMAIN old : old[x] = QueryExact(heap, root, x)
  BY <1>3, CellsInIs
<1>5. PICK f : f = [x \in DOMAIN old \cup {c} |-> IF x = c THEN v ELSE old[x]]
  OBVIOUS
<1>6. QueryExact(heap', root', c) # None
  BY <1>1, NoneIsNoValue
<1>7. DOMAIN f \subseteq Coords /\ f = [x \in DOMAIN f |-> f[x]]
  BY <1>4, <1>5
<1>8. \A x \in Coords : QueryExact(heap', root', x) # None <=> x \in DOMAIN f
  BY <1>2, <1>4, <1>5, <1>6
<1>9. \A x \in DOMAIN f : QueryExact(heap', root', x) = f[x]
  BY <1>1, <1>2, <1>4, <1>5
<1>10. CellsIn(heap', root') = f
  BY <1>7, <1>8, <1>9, CellsInEquals
<1> QED BY <1>3, <1>5, <1>10

LEMMA PrunedMap ==
  ASSUME TrieInv, NEW axis \in Axes, NEW id, RemoveCellsWithIdAt(axis, id)
  PROVE  CellsIn(heap', root') =
             [x \in {x \in DOMAIN CellsIn(heap, root) : x[axis] # id} |-> CellsIn(heap, root)[x]]
<1>0. axis \in Nat /\ axis >= 1 /\ axis <= Dims /\ Dims \in Nat
  BY DimsIsPositive DEF Axes
<1>1. HeapGrows /\ TrieInv'
  BY PrunedTrie
<1>2. ASSUME NEW x \in Coords PROVE x \in Places /\ Len(x) = Dims /\ ~(Len(x) < axis)
  BY <1>0, CoordsArePlaces
<1>3. ASSUME NEW x \in Coords
      PROVE  \/ NodeIn(heap', root', x) = None
             \/ NodeIn(heap', root', x) = NodeIn(heap, root, x) /\ x[axis] # id
  BY <1>2, PrunedTrie
<1>4. ASSUME NEW x \in Coords, QueryExact(heap, root, x) # None, x[axis] # id
      PROVE  NodeIn(heap', root', x) # None
  <2>1. QueryExact(heap, root, x) # None
    BY <1>4 DEF QueryExact
  <2>2. NodeIn(heap, root, x) # None
    BY <1>4 DEF QueryExact
  <2> DEFINE Live(p) == OnWay(p, x) =>
                 NodeIn(heap', root', p) = IF Len(p) < axis THEN Fresh(p) ELSE NodeIn(heap, root, p)
  <2>3. PICK S : S = {p \in Places : Live(p)}
    OBVIOUS
  <2>4. <<>> \in S
    BY <1>0, <2>3, NodeInRoot, RootPlace, PrunedTrie
  <2>5. ASSUME NEW p \in Places, p \in S, NEW i \in Ids, Len(p) < Dims PROVE Append(p, i) \in S
    <3>1. PICK q \in Places : q = Append(p, i) /\ Len(q) = Len(p) + 1
      BY <2>5, PlaceAppend
    <3>2. NodeIn(heap', root', q) = Child(heap', NodeIn(heap', root', p), i)
          /\ NodeIn(heap, root, q) = Child(heap, NodeIn(heap, root, p), i)
      BY <2>5, <3>1, NodeInStep
    <3>3. Len(p) \in Nat
      BY PlaceShape
    <3> SUFFICES ASSUME OnWay(q, x)
                 PROVE  NodeIn(heap', root', q) =
                            IF Len(q) < axis THEN Fresh(q) ELSE NodeIn(heap, root, q)
      BY <2>3, <3>1
    <3>4. OnWay(p, x) /\ i = x[Len(p) + 1]
      BY <2>5, <3>1, WayGoesOn
    <3>5. NodeIn(heap, root, p) # None /\ NodeIn(heap, root, p) \in DOMAIN heap
      BY <2>2, <3>4, WaysAreWalked, WalksReachPlaces DEF TrieInv
    <3>6. CASE Len(p) < axis
      <4>1. NodeIn(heap', root', p) = Fresh(p) /\ p \in Above(axis)
        BY <2>3, <2>5, <3>4, <3>5, <3>6 DEF Above, NodeAt
      <4>2. i \in Kept(axis, id)[p]
        BY <1>4, <2>1, <3>4, <4>1, SurvivorsKept
      <4>3. heap'[Fresh(p)] = PrunePath(axis, id)[Fresh(p)]
        BY <4>1, PrunedTrie
      <4>4. /\ i \in DOMAIN heap'[Fresh(p)].children
            /\ heap'[Fresh(p)].children[i] =
                   IF Len(p) = axis - 1 THEN Copied(p).children[i] ELSE Fresh(q)
        BY <3>1, <4>1, <4>2, <4>3, PrunedNodeIs
      <4>5. Fresh(p) # None
        <5>1. Fresh(p) \in DOMAIN heap'
          BY <4>1, PruneFits, ReplaceKeepsTrie DEF RemoveCellsWithIdAt
        <5> QED BY <1>1, <5>1 DEF TrieInv, Linked
      <4>6. NodeIn(heap', root', q) = IF Len(p) = axis - 1 THEN Copied(p).children[i] ELSE Fresh(q)
        BY <3>2, <4>1, <4>4, <4>5 DEF Child
      <4>7. i \in DOMAIN Copied(p).children
        BY <4>1, <4>2, KeptIs DEF KeptAt
      <4>8. Copied(p).children[i] = NodeIn(heap, root, q)
        BY <3>1, <4>7, CopiedIs DEF NodeAt
      <4> QED BY <1>0, <3>1, <3>3, <3>6, <4>6, <4>8
    <3>7. CASE ~(Len(p) < axis)
      <4>1. NodeIn(heap', root', p) = NodeIn(heap, root, p) /\ ~(Len(q) < axis)
        BY <1>0, <2>3, <2>5, <3>1, <3>3, <3>4, <3>7
      <4>2. heap'[NodeIn(heap, root, p)] = heap[NodeIn(heap, root, p)]
        BY <1>1, <3>5 DEF HeapGrows
      <4> QED BY <3>2, <4>1, <4>2 DEF Child
    <3> QED BY <3>6, <3>7
  <2>6. Places \subseteq S
    BY <2>4, <2>5, PlaceInduction
  <2>7. Live(x)
    BY <1>2, <2>3, <2>6
  <2> QED BY <1>2, <2>2, <2>7 DEF OnWay
<1>5. ASSUME NEW x \in Coords
      PROVE  QueryExact(heap', root', x) = IF x[axis] # id THEN QueryExact(heap, root, x) ELSE None
  <2>1. NodeIn(heap, root, x) = None \/ NodeIn(heap, root, x) \in DOMAIN heap
    BY <1>2, WalksReachPlaces DEF TrieInv
  <2>2. CASE x[axis] = id
    BY <1>3, <2>2 DEF QueryExact
  <2>3. CASE x[axis] # id /\ QueryExact(heap, root, x) = None
    BY <1>1, <1>3, <2>1, <2>3 DEF QueryExact, HeapGrows
  <2>4. CASE x[axis] # id /\ QueryExact(heap, root, x) # None
    <3>1. NodeIn(heap', root', x) = NodeIn(heap, root, x) /\ NodeIn(heap, root, x) # None
      BY <1>3, <1>4, <2>4 DEF QueryExact
    <3> QED BY <1>1, <2>1, <2>4, <3>1 DEF QueryExact, HeapGrows
  <2> QED BY <2>2, <2>3, <2>4
<1>6. PICK old : old = CellsIn(heap, root)
  OBVIOUS
<1>7. /\ DOMAIN old = {x \in Coords : QueryExact(heap, root, x) # None}
      /\ \A x \in DOMAIN old : old[x] = QueryExact(heap, root, x)
  BY <1>6, CellsInIs
<1>8. PICK f : f = [x \in {x \in DOMAIN old : x[axis] # id} |-> old[x]]
  OBVIOUS
<1>9. DOMAIN f \subseteq Coords /\ f = [x \in DOMAIN f |-> f[x]]
  BY <1>7, <1>8
<1>10. \A x \in Coords : QueryExact(heap', root', x) # None <=> x \in DOMAIN f
  BY <1>5, <1>7, <1>8
<1>11. \A x \in DOMAIN f : QueryExact(heap', root', x) = f[x]
  BY <1>5, <1>7, <1>8
<1>12. CellsIn(heap', root') = f
  BY <1>9, <1>10, <1>11, CellsInEquals
<1> QED BY <1>6, <1>8, <1>12

-------------------------------------------------------------------------------
(* Scans: what is still to visit, what was found, and that the two leave   *)
(* nothing out.                                                            *)

ChosenOn(f, p) == \A d \in 1..Len(p) : f[d] = All \/ p[d] \in f[d]
Visits(h, n, f, T) ==
    \A t \in T : /\ t \in [place : Places, node : Names]
                 /\ t.node = NodeIn(h, n, t.place) /\ t.node # None
                 /\ ChosenOn(f, t.place)
Found(h, n, f, g) ==
    /\ g = [c \in DOMAIN g |-> g[c]]
    /\ \A c \in DOMAIN g : /\ c \in Coords /\ ChosenOn(f, c)
                           /\ QueryExact(h, n, c) # None /\ g[c] = QueryExact(h, n, c)
LeavesOutNothing(h, n, f, T, g) ==
    \A c \in Coords : QueryExact(h, n, c) # None /\ ChosenOn(f, c)
        => c \in DOMAIN g \/ \E t \in T : OnWay(t.place, c)
Scans(h, n, f, T, g) ==
    Visits(h, n, f, T) /\ Found(h, n, f, g) /\ LeavesOutNothing(h, n, f, T, g)

(* What a node has for a filter, one step further.                         *)
Ahead(h, f, t) ==
    LET present == DOMAIN h[t.node].children
        axis == Len(t.place) + 1
    IN  {[place |-> Append(t.place, i), node |-> h[t.node].children[i]] :
            i \in IF f[axis] = All THEN present ELSE present \cap f[axis]}

ReadInv ==
    /\ snap \in [Readers -> Names]
    /\ filter \in [Readers -> [Axes -> {All} \cup SUBSET Ids]]
    /\ todo \in [Readers -> SUBSET [place : Places, node : Names]]
    /\ results = [r \in Readers |-> results[r]]
    /\ \A r \in Readers :
           /\ snap[r] \in DOMAIN heap /\ snap[r][2] = <<>>
           /\ Scans(heap, snap[r], filter[r], todo[r], results[r])

LEMMA ScanStarts ==
  ASSUME NEW h, NEW n \in Names, n # None, NEW f, NEW T, T = {[place |-> <<>>, node |-> n]}
  PROVE  Scans(h, n, f, T, NoCells)
<1>1. NodeIn(h, n, <<>>) = n /\ <<>> \in Places /\ Len(<<>>) = 0
  BY NodeInRoot, RootPlace
<1>2. PICK t : t = [place |-> <<>>, node |-> n]
  OBVIOUS
<1>3. T = {t} /\ t.place = <<>> /\ t.node = n /\ t \in [place : Places, node : Names]
  BY <1>1, <1>2
<1>4. Visits(h, n, f, T)
  BY <1>1, <1>3 DEF Visits, ChosenOn
<1>5. Found(h, n, f, NoCells)
  BY DEF Found, NoCells
<1>6. LeavesOutNothing(h, n, f, T, NoCells)
  BY <1>1, <1>3 DEF LeavesOutNothing, OnWay
<1> QED BY <1>4, <1>5, <1>6 DEF Scans

LEMMA ScanOfLeaf ==
  ASSUME NEW h, NEW n, NEW f, NEW T, NEW g, Scans(h, n, f, T, g),
         NEW t \in T, Len(t.place) = Dims, NEW e,
         e = IF h[t.node].value = None THEN g
             ELSE [c \in DOMAIN g \cup {t.place} |-> IF c = t.place THEN h[t.node].value ELSE g[c]]
  PROVE  Scans(h, n, f, T \ {t}, e)
<1>1. PICK p : p = t.place
  OBVIOUS
<1>2. p \in Places /\ t.node = NodeIn(h, n, p) /\ t.node # None /\ ChosenOn(f, p) /\ Len(p) = Dims
  BY <1>1 DEF Scans, Visits
<1>3. p \in Coords
  BY <1>2, CoordsArePlaces
<1>4. h[t.node].value = QueryExact(h, n, p)
  BY <1>2 DEF QueryExact
<1>5. Visits(h, n, f, T \ {t})
  BY DEF Scans, Visits
<1>6. Found(h, n, f, e)
  <2>1. CASE QueryExact(h, n, p) = None
    BY <1>4, <2>1 DEF Scans
  <2>2. CASE QueryExact(h, n, p) # None
    <3>1. e = [c \in DOMAIN g \cup {p} |-> IF c = p THEN QueryExact(h, n, p) ELSE g[c]]
      BY <1>1, <1>4, <2>2
    <3>2. \A c \in DOMAIN g : /\ c \in Coords /\ ChosenOn(f, c)
                              /\ QueryExact(h, n, c) # None /\ g[c] = QueryExact(h, n, c)
      BY DEF Scans, Found
    <3>3. e = [c \in DOMAIN e |-> e[c]]
      BY <3>1
    <3>4. \A c \in DOMAIN e : /\ c \in Coords /\ ChosenOn(f, c)
                              /\ QueryExact(h, n, c) # None /\ e[c] = QueryExact(h, n, c)
      BY <1>2, <1>3, <2>2, <3>1, <3>2
    <3> QED BY <3>3, <3>4 DEF Found
  <2> QED BY <2>1, <2>2
<1>7. LeavesOutNothing(h, n, f, T \ {t}, e)
  <2> SUFFICES ASSUME NEW c \in Coords, QueryExact(h, n, c) # None, ChosenOn(f, c)
               PROVE  c \in DOMAIN e \/ \E u \in T \ {t} : OnWay(u.place, c)
    BY DEF LeavesOutNothing
  <2>1. DOMAIN g \subseteq DOMAIN e
    OBVIOUS
  <2>2. c \in DOMAIN g \/ \E u \in T : OnWay(u.place, c)
    BY DEF Scans, LeavesOutNothing
  <2>3. CASE OnWay(p, c)
    <3>1. p = c
      BY <1>2, <2>3, OnWayIsPrefix
    <3> QED BY <1>1, <1>4, <3>1
  <2> QED BY <1>1, <2>1, <2>2, <2>3
<1> QED BY <1>5, <1>6, <1>7 DEF Scans

LEMMA ScanOfBranch ==
  ASSUME NEW h, Linked(h), DOMAIN h \subseteq Names, NEW n \in DOMAIN h, n[2] = <<>>,
         NEW f, NEW T, NEW g, Scans(h, n, f, T, g),
         NEW t \in T, Len(t.place) # Dims
  PROVE  Scans(h, n, f, (T \ {t}) \cup Ahead(h, f, t), g)
<1> DEFINE W == IF f[Len(t.place) + 1] = All THEN DOMAIN h[t.node].children
                ELSE DOMAIN h[t.node].children \cap f[Len(t.place) + 1]
<1>0. PICK U : U = (T \ {t}) \cup Ahead(h, f, t)
  OBVIOUS
<1>c. U = (T \ {t}) \cup {[place |-> Append(t.place, i), node |-> h[t.node].children[i]] : i \in W}
  BY <1>0 DEF Ahead
<1>1. PICK p : p = t.place
  OBVIOUS
<1>2. p \in Places /\ t.node = NodeIn(h, n, p) /\ t.node # None /\ ChosenOn(f, p)
  BY <1>1 DEF Scans, Visits
<1>3. Len(p) \in Nat /\ Len(p) < Dims /\ t.node \in DOMAIN h
  <2>1. Len(p) \in 0..Dims
    BY <1>2, PlaceShape
  <2>2. t.node \in DOMAIN h
    BY <1>2, WalksReachPlaces
  <2> QED BY <1>1, <2>1, <2>2, DimsIsPositive
<1>4. ASSUME NEW i \in DOMAIN h[t.node].children
      PROVE  /\ i \in Ids /\ Append(p, i) \in Places
             /\ h[t.node].children[i] = NodeIn(h, n, Append(p, i))
             /\ h[t.node].children[i] \in Names /\ h[t.node].children[i] # None
  <2>1. i \in Ids /\ h[t.node].children[i] \in DOMAIN h
    BY <1>3 DEF Linked
  <2>2. NodeIn(h, n, Append(p, i)) = Child(h, t.node, i) /\ Append(p, i) \in Places
    BY <1>2, <1>3, <2>1, NodeInStep, PlaceAppend
  <2>3. h[t.node].children[i] # None
    BY <2>1 DEF Linked
  <2> QED BY <1>2, <2>1, <2>2, <2>3 DEF Child
<1>5. Visits(h, n, f, U)
  <2> SUFFICES ASSUME NEW i \in W, NEW u,
                      u = [place |-> Append(p, i), node |-> h[t.node].children[i]]
               PROVE  /\ u \in [place : Places, node : Names]
                      /\ u.node = NodeIn(h, n, u.place) /\ u.node # None
                      /\ ChosenOn(f, u.place)
    BY <1>1, <1>c DEF Scans, Visits
  <2>1. i \in DOMAIN h[t.node].children /\ (f[Len(p) + 1] = All \/ i \in f[Len(p) + 1])
    BY <1>1
  <2>2. u.place = Append(p, i) /\ u.node = h[t.node].children[i]
    OBVIOUS
  <2>3. PICK q \in Places : q = Append(p, i) /\ Len(q) = Len(p) + 1 /\ q[Len(p) + 1] = i
                            /\ \A j \in 1..Len(p) : q[j] = p[j]
    BY <1>2, <1>3, <1>4, <2>1, PlaceAppend
  <2>4. ChosenOn(f, q)
    <3> SUFFICES ASSUME NEW d \in 1..Len(q) PROVE f[d] = All \/ q[d] \in f[d]
      BY DEF ChosenOn
    <3>1. d \in 1..Len(p) \/ d = Len(p) + 1
      BY <1>3, <2>3
    <3> QED BY <1>2, <2>1, <2>3, <3>1 DEF ChosenOn
  <2> QED BY <1>4, <2>1, <2>2, <2>3, <2>4
<1>6. LeavesOutNothing(h, n, f, U, g)
  <2> SUFFICES ASSUME NEW c \in Coords, QueryExact(h, n, c) # None, ChosenOn(f, c),
                      OnWay(p, c)
               PROVE  \E u \in U : OnWay(u.place, c)
    BY <1>1, <1>c DEF Scans, LeavesOutNothing
  <2>1. PICK i \in Ids : i = c[Len(p) + 1]
    BY <1>2, <1>3, WayGoesOn
  <2>2. OnWay(Append(p, i), c) /\ Append(p, i) \in Places
    BY <1>2, <1>3, <2>1, WayGoesOn, PlaceAppend
  <2>3. NodeIn(h, n, c) # None
    BY DEF QueryExact
  <2>4. NodeIn(h, n, Append(p, i)) # None
    BY <2>2, <2>3, WaysAreWalked
  <2>5. NodeIn(h, n, Append(p, i)) = Child(h, t.node, i)
    BY <1>2, <1>3, NodeInStep
  <2>6. i \in DOMAIN h[t.node].children
    BY <2>4, <2>5 DEF Child
  <2>7. f[Len(p) + 1] = All \/ i \in f[Len(p) + 1]
    <3>1. Len(p) + 1 \in 1..Len(c)
      BY <1>3, CoordsArePlaces, DimsIsPositive
    <3> QED BY <2>1, <3>1 DEF ChosenOn
  <2>8. i \in W
    BY <1>1, <2>6, <2>7
  <2>9. PICK u : u = [place |-> Append(p, i), node |-> h[t.node].children[i]]
    OBVIOUS
  <2>10. u \in U /\ u.place = Append(p, i)
    BY <1>1, <1>c, <2>8, <2>9
  <2> QED BY <2>2, <2>10
<1> QED BY <1>0, <1>5, <1>6 DEF Scans

(* A scan that has nothing left to visit has found what it asked for.      *)
ChosenCells(m, f) == [c \in {c \in DOMAIN m : ChosenOn(f, c)} |-> m[c]]

LEMMA ScanEnds ==
  ASSUME NEW h, NEW n, NEW f, NEW g, Scans(h, n, f, {}, g)
  PROVE  g = ChosenCells(CellsIn(h, n), f)
<1>1. PICK m : m = CellsIn(h, n)
  OBVIOUS
<1>2. /\ DOMAIN m = {c \in Coords : QueryExact(h, n, c) # None}
      /\ \A c \in DOMAIN m : m[c] = QueryExact(h, n, c)
  BY <1>1, CellsInIs
<1>3. \A c \in Coords : QueryExact(h, n, c) # None /\ ChosenOn(f, c) => c \in DOMAIN g
  BY DEF Scans, LeavesOutNothing
<1>4. /\ g = [c \in DOMAIN g |-> g[c]]
      /\ \A c \in DOMAIN g : /\ c \in Coords /\ ChosenOn(f, c)
                             /\ QueryExact(h, n, c) # None /\ g[c] = QueryExact(h, n, c)
  BY DEF Scans, Found
<1>5. DOMAIN g = {c \in DOMAIN m : ChosenOn(f, c)}
  BY <1>2, <1>3, <1>4
<1>6. \A c \in DOMAIN g : g[c] = m[c]
  BY <1>2, <1>4, <1>5
<1> QED BY <1>1, <1>4, <1>5, <1>6 DEF ChosenCells

LEMMA InitRead == Init => ReadInv
<1> SUFFICES ASSUME Init PROVE ReadInv
  OBVIOUS
<1>1. TrieInv
  BY InitTrie
<1>2. root \in DOMAIN heap /\ root[2] = <<>> /\ root \in Names /\ heap[root].value = None
  BY <1>1 DEF TrieInv, Init, EmptyNode
<1>3. ASSUME NEW c \in Coords PROVE QueryExact(heap, root, c) = None
  <2>1. NodeIn(heap, root, c) = None \/ NodeIn(heap, root, c) \in DOMAIN heap
    BY <1>1, <1>2, CoordsArePlaces, WalksReachPlaces DEF TrieInv
  <2>2. \A m \in DOMAIN heap : m = root
    BY DEF Init
  <2> QED BY <1>2, <2>1, <2>2 DEF QueryExact
<1>4. ASSUME NEW f PROVE Scans(heap, root, f, {}, NoCells)
  BY <1>3 DEF Scans, Visits, Found, LeavesOutNothing, NoCells
<1>5. [d \in Axes |-> All] \in [Axes -> {All} \cup SUBSET Ids]
  OBVIOUS
<1> QED BY <1>2, <1>4, <1>5 DEF ReadInv, Init

LEMMA ScansStay ==
  ASSUME TrieInv, HeapGrows, ReadInv, NEW r \in Readers
  PROVE  /\ snap[r] \in DOMAIN heap'
         /\ Scans(heap', snap[r], filter[r], todo[r], results[r])
<1>1. PICK n \in DOMAIN heap : n = snap[r] /\ n[2] = <<>>
  BY DEF ReadInv
<1>2. /\ \A p \in Places : NodeIn(heap', n, p) = NodeIn(heap, n, p)
      /\ \A c \in Coords : QueryExact(heap', n, c) = QueryExact(heap, n, c)
  BY <1>1, SnapshotStays
<1>3. Scans(heap, n, filter[r], todo[r], results[r])
  BY <1>1 DEF ReadInv
<1>4. Visits(heap', n, filter[r], todo[r])
  BY <1>2, <1>3 DEF Scans, Visits
<1>5. Found(heap', n, filter[r], results[r])
  BY <1>2, <1>3 DEF Scans, Found
<1>6. LeavesOutNothing(heap', n, filter[r], todo[r], results[r])
  BY <1>2, <1>3 DEF Scans, LeavesOutNothing
<1> QED BY <1>1, <1>4, <1>5, <1>6 DEF Scans, HeapGrows

LEMMA ChangeKeepsReads ==
  ASSUME TrieInv, HeapGrows, ReadInv, UNCHANGED scanVars
  PROVE  ReadInv'
<1>1. snap' = snap /\ filter' = filter /\ todo' = todo /\ results' = results
  BY DEF scanVars
<1>2. ASSUME NEW r \in Readers
      PROVE  /\ snap[r] \in DOMAIN heap' /\ snap[r][2] = <<>>
             /\ Scans(heap', snap[r], filter[r], todo[r], results[r])
  BY ScansStay DEF ReadInv
<1> QED BY <1>1, <1>2 DEF ReadInv

LEMMA ScanSubcubeKeepsReads ==
  ASSUME TrieInv, ReadInv, NEW r \in Readers, NEW f \in Filters, ScanSubcube(r, f)
  PROVE  ReadInv'
<1>1. root \in Names /\ root # None /\ root \in DOMAIN heap /\ root[2] = <<>>
  BY DEF TrieInv, Linked
<1>2. PICK T : T = {[place |-> <<>>, node |-> root]}
  OBVIOUS
<1>3. T \in SUBSET [place : Places, node : Names]
  BY <1>1, <1>2, RootPlace
<1>4. Scans(heap, root, f, T, NoCells)
  BY <1>1, <1>2, ScanStarts
<1>5. f \in [Axes -> {All} \cup SUBSET Ids]
  BY FiltersByAxis DEF Axes
<1>6. /\ heap' = heap
      /\ snap' = [snap EXCEPT ![r] = root] /\ filter' = [filter EXCEPT ![r] = f]
      /\ todo' = [todo EXCEPT ![r] = T] /\ results' = [results EXCEPT ![r] = NoCells]
  BY <1>2 DEF ScanSubcube, trieVars
<1>7. /\ snap' \in [Readers -> Names]
      /\ filter' \in [Readers -> [Axes -> {All} \cup SUBSET Ids]]
      /\ todo' \in [Readers -> SUBSET [place : Places, node : Names]]
      /\ results' = [x \in Readers |-> results'[x]]
  BY <1>1, <1>3, <1>5, <1>6 DEF ReadInv
<1>8. ASSUME NEW x \in Readers
      PROVE  /\ snap'[x] \in DOMAIN heap' /\ snap'[x][2] = <<>>
             /\ Scans(heap', snap'[x], filter'[x], todo'[x], results'[x])
  <2>1. CASE x = r
    <3>1. snap'[x] = root /\ filter'[x] = f /\ todo'[x] = T /\ results'[x] = NoCells
      BY <1>6, <2>1 DEF ReadInv
    <3> QED BY <1>1, <1>4, <1>6, <3>1
  <2>2. CASE x # r
    <3>1. /\ snap'[x] = snap[x] /\ filter'[x] = filter[x]
          /\ todo'[x] = todo[x] /\ results'[x] = results[x]
      BY <1>6, <2>2 DEF ReadInv
    <3> QED BY <1>6, <3>1 DEF ReadInv
  <2> QED BY <2>1, <2>2
<1> QED BY <1>7, <1>8 DEF ReadInv

(* What a step of a scan does to its reader.                               *)
LEMMA ScanRecursiveIs ==
  ASSUME TrieInv, ReadInv, NEW r \in Readers, ScanRecursive(r)
  PROVE  \E T, g :
             /\ todo[r] # {}
             /\ T \in SUBSET [place : Places, node : Names]
             /\ Scans(heap, snap[r], filter[r], T, g)
             /\ todo' = [todo EXCEPT ![r] = T]
             /\ results' = [results EXCEPT ![r] = g]
             /\ heap' = heap /\ root' = root /\ changes' = changes
             /\ snap' = snap /\ filter' = filter
<1>1. PICK t \in todo[r] :
          IF Len(t.place) = Dims
          THEN /\ todo' = [todo EXCEPT ![r] = @ \ {t}]
               /\ results' = IF heap[t.node].value = None THEN results
                    ELSE [results EXCEPT ![r] =
                             [c \in DOMAIN @ \cup {t.place} |->
                                 IF c = t.place THEN heap[t.node].value ELSE @[c]]]
          ELSE /\ todo' = [todo EXCEPT ![r] = (@ \ {t}) \cup
                      {[place |-> Append(t.place, i),
                        node |-> heap[t.node].children[i]] : i \in Wanted(filter[r], t)}]
               /\ UNCHANGED results
  BY DEF ScanRecursive
<1>2. heap' = heap /\ root' = root /\ changes' = changes /\ snap' = snap /\ filter' = filter
  BY DEF ScanRecursive, trieVars
<1>3. /\ Scans(heap, snap[r], filter[r], todo[r], results[r])
      /\ snap[r] \in DOMAIN heap /\ snap[r][2] = <<>>
      /\ todo[r] \in SUBSET [place : Places, node : Names]
      /\ results = [x \in Readers |-> results[x]]
  BY DEF ReadInv
<1>4. Linked(heap) /\ DOMAIN heap \subseteq Names
  BY DEF TrieInv
<1>5. CASE Len(t.place) = Dims
  <2>1. PICK T : T = todo[r] \ {t}
    OBVIOUS
  <2>2. PICK g : g = IF heap[t.node].value = None THEN results[r]
                     ELSE [c \in DOMAIN results[r] \cup {t.place} |->
                              IF c = t.place THEN heap[t.node].value ELSE results[r][c]]
    OBVIOUS
  <2>3. Scans(heap, snap[r], filter[r], T, g)
    BY <1>3, <1>5, <2>1, <2>2, ScanOfLeaf
  <2>4. todo' = [todo EXCEPT ![r] = T]
    BY <1>1, <1>5, <2>1
  <2>5. results' = [results EXCEPT ![r] = g]
    BY <1>1, <1>3, <1>5, <2>2
  <2> QED BY <1>2, <1>3, <2>1, <2>3, <2>4, <2>5
<1>6. CASE Len(t.place) # Dims
  <2>2. PICK T : T = (todo[r] \ {t}) \cup Ahead(heap, filter[r], t)
    OBVIOUS
  <2>4. Scans(heap, snap[r], filter[r], T, results[r])
    BY <1>3, <1>4, <1>6, <2>2, ScanOfBranch
  <2>5. T \in SUBSET [place : Places, node : Names]
    BY <2>4 DEF Scans, Visits
  <2>6. todo' = [todo EXCEPT ![r] = T]
    BY <1>1, <1>6, <2>2 DEF Ahead, Wanted
  <2>7. results' = [results EXCEPT ![r] = results[r]]
    BY <1>1, <1>3, <1>6
  <2> QED BY <1>2, <2>4, <2>5, <2>6, <2>7
<1> QED BY <1>5, <1>6

LEMMA ScanRecursiveKeepsReads ==
  ASSUME TrieInv, ReadInv, NEW r \in Readers, ScanRecursive(r)
  PROVE  ReadInv'
<1>1. PICK T, g :
          /\ T \in SUBSET [place : Places, node : Names]
          /\ Scans(heap, snap[r], filter[r], T, g)
          /\ todo' = [todo EXCEPT ![r] = T]
          /\ results' = [results EXCEPT ![r] = g]
          /\ heap' = heap /\ snap' = snap /\ filter' = filter
  BY ScanRecursiveIs
<1>2. /\ todo' \in [Readers -> SUBSET [place : Places, node : Names]]
      /\ results' = [x \in Readers |-> results'[x]]
  BY <1>1 DEF ReadInv
<1>3. ASSUME NEW x \in Readers
      PROVE  /\ snap[x] \in DOMAIN heap /\ snap[x][2] = <<>>
             /\ Scans(heap, snap[x], filter[x], todo'[x], results'[x])
  <2>1. CASE x = r
    <3>1. todo'[x] = T /\ results'[x] = g
      BY <1>1, <2>1 DEF ReadInv
    <3> QED BY <1>1, <2>1, <3>1 DEF ReadInv
  <2>2. CASE x # r
    <3>1. todo'[x] = todo[x] /\ results'[x] = results[x]
      BY <1>1, <2>2 DEF ReadInv
    <3> QED BY <3>1 DEF ReadInv
  <2> QED BY <2>1, <2>2
<1> QED BY <1>1, <1>2, <1>3 DEF ReadInv

LEMMA NextRead ==
  ASSUME TrieInv, ReadInv, [Next]_vars
  PROVE  ReadInv'
<1>1. ASSUME NEW c \in Coords, NEW v \in Values, Write(c, v) PROVE ReadInv'
  <2>1. HeapGrows
    BY <1>1, WrittenTrie
  <2>2. UNCHANGED scanVars
    BY <1>1 DEF Write, Replace
  <2> QED BY <2>1, <2>2, ChangeKeepsReads
<1>2. ASSUME NEW d \in Axes, NEW i \in Ids, RemoveCellsWithIdAt(d, i) PROVE ReadInv'
  <2>1. HeapGrows
    BY <1>2, PrunedTrie
  <2>2. UNCHANGED scanVars
    BY <1>2 DEF RemoveCellsWithIdAt, Replace
  <2> QED BY <2>1, <2>2, ChangeKeepsReads
<1>3. ASSUME NEW r \in Readers, NEW f \in Filters, ScanSubcube(r, f) PROVE ReadInv'
  BY <1>3, ScanSubcubeKeepsReads
<1>4. ASSUME NEW r \in Readers, ScanRecursive(r) PROVE ReadInv'
  BY <1>4, ScanRecursiveKeepsReads
<1>5. CASE UNCHANGED vars
  <2>1. heap' = heap /\ UNCHANGED scanVars
    BY <1>5 DEF vars, scanVars
  <2> QED BY <2>1, ChangeKeepsReads DEF HeapGrows
<1> QED BY <1>1, <1>2, <1>3, <1>4, <1>5 DEF Next

LEMMA Holds == Spec => [](TrieInv /\ ReadInv)
<1>1. TrieInv /\ ReadInv /\ [Next]_vars => (TrieInv /\ ReadInv)'
  BY NextTrie, NextRead
<1> QED BY <1>1, InitTrie, InitRead, PTL DEF Spec

(* The variables keep their types, and no node refers to one that is gone. *)
THEOREM TypeCorrect == Spec => []TypeOK
<1>1. TrieInv /\ ReadInv => TypeOK
  <2> SUFFICES ASSUME TrieInv, ReadInv PROVE TypeOK
    OBVIOUS
  <2>1. /\ DOMAIN heap \subseteq Names
        /\ root \in DOMAIN heap /\ changes \in 0..MaxChanges
    BY DEF TrieInv
  <2>2. ASSUME NEW n \in DOMAIN heap
        PROVE  /\ heap[n].value \in Values \cup {None}
               /\ DOMAIN heap[n].children \subseteq Ids
               /\ \A i \in DOMAIN heap[n].children : heap[n].children[i] \in DOMAIN heap
    BY DEF TrieInv, IsNode, Linked
  <2>3. /\ snap \in [Readers -> DOMAIN heap]
        /\ filter \in [Readers -> [Axes -> {All} \cup SUBSET Ids]]
        /\ \A r \in Readers : todo[r] \subseteq [place : Places, node : Names]
    BY DEF ReadInv
  <2>4. \A r \in Readers : DOMAIN results[r] \subseteq Coords
    BY DEF ReadInv, Scans, Found
  <2> QED BY <2>1, <2>2, <2>3, <2>4 DEF TypeOK
<1> QED BY <1>1, Holds, PTL

-------------------------------------------------------------------------------
(* The trie implements a map whose readers see a moment of it.             *)

-------------------------------------------------------------------------------
(* The trie implements a map whose readers see a moment of it.             *)

Answers == [r \in Readers |-> IF todo[r] = {} THEN results[r] ELSE Pending]
Taken == [r \in Readers |-> CellsIn(heap, snap[r])]

LEMMA ChosenIs ==
  ASSUME NEW f, NEW c \in Coords
  PROVE  ChosenOn(f, c) <=> AsMap!Chosen(f, c)
<1>1. Len(c) = Dims
  BY CoordsArePlaces
<1> QED BY <1>1 DEF ChosenOn, AsMap!Chosen, Axes

LEMMA SelectedIs ==
  ASSUME NEW h, NEW n, NEW f, NEW g, Scans(h, n, f, {}, g)
  PROVE  g = AsMap!Selected(CellsIn(h, n), f)
<1>1. PICK m : m = CellsIn(h, n)
  OBVIOUS
<1>2. DOMAIN m \subseteq Coords
  <2>1. DOMAIN CellsIn(h, n) = {c \in Coords : QueryExact(h, n, c) # None}
    BY CellsInIs
  <2> QED BY <1>1, <2>1
<1>3. g = [c \in {c \in DOMAIN m : ChosenOn(f, c)} |-> m[c]]
  <2>1. g = ChosenCells(CellsIn(h, n), f)
    BY ScanEnds
  <2> QED BY <1>1, <2>1 DEF ChosenCells
<1>4. {c \in DOMAIN m : ChosenOn(f, c)} = DOMAIN m \cap {c \in DOMAIN m : AsMap!Chosen(f, c)}
  BY <1>2, ChosenIs
<1>5. AsMap!Selected(m, f) =
          [c \in DOMAIN m \cap {c \in DOMAIN m : AsMap!Chosen(f, c)} |-> m[c]]
  BY DEF AsMap!Selected, AsMap!Restriction
<1> QED BY <1>1, <1>3, <1>4, <1>5

LEMMA InitMaps == Init => AsMap!Init
<1> SUFFICES ASSUME Init PROVE AsMap!Init
  OBVIOUS
<1>1. TrieInv /\ ReadInv
  BY InitTrie, InitRead
<1>2. ASSUME NEW c \in Coords PROVE QueryExact(heap, root, c) = None
  <2>1. NodeIn(heap, root, c) = None \/ NodeIn(heap, root, c) \in DOMAIN heap
    BY <1>1, CoordsArePlaces, WalksReachPlaces DEF TrieInv
  <2>2. \A m \in DOMAIN heap : heap[m].value = None
    BY DEF Init, EmptyNode
  <2> QED BY <2>1, <2>2 DEF QueryExact
<1>3. CellsIn(heap, root) = NoCells
  <2>1. NoCells = [c \in DOMAIN NoCells |-> NoCells[c]] /\ DOMAIN NoCells = {}
    BY DEF NoCells
  <2> QED BY <1>2, <2>1, CellsInEquals
<1>4. [c \in DOMAIN [e \in Coords |-> Pending] \cap {} |-> [e \in Coords |-> Pending][c]] = NoCells
  BY DEF NoCells
<1>5. \A r \in Readers : snap[r] = root /\ todo[r] = {} /\ results[r] = NoCells
  BY DEF Init
<1>6. filter = [r \in Readers |-> [d \in Axes |-> All]]
  BY DEF Init
<1> QED BY <1>3, <1>4, <1>5, <1>6 DEF AsMap!Init, AsMap!Restriction, AsMap!Coords, Coords

LEMMA WriteMaps ==
  ASSUME TrieInv, ReadInv, NEW c \in Coords, NEW v \in Values, Write(c, v)
  PROVE  AsMap!Write
<1>1. CellsIn(heap', root') =
          [x \in DOMAIN CellsIn(heap, root) \cup {c} |-> IF x = c THEN v ELSE CellsIn(heap, root)[x]]
  BY WrittenMap
<1>2. UNCHANGED scanVars /\ HeapGrows
  BY WrittenTrie DEF Write, Replace
<1>3. Taken' = Taken /\ Answers' = Answers /\ filter' = filter
  <2>1. ASSUME NEW r \in Readers PROVE CellsIn(heap', snap[r]) = CellsIn(heap, snap[r])
    BY <1>2, SnapshotStays DEF ReadInv
  <2> QED BY <1>2, <2>1 DEF scanVars, Taken, Answers
<1>4. PICK after, before : after = CellsIn(heap', root') /\ before = CellsIn(heap, root)
  OBVIOUS
<1>5. /\ c \in DOMAIN after /\ after[c] = v /\ after[c] \in Values
      /\ after = [x \in DOMAIN before \cup {c} |-> IF x = c THEN after[c] ELSE before[x]]
  BY <1>1, <1>4
<1> QED BY <1>3, <1>4, <1>5 DEF AsMap!Write, Taken, Answers

LEMMA RemoveMaps ==
  ASSUME TrieInv, ReadInv, NEW d \in Axes, NEW i \in Ids, RemoveCellsWithIdAt(d, i)
  PROVE  AsMap!DeleteMember
<1>1. CellsIn(heap', root') =
          [x \in {x \in DOMAIN CellsIn(heap, root) : x[d] # i} |-> CellsIn(heap, root)[x]]
  BY PrunedMap
<1>2. UNCHANGED scanVars /\ HeapGrows
  BY PrunedTrie DEF RemoveCellsWithIdAt, Replace
<1>3. Taken' = Taken /\ Answers' = Answers /\ filter' = filter
  <2>1. ASSUME NEW r \in Readers PROVE CellsIn(heap', snap[r]) = CellsIn(heap, snap[r])
    BY <1>2, SnapshotStays DEF ReadInv
  <2> QED BY <1>2, <2>1 DEF scanVars, Taken, Answers
<1>4. PICK after, before : after = CellsIn(heap', root') /\ before = CellsIn(heap, root)
  OBVIOUS
<1>5. DOMAIN before \cap {x \in DOMAIN before : x[d] # i} = {x \in DOMAIN before : x[d] # i}
  OBVIOUS
<1>6. after = AsMap!Restriction(before, {x \in DOMAIN before : x[d] # i})
  BY <1>1, <1>4, <1>5 DEF AsMap!Restriction
<1> QED BY <1>3, <1>4, <1>6 DEF AsMap!DeleteMember, Taken, Answers

LEMMA AskMaps ==
  ASSUME TrieInv, ReadInv, NEW r \in Readers, NEW f \in Filters, ScanSubcube(r, f)
  PROVE  AsMap!Ask(r)
<1>1. /\ todo[r] = {} /\ heap' = heap /\ root' = root
      /\ snap' = [snap EXCEPT ![r] = root] /\ filter' = [filter EXCEPT ![r] = f]
      /\ todo' = [todo EXCEPT ![r] = {[place |-> <<>>, node |-> root]}]
      /\ results' = [results EXCEPT ![r] = NoCells]
  BY DEF ScanSubcube, trieVars
<1>2. results[r] # Pending
  <2>1. PICK n, g : n \in DOMAIN heap /\ n = snap[r] /\ g = results[r] /\ n[2] = <<>>
    BY DEF ReadInv
  <2>2. Found(heap, n, filter[r], g)
    BY <2>1 DEF ReadInv, Scans
  <2>3. ASSUME NEW c \in DOMAIN g PROVE c \in Coords /\ g[c] \in Values
    <3>1. c \in Coords /\ QueryExact(heap, n, c) # None /\ g[c] = QueryExact(heap, n, c)
      BY <2>2 DEF Found
    <3>2. QueryExact(heap, n, c) \in Values \cup {None}
      BY <2>1, <3>1, ValuesAreTyped
    <3> QED BY <3>1, <3>2
  <2>4. g \in [DOMAIN g -> Values] /\ DOMAIN g \in SUBSET Coords
    BY <2>2, <2>3 DEF Found
  <2> QED BY <2>1, <2>4, PendingIsNoAnswer
<1>3. Answers[r] # Pending
  BY <1>1, <1>2 DEF Answers
<1>4. Taken' = [Taken EXCEPT ![r] = CellsIn(heap, root)]
  BY <1>1 DEF Taken, ReadInv
<1>5. Answers' = [Answers EXCEPT ![r] = Pending]
  BY <1>1 DEF Answers, ReadInv
<1>6. CellsIn(heap, root)' = CellsIn(heap, root)
  BY <1>1
<1> QED BY <1>1, <1>3, <1>4, <1>5, <1>6 DEF AsMap!Ask, Taken, Answers

LEMMA ScanMaps ==
  ASSUME TrieInv, ReadInv, NEW r \in Readers, ScanRecursive(r)
  PROVE  AsMap!Answer(r) \/ UNCHANGED AsMap!vars
<1>1. PICK T, g :
          /\ todo[r] # {}
          /\ Scans(heap, snap[r], filter[r], T, g)
          /\ todo' = [todo EXCEPT ![r] = T]
          /\ results' = [results EXCEPT ![r] = g]
          /\ heap' = heap /\ root' = root /\ snap' = snap /\ filter' = filter
  BY ScanRecursiveIs
<1>2. /\ CellsIn(heap, root)' = CellsIn(heap, root) /\ Taken' = Taken /\ filter' = filter
      /\ Answers[r] = Pending /\ Taken[r] = CellsIn(heap, snap[r])
  BY <1>1 DEF Taken, Answers
<1>3. CASE T = {}
  <2>1. g = AsMap!Selected(Taken[r], filter[r])
    BY <1>1, <1>2, <1>3, SelectedIs
  <2>2. Answers' = [Answers EXCEPT ![r] = g]
    BY <1>1, <1>3 DEF Answers, ReadInv
  <2> QED BY <1>2, <2>1, <2>2 DEF AsMap!Answer, Taken, Answers
<1>4. CASE T # {}
  <2>1. Answers' = Answers
    BY <1>1, <1>4 DEF Answers, ReadInv
  <2> QED BY <1>2, <2>1 DEF AsMap!vars, Taken, Answers
<1> QED BY <1>3, <1>4

LEMMA NextMaps ==
  ASSUME TrieInv, ReadInv, [Next]_vars
  PROVE  [AsMap!Next]_(AsMap!vars)
<1>1. ASSUME NEW c \in Coords, NEW v \in Values, Write(c, v) PROVE AsMap!Next
  BY <1>1, WriteMaps DEF AsMap!Next
<1>2. ASSUME NEW d \in Axes, NEW i \in Ids, RemoveCellsWithIdAt(d, i) PROVE AsMap!Next
  BY <1>2, RemoveMaps DEF AsMap!Next
<1>3. ASSUME NEW r \in Readers, NEW f \in Filters, ScanSubcube(r, f) PROVE AsMap!Next
  BY <1>3, AskMaps DEF AsMap!Next
<1>4. ASSUME NEW r \in Readers, ScanRecursive(r) PROVE AsMap!Next \/ UNCHANGED AsMap!vars
  BY <1>4, ScanMaps DEF AsMap!Next
<1>5. CASE UNCHANGED vars
  BY <1>5 DEF vars, AsMap!vars
<1> QED BY <1>1, <1>2, <1>3, <1>4, <1>5 DEF Next

(* Seen from outside the trie is a map, and every scan is answered from    *)
(* the map as it was when it took its snapshot, with the cells its filter  *)
(* asks for and no others, whatever was written or deleted meanwhile       *)
(* (cube.rs promises it of snapshots; sparse_store.rs keeps it by copying).*)
THEOREM ScansSeeOneMoment == Spec => ImplementsPointInTime
<1>1. Spec => AsMap!Init
  BY InitMaps, PTL DEF Spec
<1>2. Spec => [][AsMap!Next]_(AsMap!vars)
  <2>1. TrieInv /\ ReadInv /\ [Next]_vars => [AsMap!Next]_(AsMap!vars)
    BY NextMaps
  <2> QED BY <2>1, Holds, PTL DEF Spec
<1> QED BY <1>1, <1>2 DEF ImplementsPointInTime, AsMap!Spec
==============================================================================
