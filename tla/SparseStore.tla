----------------------------- MODULE SparseStore -----------------------------
(***************************************************************************)
(* The trie that holds a cube's cells.  A node has a child for each id of  *)
(* the next axis and a node below the last axis has a value.  Nodes are    *)
(* shared: a write copies the nodes on the way to its cell, a deletion the *)
(* nodes above the member's axis, and both leave all others to the new and *)
(* to the old trie alike.  A snapshot is the root at some moment; its      *)
(* reader walks from there, node by node, while cells are written.         *)
(*                                                                         *)
(* A node's name is the change that made it with its place in the trie,    *)
(* which no other node has: it stands for the address of an Arc.  Nodes    *)
(* that nothing refers to any more are not taken away.                     *)
(***************************************************************************)
EXTENDS Naturals, Sequences

CONSTANTS Readers, Ids, Values,
          Dims,      \* number of axes
          Filters,   \* what readers ask for: a set of ids, or All, by axis
          All, None,
          MaxChanges \* bound: writes and deletions

ASSUME DimsIsPositive == Dims \in Nat \ {0}
ASSUME BoundIsNat == MaxChanges \in Nat
ASSUME FiltersByAxis == Filters \subseteq [1..Dims -> {All} \cup SUBSET Ids]
ASSUME NoneIsNoValue == None \notin Values

VARIABLES heap,     \* node name -> node
          root,     \* name of the live trie's root
          changes,  \* writes and deletions so far
          snap,     \* reader -> root of the snapshot it scans
          filter,   \* reader -> what it asks for
          todo,     \* reader -> nodes of its snapshot still to visit
          results   \* reader -> cells found so far

vars == <<heap, root, changes, snap, filter, todo, results>>
trieVars == <<heap, root, changes>>
scanVars == <<snap, filter, todo, results>>

Axes == 1..Dims
Coords == [Axes -> Ids]
Places == UNION {[1..k -> Ids] : k \in 0..Dims}
Names == (0..MaxChanges) \X Places

ASSUME NoneIsNoName == None \notin Names

NoCells == [c \in {} |-> None]
EmptyNode == [children |-> NoCells, value |-> None]
IsEmpty(node) == DOMAIN node.children = {} /\ node.value = None

(* The node at a place below a node, or None.                              *)
Child(h, n, i) ==
    IF n = None THEN None
    ELSE IF i \in DOMAIN h[n].children THEN h[n].children[i] ELSE None
NodeIn(h, n, place) ==
    LET walk[k \in 0..Len(place)] ==
            IF k = 0 THEN n ELSE Child(h, walk[k - 1], place[k])
    IN  walk[Len(place)]
NodeAt(n, place) == NodeIn(heap, n, place)
QueryExact(h, n, coords) ==
    LET leaf == NodeIn(h, n, coords)
    IN  IF leaf = None THEN None ELSE h[leaf].value

Init ==
    /\ heap = [n \in {<<0, <<>>>>} |-> EmptyNode]
    /\ root = <<0, <<>>>>
    /\ changes = 0
    /\ snap = [r \in Readers |-> root]
    /\ filter = [r \in Readers |-> [d \in Axes |-> All]]
    /\ todo = [r \in Readers |-> {}]
    /\ results = [r \in Readers |-> NoCells]

-------------------------------------------------------------------------------
(* Changes.                                                                *)

(* Mutant: a node is changed where it is.                                  *)
Fresh_InPlace(place) ==
    IF NodeAt(root, place) # None THEN NodeAt(root, place) ELSE <<changes + 1, place>>

(* Arc::new: the node a change makes at a place is a new one.              *)
Fresh(place) == <<changes + 1, place>>

Copied(place) ==
    IF NodeAt(root, place) = None THEN EmptyNode ELSE heap[NodeAt(root, place)]

(* Mutant: the loop ends one axis too early.                               *)
WritePath_NoLeaf(coords, value) ==
    [n \in {Fresh(SubSeq(coords, 1, k)) : k \in 0..(Dims - 1)} |->
        [Copied(n[2]) EXCEPT !.children =
            [i \in DOMAIN @ \cup {coords[Len(n[2]) + 1]} |->
                IF i = coords[Len(n[2]) + 1] THEN Fresh(Append(n[2], i)) ELSE @[i]]]]

(* Mutant: every subtree is copied, not only the way to the cell.           *)
WritePath_DeepCopy(coords, value) ==
    LET places == {p \in Places : NodeAt(root, p) # None \/ p = SubSeq(coords, 1, Len(p))}
    IN  [n \in {Fresh(p) : p \in places} |->
            [children |-> [i \in {i \in Ids : Append(n[2], i) \in places} |->
                              Fresh(Append(n[2], i))],
             value |-> IF n[2] = coords THEN value ELSE Copied(n[2]).value]]

(* The nodes a write makes: one per prefix of its coordinates.             *)
Written(coords, value, place) ==
    LET step == coords[Len(place) + 1]
    IN  IF place = coords
        THEN [Copied(place) EXCEPT !.value = value]
        ELSE [Copied(place) EXCEPT !.children =
                 [i \in DOMAIN @ \cup {step} |->
                     IF i = step THEN Fresh(Append(place, i)) ELSE @[i]]]
WritePath(coords, value) ==
    [n \in {Fresh(SubSeq(coords, 1, k)) : k \in 0..Dims} |-> Written(coords, value, n[2])]

(* Mutant: branches left empty stay.                                       *)
PrunePath_KeepsEmpty(axis, id) ==
    LET places == {p \in Places : Len(p) < axis /\ NodeAt(root, p) # None}
        node(p) == [Copied(p) EXCEPT !.children =
                       [i \in DOMAIN @ \ (IF Len(p) = axis - 1 THEN {id} ELSE {}) |->
                           IF Len(p) = axis - 1 THEN @[i] ELSE Fresh(Append(p, i))]]
    IN  [n \in {Fresh(p) : p \in places} |-> node(n[2])]

(* A deletion copies every node above or at the member's axis.  It drops   *)
(* the member's subtrees and, from the bottom to the top, what is left     *)
(* empty by that: the children it keeps, by place.                         *)
Above(axis) == {p \in Places : Len(p) < axis /\ NodeAt(root, p) # None}
Below(p, i) == heap[NodeAt(root, Append(p, i))]
Kept(axis, id) ==
    LET kept[p \in Above(axis)] ==
            {i \in DOMAIN Copied(p).children :
                IF Len(p) = axis - 1
                THEN i # id /\ ~IsEmpty(Below(p, i))
                ELSE Below(p, i).value # None \/ kept[Append(p, i)] # {}}
    IN  kept

Pruned(kept, axis, p) ==
    [Copied(p) EXCEPT !.children =
        [i \in kept[p] |-> IF Len(p) = axis - 1 THEN @[i] ELSE Fresh(Append(p, i))]]
PrunePath(axis, id) ==
    LET kept == Kept(axis, id)
    IN  [n \in {Fresh(p) : p \in Above(axis)} |-> Pruned(kept, axis, n[2])]

(* The new nodes are reachable from the new root, the old ones stay.       *)
Replace(nodes) ==
    /\ changes < MaxChanges
    /\ heap' = [n \in DOMAIN heap \cup DOMAIN nodes |->
                   IF n \in DOMAIN nodes THEN nodes[n] ELSE heap[n]]
    /\ root' = Fresh(<<>>)
    /\ changes' = changes + 1
    /\ UNCHANGED scanVars

Write(coords, value) == Replace(WritePath(coords, value))
RemoveCellsWithIdAt(axis, id) == Replace(PrunePath(axis, id))

-------------------------------------------------------------------------------
(* Scans.                                                                  *)

ScanSubcube(r, f) ==
    /\ todo[r] = {}
    /\ snap' = [snap EXCEPT ![r] = root]
    /\ filter' = [filter EXCEPT ![r] = f]
    /\ todo' = [todo EXCEPT ![r] = {[place |-> <<>>, node |-> root]}]
    /\ results' = [results EXCEPT ![r] = NoCells]
    /\ UNCHANGED trieVars

Wanted(f, t) ==
    LET present == DOMAIN heap[t.node].children
        axis == Len(t.place) + 1
    IN  IF f[axis] = All THEN present ELSE present \cap f[axis]

(* Depth first; the order of siblings is that of a hash map.               *)
ScanRecursive(r) ==
    /\ \E t \in todo[r] :
           /\ \A u \in todo[r] : Len(u.place) <= Len(t.place)
           /\ IF Len(t.place) = Dims
              THEN /\ todo' = [todo EXCEPT ![r] = @ \ {t}]
                   /\ results' = IF heap[t.node].value = None THEN results
                        ELSE [results EXCEPT ![r] =
                                 [c \in DOMAIN @ \cup {t.place} |->
                                     IF c = t.place THEN heap[t.node].value ELSE @[c]]]
              ELSE /\ todo' = [todo EXCEPT ![r] = (@ \ {t}) \cup
                          {[place |-> Append(t.place, i),
                            node |-> heap[t.node].children[i]] : i \in Wanted(filter[r], t)}]
                   /\ UNCHANGED results
    /\ UNCHANGED <<trieVars, snap, filter>>

Next ==
    \/ \E c \in Coords, v \in Values : Write(c, v)
    \/ \E d \in Axes, i \in Ids : RemoveCellsWithIdAt(d, i)
    \/ \E r \in Readers, f \in Filters : ScanSubcube(r, f)
    \/ \E r \in Readers : ScanRecursive(r)

Spec == Init /\ [][Next]_vars

-------------------------------------------------------------------------------
(* Properties.                                                             *)

(* The types of the variables; no node refers to one that is not there.    *)
TypeOK ==
    /\ DOMAIN heap \subseteq Names
    /\ \A n \in DOMAIN heap :
           /\ heap[n].value \in Values \cup {None}
           /\ DOMAIN heap[n].children \subseteq Ids
           /\ \A i \in DOMAIN heap[n].children : heap[n].children[i] \in DOMAIN heap
    /\ root \in DOMAIN heap
    /\ changes \in 0..MaxChanges
    /\ snap \in [Readers -> DOMAIN heap]
    /\ filter \in [Readers -> [Axes -> {All} \cup SUBSET Ids]]
    /\ \A r \in Readers : todo[r] \subseteq [place : Places, node : Names]
    /\ \A r \in Readers : DOMAIN results[r] \subseteq Coords

(* After any changes the live trie has no dead branches: every node but    *)
(* the root leads to a cell, and only nodes below the last axis are cells. *)
(* Deletions prune upwards, writes end in a value.                         *)
NoDeadBranches ==
    \A place \in Places :
        LET n == NodeAt(root, place)
        IN  n # None =>
                /\ heap[n].value # None => Len(place) = Dims
                /\ IsEmpty(heap[n]) => n = root

(* A write shares all that is not on its way: off the path of its          *)
(* coordinates the new trie is made of the very nodes of the old one.  (A  *)
(* new node at coordinates is a write's, for a deletion makes none there.) *)
WritesShareTheRest ==
    [][\A c \in Coords : <<changes', c>> \in DOMAIN heap' \ DOMAIN heap =>
           \A place \in Places : place # SubSeq(c, 1, Len(place)) =>
               NodeAt(root, place)' = NodeAt(root, place)]_vars

(* Seen from outside the trie is a map, and a scan is answered from that   *)
(* map as it was when the scan took its snapshot: the promise that a       *)
(* snapshot keeps reading exactly the state it was taken at.               *)
CellsIn(h, n) ==
    LET value == [c \in Coords |-> QueryExact(h, n, c)]
    IN  [c \in {c \in Coords : value[c] # None} |-> value[c]]

CONSTANT Pending

ASSUME PendingIsNoAnswer == \A S \in SUBSET Coords : Pending \notin [S -> Values]

AsMap == INSTANCE PointInTime WITH
             cells  <- CellsIn(heap, root),
             taken  <- [r \in Readers |-> CellsIn(heap, snap[r])],
             answer <- [r \in Readers |-> IF todo[r] = {} THEN results[r] ELSE Pending]

ImplementsPointInTime == AsMap!Spec
=============================================================================
