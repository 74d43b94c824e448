--------------------------- MODULE StructureProofs ---------------------------
(***************************************************************************)
(* A dimension and its hierarchies keep what every structural edit relies  *)
(* on.  For any names, hierarchies and bounds:                             *)
(*                                                                         *)
(*   - an edit gives a name an id that has one already or one that was     *)
(*     never handed out (ids are filed in cells and outlive their names);  *)
(*   - the two indexes of a hierarchy tell the same forest, no member is   *)
(*     dropped out of it, and an order not marked stale is its order;      *)
(*   - the default member is usable, and two hierarchies that share an id  *)
(*     mean the same leaves by it.                                         *)
(*                                                                         *)
(* The first is an argument about one step.  The others rest on one        *)
(* inductive invariant, DimInv: what each operation does to a hierarchy is *)
(* a lemma of that operation, and what it does to the dimension another.   *)
(*                                                                         *)
(* The same lemmas serve the catalogue, whose commands fold these edits    *)
(* over rows and pairs: no id that has a name loses it but by the deletion *)
(* of its member, which takes the member's cells along.  Hence, for any    *)
(* dimensions, cubes and files, stored cells have names, and go only with  *)
(* a member they name.                                                     *)
(***************************************************************************)
EXTENDS Dimension, Catalogue, SequenceTheorems, FiniteSetTheorems, WellFoundedInduction, TLAPS

-------------------------------------------------------------------------------
(* Ids are not used again.                                                 *)

(* What of a hierarchy and of a dimension the argument rests on.           *)
HierarchyShape(h) == "id" \in DOMAIN h /\ h.id \in [Names -> Nat]

Shape(d) ==
    /\ {"leaf", "next", "hier"} \subseteq DOMAIN d
    /\ d.leaf \in [Names -> Nat]
    /\ d.next \in Nat
    /\ \A h \in DOMAIN d.hier : HierarchyShape(d.hier[h])

(* g is h after an edit that names nothing but members with ids in new.    *)
Renames(h, g, new) ==
    /\ HierarchyShape(g)
    /\ \A n \in Names : g.id[n] \in {h.id[n], NoId} \cup new

(* e is d after an edit: what has an id had it, or got a new one.          *)
Grows(d, e) ==
    /\ Shape(e)
    /\ e.next >= d.next
    /\ \A n \in Names :
           e.leaf[n] # NoId => Bound(d, e.leaf[n]) \/ e.leaf[n] >= d.next
    /\ \A h \in DOMAIN e.hier : \A n \in Names :
           e.hier[h].id[n] # NoId => Bound(d, e.hier[h].id[n]) \/ e.hier[h].id[n] >= d.next

-------------------------------------------------------------------------------
LEMMA BoundMeans ==
  ASSUME NEW d, NEW i
  PROVE  Bound(d, i) <=> \/ \E n \in Names : d.leaf[n] = i
                         \/ \E h \in DOMAIN d.hier : \E n \in Names : d.hier[h].id[n] = i
  BY DEF Bound

(* One hierarchy.                                                          *)
LEMMA PushRootsKeepsIds ==
  ASSUME NEW h, "id" \in DOMAIN h, NEW is
  PROVE  "id" \in DOMAIN PushRoots(h, is) /\ PushRoots(h, is).id = h.id
  BY DEF PushRoots

LEMMA RegisterRenames ==
  ASSUME NEW h, HierarchyShape(h), NEW n \in Names, NEW i \in Nat
  PROVE  /\ Renames(h, RegisterAggregate(h, n, i), {i})
         /\ Renames(h, RegisterAlias(h, n, i), {i})
<1>1. /\ "id" \in DOMAIN RegisterAggregate(h, n, i)
      /\ RegisterAggregate(h, n, i).id = [h.id EXCEPT ![n] = i]
  <2>1. PICK g : g = [h EXCEPT !.id[n] = i, !.title[i] = n]
    OBVIOUS
  <2>2. "id" \in DOMAIN g /\ g.id = [h.id EXCEPT ![n] = i]
    BY <2>1 DEF HierarchyShape
  <2>3. RegisterAggregate(h, n, i) = PushRoots(g, <<i>>)
    BY <2>1 DEF RegisterAggregate
  <2> QED BY <2>2, <2>3, PushRootsKeepsIds
<1>2. /\ "id" \in DOMAIN RegisterAlias(h, n, i)
      /\ RegisterAlias(h, n, i).id \in {h.id, [h.id EXCEPT ![n] = i]}
  <2>1. PICK g : g = [h EXCEPT !.id[n] = i, !.dirty = TRUE]
    OBVIOUS
  <2>2. "id" \in DOMAIN g /\ g.id = [h.id EXCEPT ![n] = i]
    BY <2>1 DEF HierarchyShape
  <2>3. RegisterAlias(h, n, i) \in {h, PushRoots(g, <<i>>)}
    BY <2>1 DEF RegisterAlias
  <2> QED BY <2>2, <2>3, PushRootsKeepsIds DEF HierarchyShape
<1>3. [h.id EXCEPT ![n] = i] \in [Names -> Nat]
  BY DEF HierarchyShape
<1>4. Renames(h, RegisterAggregate(h, n, i), {i})
  BY <1>1, <1>3 DEF Renames, HierarchyShape
<1>5. Renames(h, RegisterAlias(h, n, i), {i})
  BY <1>2, <1>3 DEF Renames, HierarchyShape
<1> QED BY <1>4, <1>5

LEMMA ForgetRenames ==
  ASSUME NEW h, HierarchyShape(h), NEW i
  PROVE  Renames(h, ForgetAlias(h, i), {}) /\ Renames(h, Forget(h, i), {})
<1>1. Unname(h.id, i) \in [Names -> Nat] /\ \A n \in Names : Unname(h.id, i)[n] \in {h.id[n], NoId}
  BY DEF Unname, NoId, HierarchyShape
<1>2. "id" \in DOMAIN ForgetAlias(h, i) /\ ForgetAlias(h, i).id \in {h.id, Unname(h.id, i)}
  BY DEF ForgetAlias, HierarchyShape
<1>3. "id" \in DOMAIN Forget(h, i) /\ Forget(h, i).id = Unname(h.id, i)
  <2> DEFINE orphans == Without(h.kids[i], i)
  <2>1. PICK g : g = [h EXCEPT !.id = Unname(@, i),
                               !.title[i] = NoName,
                               !.kids = [j \in Ids |-> IF j = i THEN <<>>
                                                    ELSE IF j = h.parent[i] THEN Without(@[j], i)
                                                    ELSE @[j]],
                               !.parent = [j \in Ids |-> IF j \in {i} \cup Range(orphans)
                                                         THEN NoId ELSE @[j]],
                               !.roots = Without(@, i),
                               !.dirty = TRUE]
    OBVIOUS
  <2>2. "id" \in DOMAIN g /\ g.id = Unname(h.id, i)
    BY <2>1 DEF HierarchyShape
  <2>3. Forget(h, i) = PushRoots(g, orphans)
    BY <2>1 DEF Forget
  <2> QED BY <2>2, <2>3, PushRootsKeepsIds
<1>4. Renames(h, ForgetAlias(h, i), {})
  BY <1>1, <1>2 DEF Renames, HierarchyShape
<1>5. Renames(h, Forget(h, i), {})
  BY <1>1, <1>3 DEF Renames, HierarchyShape
<1> QED BY <1>4, <1>5

LEMMA OthersRename ==
  ASSUME NEW h, HierarchyShape(h), NEW p, NEW c, NEW s
  PROVE  /\ Renames(h, Link(h, p, c), {})
         /\ Renames(h, Unlink(h, p, c), {})
         /\ Renames(h, Reorder(h, c, s), {})
         /\ Renames(h, Refreshed(h), {})
<1>1. "id" \in DOMAIN Link(h, p, c) /\ Link(h, p, c).id = h.id
  BY DEF Link, HierarchyShape
<1>2. "id" \in DOMAIN Unlink(h, p, c) /\ Unlink(h, p, c).id = h.id
  <2>1. PICK g : g = [h EXCEPT !.kids[p] = Without(@, c), !.parent[c] = NoId, !.dirty = TRUE]
    OBVIOUS
  <2>2. "id" \in DOMAIN g /\ g.id = h.id
    BY <2>1 DEF HierarchyShape
  <2>3. Unlink(h, p, c) = PushRoots(g, <<c>>)
    BY <2>1 DEF Unlink
  <2> QED BY <2>2, <2>3, PushRootsKeepsIds
<1>3. "id" \in DOMAIN Reorder(h, c, s) /\ Reorder(h, c, s).id = h.id
  BY DEF Reorder, HierarchyShape
<1>4. "id" \in DOMAIN Refreshed(h) /\ Refreshed(h).id = h.id
  BY DEF Refreshed, HierarchyShape
<1> QED BY <1>1, <1>2, <1>3, <1>4 DEF Renames, HierarchyShape

-------------------------------------------------------------------------------
(* One dimension.                                                          *)
Fields(d) == {"leaf", "next", "hier"} \subseteq DOMAIN d

LEMMA GrowsIsTransitive ==
  ASSUME NEW d, NEW e, NEW f, Shape(d), Grows(d, e), Grows(e, f)
  PROVE  Grows(d, f)
<1>1. d.next \in Nat /\ e.next \in Nat /\ f.next \in Nat /\ d.next <= e.next /\ e.next <= f.next
  BY DEF Grows, Shape
<1>2. ASSUME NEW i \in Nat, i # NoId, Bound(e, i) \/ i >= e.next
      PROVE  Bound(d, i) \/ i >= d.next
  BY <1>1, <1>2, BoundMeans DEF Grows
<1>3. Shape(f)
  BY DEF Grows
<1>4. /\ \A n \in Names : f.leaf[n] \in Nat
      /\ \A h \in DOMAIN f.hier : \A n \in Names : f.hier[h].id[n] \in Nat
  BY <1>3 DEF Shape, HierarchyShape
<1> QED BY <1>1, <1>2, <1>3, <1>4 DEF Grows

(* An edit that puts edited hierarchies in the place of the old ones.      *)
LEMMA HierarchiesGrow ==
  ASSUME NEW d, Shape(d), NEW e, NEW new, Fields(e),
         e.leaf \in [Names -> Nat], e.next \in Nat, e.next >= d.next,
         \A n \in Names : e.leaf[n] \in {d.leaf[n], NoId} \cup new,
         \A h \in DOMAIN e.hier : h \in DOMAIN d.hier /\ Renames(d.hier[h], e.hier[h], new),
         \A i \in new : Bound(d, i) \/ i >= d.next
  PROVE  Grows(d, e)
<1>1. Shape(e)
  BY DEF Fields, Shape, Renames
<1>2. \A n \in Names : Bound(d, d.leaf[n])
  BY BoundMeans
<1>3. \A h \in DOMAIN d.hier : \A n \in Names : Bound(d, d.hier[h].id[n])
  BY BoundMeans
<1> QED BY <1>1, <1>2, <1>3 DEF Grows, Renames

LEMMA SameGrows ==
  ASSUME NEW d, Shape(d), NEW e, Fields(e), e.leaf = d.leaf, e.next = d.next, e.hier = d.hier
  PROVE  Grows(d, e)
<1>1. \A h \in DOMAIN e.hier : h \in DOMAIN d.hier /\ Renames(d.hier[h], e.hier[h], {})
  BY DEF Shape, Renames
<1> QED BY <1>1, HierarchiesGrow DEF Shape

(* A parent that lost its children changes its type only.                  *)
LEMMA DowngradedGrows ==
  ASSUME NEW d, Shape(d), NEW h, NEW i
  PROVE  Grows(d, Downgraded(d, h, i))
<1>1. LET e == Downgraded(d, h, i)
      IN  Fields(e) /\ e.leaf = d.leaf /\ e.next = d.next /\ e.hier = d.hier
  BY DEF Downgraded, Shape, Fields
<1> QED BY <1>1, SameGrows

(* An edit of one hierarchy that names nothing.                            *)
LEMMA OneHierarchyGrows ==
  ASSUME NEW d, Shape(d), NEW h \in DOMAIN d.hier, NEW g, Renames(d.hier[h], g, {}),
         NEW e, Fields(e), e.leaf = d.leaf, e.next = d.next, e.hier = [d.hier EXCEPT ![h] = g]
  PROVE  Grows(d, e)
<1>1. \A k \in DOMAIN e.hier : k \in DOMAIN d.hier /\ Renames(d.hier[k], e.hier[k], {})
  BY DEF Shape, Renames
<1> QED BY <1>1, HierarchiesGrow DEF Shape

(* add_leaf numbers a new name with next_id.                               *)
LEMMA AddLeafGrows ==
  ASSUME NEW d, Shape(d), NEW n \in Names
  PROVE  Grows(d, AddLeaf(d, n)) /\ DOMAIN AddLeaf(d, n).hier = DOMAIN d.hier
<1>1. CASE d.leaf[n] # NoId
  <2>1. AddLeaf(d, n) = d
    BY <1>1 DEF AddLeaf
  <2> QED BY <2>1, SameGrows DEF Shape, Fields
<1>2. CASE d.leaf[n] = NoId
  <2>1. PICK e : e = AddLeaf(d, n)
    OBVIOUS
  <2>2. /\ Fields(e)
        /\ e.leaf = [d.leaf EXCEPT ![n] = d.next]
        /\ e.next = d.next + 1
        /\ e.hier = [h \in DOMAIN d.hier |-> RegisterAlias(d.hier[h], n, d.next)]
    BY <2>1, <1>2 DEF AddLeaf, Shape, Fields
  <2>3. \A h \in DOMAIN e.hier : h \in DOMAIN d.hier /\ Renames(d.hier[h], e.hier[h], {d.next})
    BY <2>2, RegisterRenames DEF Shape
  <2>4. /\ e.leaf \in [Names -> Nat] /\ e.next \in Nat /\ e.next >= d.next
        /\ \A m \in Names : e.leaf[m] \in {d.leaf[m], NoId} \cup {d.next}
        /\ \A i \in {d.next} : Bound(d, i) \/ i >= d.next
    BY <2>2 DEF Shape
  <2>5. Grows(d, e)
    <3> DEFINE new == {d.next}
    <3>1. /\ \A m \in Names : e.leaf[m] \in {d.leaf[m], NoId} \cup new
          /\ \A h \in DOMAIN e.hier : h \in DOMAIN d.hier /\ Renames(d.hier[h], e.hier[h], new)
          /\ \A i \in new : Bound(d, i) \/ i >= d.next
      BY <2>3, <2>4
    <3> HIDE DEF new
    <3> QED BY <2>2, <2>4, <3>1, HierarchiesGrow
  <2> QED BY <2>1, <2>2, <2>5
<1> QED BY <1>1, <1>2

(* A promoted leaf keeps its id.                                           *)
LEMMA PromoteGrows ==
  ASSUME NEW d, Shape(d), NEW h \in DOMAIN d.hier, NEW n \in Names
  PROVE  Grows(d, Promote(d, h, n)) /\ DOMAIN Promote(d, h, n).hier = DOMAIN d.hier
<1> DEFINE i == d.leaf[n]
           unaliased == [g \in DOMAIN d.hier |-> ForgetAlias(d.hier[g], i)]
<1>1. PICK e : e = Promote(d, h, n)
  OBVIOUS
<1>2. /\ Fields(e)
      /\ e.leaf = [d.leaf EXCEPT ![n] = NoId]
      /\ e.next = d.next
      /\ e.hier = [unaliased EXCEPT ![h] = RegisterAggregate(@, n, i)]
  BY <1>1 DEF Promote, Shape, Fields
<1>3. i \in Nat /\ Bound(d, i)
  BY BoundMeans DEF Shape
<1>4. ASSUME NEW g \in DOMAIN e.hier
      PROVE  g \in DOMAIN d.hier /\ Renames(d.hier[g], e.hier[g], {i})
  <2>1. g \in DOMAIN d.hier /\ HierarchyShape(d.hier[g])
    BY <1>2 DEF Shape
  <2>2. PICK u : u = ForgetAlias(d.hier[g], i)
    OBVIOUS
  <2>3. Renames(d.hier[g], u, {}) /\ HierarchyShape(u)
    BY <2>1, <2>2, ForgetRenames DEF Renames
  <2>4. Renames(u, RegisterAggregate(u, n, i), {i})
    BY <1>3, <2>3, RegisterRenames
  <2>5. e.hier[g] \in {u, RegisterAggregate(u, n, i)}
    BY <1>2, <2>1, <2>2
  <2> QED BY <2>1, <2>3, <2>4, <2>5 DEF Renames
<1>5. /\ e.leaf \in [Names -> Nat] /\ e.next \in Nat /\ e.next >= d.next
      /\ \A m \in Names : e.leaf[m] \in {d.leaf[m], NoId} \cup {i}
  BY <1>2 DEF Shape, NoId
<1>6. Grows(d, e)
  BY <1>2, <1>3, <1>4, <1>5, HierarchiesGrow
<1> QED BY <1>1, <1>2, <1>6

LEMMA AddConsolidatedGrows ==
  ASSUME NEW d, Shape(d), NEW h \in DOMAIN d.hier, NEW n \in Names
  PROVE  /\ Grows(d, AddConsolidated(d, h, n))
         /\ DOMAIN AddConsolidated(d, h, n).hier = DOMAIN d.hier
<1>1. CASE IsConsolidated(d, d.hier[h].id[n])
  <2>1. AddConsolidated(d, h, n) = d
    BY <1>1 DEF AddConsolidated
  <2> QED BY <2>1, SameGrows DEF Shape, Fields
<1>2. CASE ~IsConsolidated(d, d.hier[h].id[n]) /\ d.leaf[n] # NoId
  <2>1. AddConsolidated(d, h, n) = Promote(d, h, n)
    BY <1>2 DEF AddConsolidated
  <2> QED BY <2>1, PromoteGrows
<1>3. CASE ~IsConsolidated(d, d.hier[h].id[n]) /\ d.leaf[n] = NoId
  <2>0. PICK e : e = [d EXCEPT !.type[d.next] = "Consolidated",
                               !.next = @ + 1,
                               !.hier[h] = RegisterAggregate(@, n, d.next)]
    OBVIOUS
  <2>1. AddConsolidated(d, h, n) = e
    BY <2>0, <1>3 DEF AddConsolidated
  <2>2. /\ Fields(e)
        /\ e.leaf = d.leaf
        /\ e.next = d.next + 1
        /\ e.hier = [d.hier EXCEPT ![h] = RegisterAggregate(@, n, d.next)]
    <3>1. Fields(e)
      BY <2>0 DEF Shape, Fields
    <3>2. e.leaf = d.leaf
      BY <2>0 DEF Shape
    <3>3. e.next = d.next + 1
      BY <2>0 DEF Shape
    <3>4. e.hier = [d.hier EXCEPT ![h] = RegisterAggregate(@, n, d.next)]
      BY <2>0 DEF Shape
    <3> QED BY <3>1, <3>2, <3>3, <3>4
  <2>3. ASSUME NEW g \in DOMAIN e.hier
        PROVE  g \in DOMAIN d.hier /\ Renames(d.hier[g], e.hier[g], {d.next})
    <3>1. g \in DOMAIN d.hier /\ HierarchyShape(d.hier[g]) /\ d.next \in Nat
      BY <2>2 DEF Shape
    <3>2. Renames(d.hier[g], RegisterAggregate(d.hier[g], n, d.next), {d.next})
      BY <3>1, RegisterRenames
    <3>3. Renames(d.hier[g], d.hier[g], {d.next})
      BY <3>1 DEF Renames
    <3>4. e.hier[g] \in {d.hier[g], RegisterAggregate(d.hier[g], n, d.next)}
      BY <2>2, <3>1
    <3> QED BY <3>1, <3>2, <3>3, <3>4
  <2>4. /\ e.leaf \in [Names -> Nat] /\ e.next \in Nat /\ e.next >= d.next
        /\ \A i \in {d.next} : i >= d.next
    BY <2>2 DEF Shape
  <2>5. Grows(d, e)
    BY <2>2, <2>3, <2>4, HierarchiesGrow
  <2> QED BY <2>1, <2>2, <2>5
<1> QED BY <1>1, <1>2, <1>3

(* add_component: perhaps a new parent, then perhaps a new child.          *)
LEMMA AddComponentGrows ==
  ASSUME NEW d, Shape(d), NEW h \in DOMAIN d.hier, NEW p \in Names, NEW c \in Names
  PROVE  Grows(d, AddComponent(d, h, p, c)) /\ DOMAIN AddComponent(d, h, p, c).hier = DOMAIN d.hier
<1>1. PICK a : a = AddConsolidated(d, h, p)
  OBVIOUS
<1>2. Grows(d, a) /\ Shape(a) /\ h \in DOMAIN a.hier /\ DOMAIN a.hier = DOMAIN d.hier
  BY <1>1, AddConsolidatedGrows DEF Grows
<1>3. PICK b : b = IF IsConsolidated(a, a.hier[h].id[c]) THEN a ELSE AddLeaf(a, c)
  OBVIOUS
<1>4. Grows(a, b) /\ Shape(b) /\ h \in DOMAIN b.hier /\ DOMAIN b.hier = DOMAIN d.hier
  <2>1. CASE b = a
    BY <2>1, <1>2, SameGrows DEF Shape, Fields
  <2>2. CASE b = AddLeaf(a, c)
    BY <2>2, <1>2, AddLeafGrows DEF Grows
  <2> QED BY <1>3, <2>1, <2>2
<1>5. PICK x, y, z : AddComponent(d, h, p, c) = Downgraded([b EXCEPT !.hier[h] = Link(@, x, y)], h, z)
  <2>1. PICK x, y, old : /\ x = a.hier[h].id[p]
                         /\ y = IF IsConsolidated(a, a.hier[h].id[c]) THEN a.hier[h].id[c] ELSE b.leaf[c]
                         /\ old = b.hier[h].parent[y]
    OBVIOUS
  <2>2. AddComponent(d, h, p, c) =
            Downgraded([b EXCEPT !.hier[h] = Link(@, x, y)], h, IF old = x THEN NoId ELSE old)
    BY <1>1, <1>3, <2>1 DEF AddComponent
  <2> QED BY <2>2
<1>6. PICK e : e = [b EXCEPT !.hier[h] = Link(@, x, y)]
  OBVIOUS
<1>7. Fields(e) /\ e.leaf = b.leaf /\ e.next = b.next /\ e.hier = [b.hier EXCEPT ![h] = Link(@, x, y)]
  BY <1>6, <1>4 DEF Shape, Fields
<1>8. Renames(b.hier[h], Link(b.hier[h], x, y), {})
  BY <1>4, OthersRename DEF Shape
<1>9. Grows(b, e) /\ Shape(e)
  <2>1. PICK g : g = Link(b.hier[h], x, y)
    OBVIOUS
  <2>2. Fields(e) /\ e.leaf = b.leaf /\ e.next = b.next /\ e.hier = [b.hier EXCEPT ![h] = g]
    BY <1>7, <2>1
  <2>3. Grows(b, e)
    BY <1>4, <1>8, <2>1, <2>2, OneHierarchyGrows
  <2> QED BY <2>3 DEF Grows
<1>10. Grows(e, Downgraded(e, h, z))
  BY <1>9, DowngradedGrows
<1>11. Grows(d, b) /\ Grows(d, e)
  BY <1>2, <1>4, <1>9, GrowsIsTransitive
<1>12. DOMAIN Downgraded(e, h, z).hier = DOMAIN d.hier
  <2>1. DOMAIN e.hier = DOMAIN d.hier
    BY <1>4, <1>7
  <2>2. Downgraded(e, h, z).hier = e.hier
    BY <1>9 DEF Downgraded, Shape
  <2> QED BY <2>1, <2>2
<1> QED BY <1>5, <1>6, <1>10, <1>11, <1>12, GrowsIsTransitive

LEMMA RemoveComponentGrows ==
  ASSUME NEW d, Shape(d), NEW h \in DOMAIN d.hier, NEW p \in Names, NEW c \in Names
  PROVE  Grows(d, RemoveComponent(d, h, p, c))
<1>1. PICK x, y : x = d.hier[h].id[p] /\ y = d.hier[h].id[c]
  OBVIOUS
<1>2. PICK e : e = [d EXCEPT !.hier[h] = Unlink(@, x, y)]
  OBVIOUS
<1>3. RemoveComponent(d, h, p, c) = Downgraded(e, h, x)
  BY <1>1, <1>2 DEF RemoveComponent
<1>4. Fields(e) /\ e.leaf = d.leaf /\ e.next = d.next /\ e.hier = [d.hier EXCEPT ![h] = Unlink(@, x, y)]
  BY <1>2 DEF Shape, Fields
<1>5. Renames(d.hier[h], Unlink(d.hier[h], x, y), {})
  BY OthersRename DEF Shape
<1>6. Grows(d, e) /\ Shape(e)
  BY <1>4, <1>5, OneHierarchyGrows DEF Grows
<1>7. Grows(e, Downgraded(e, h, x))
  BY <1>6, DowngradedGrows
<1> QED BY <1>3, <1>6, <1>7, GrowsIsTransitive

(* A deletion takes ids from names and gives none.                         *)
LEMMA DeletionGrows ==
  ASSUME NEW d, Shape(d), NEW n \in Names, NEW del \in Deletions(d, n)
  PROVE  Grows(d, del[2])
<1>1. ASSUME NEW e, Grows(d, e), NEW i PROVE Grows(d, FixDefault(e, i))
  <2>1. Shape(e)
    BY <1>1 DEF Grows
  <2>2. LET f == FixDefault(e, i)
        IN  Fields(f) /\ f.leaf = e.leaf /\ f.next = e.next /\ f.hier = e.hier
    BY <2>1 DEF FixDefault, Shape, Fields
  <2>3. Grows(e, FixDefault(e, i))
    BY <2>1, <2>2, SameGrows
  <2> QED BY <1>1, <2>3, GrowsIsTransitive
<1>2. Grows(d, DeleteLeaf(d, n))
  <2>1. PICK i : i = d.leaf[n]
    OBVIOUS
  <2>2. PICK e : e = [d EXCEPT !.leaf[n] = NoId,
                               !.type[i] = "none",
                               !.hier = [h \in DOMAIN @ |-> Forget(@[h], i)]]
    OBVIOUS
  <2>3. DeleteLeaf(d, n) = FixDefault(e, i)
    BY <2>1, <2>2 DEF DeleteLeaf
  <2>4. /\ Fields(e) /\ e.leaf = [d.leaf EXCEPT ![n] = NoId] /\ e.next = d.next
        /\ e.hier = [h \in DOMAIN d.hier |-> Forget(d.hier[h], i)]
    BY <2>2 DEF Shape, Fields
  <2>5. \A h \in DOMAIN e.hier : h \in DOMAIN d.hier /\ Renames(d.hier[h], e.hier[h], {})
    BY <2>4, ForgetRenames DEF Shape
  <2>6. /\ e.leaf \in [Names -> Nat] /\ e.next \in Nat /\ e.next >= d.next
        /\ \A m \in Names : e.leaf[m] \in {d.leaf[m], NoId}
    BY <2>4 DEF Shape, NoId
  <2>7. Grows(d, e)
    <3>1. PICK new : new = {}
      OBVIOUS
    <3>2. \A m \in Names : e.leaf[m] \in {d.leaf[m], NoId} \cup new
      BY <2>6
    <3>3. \A h \in DOMAIN e.hier : h \in DOMAIN d.hier /\ Renames(d.hier[h], e.hier[h], new)
      BY <2>5, <3>1
    <3>4. \A j \in new : Bound(d, j) \/ j >= d.next
      BY <3>1
    <3> QED BY <2>4, <2>6, <3>2, <3>3, <3>4, HierarchiesGrow
  <2> QED BY <2>3, <2>7, <1>1
<1>3. ASSUME NEW h \in DOMAIN d.hier PROVE Grows(d, DeleteAggregate(d, h, n))
  <2>1. PICK g, t, i : /\ g = Forget(d.hier[h], i)
                       /\ DeleteAggregate(d, h, n) = FixDefault([d EXCEPT !.hier[h] = g, !.type = t], i)
    BY DEF DeleteAggregate
  <2>2. PICK e : e = [d EXCEPT !.hier[h] = g, !.type = t]
    OBVIOUS
  <2>3. Fields(e) /\ e.leaf = d.leaf /\ e.next = d.next /\ e.hier = [d.hier EXCEPT ![h] = g]
    BY <2>2 DEF Shape, Fields
  <2>4. Renames(d.hier[h], g, {})
    BY <2>1, ForgetRenames DEF Shape
  <2>5. Grows(d, e)
    BY <2>3, <2>4, OneHierarchyGrows
  <2> QED BY <2>1, <2>2, <2>5, <1>1
<1>4. CASE d.leaf[n] # NoId
  <2>1. del[2] = DeleteLeaf(d, n)
    BY <1>4 DEF Deletions
  <2> QED BY <2>1, <1>2
<1>5. CASE d.leaf[n] = NoId
  <2>1. \E h \in DOMAIN d.hier : del[2] = DeleteAggregate(d, h, n)
    BY <1>5 DEF Deletions
  <2> QED BY <2>1, <1>3
<1> QED BY <1>4, <1>5

(* A new hierarchy knows the leaves of the bank by their ids.              *)
LEMMA CreateHierarchyGrows ==
  ASSUME NEW d, Shape(d), NEW h, NEW leaves
  PROVE  Grows(d, CreateHierarchy(d, h, leaves))
<1>1. PICK e : e = CreateHierarchy(d, h, leaves)
  OBVIOUS
<1>2. PICK born : born = [EmptyHierarchy EXCEPT !.id = d.leaf, !.roots = leaves]
  OBVIOUS
<1>3. HierarchyShape(born) /\ born.id = d.leaf
  BY <1>2 DEF EmptyHierarchy, HierarchyShape, Shape
<1>4. /\ Fields(e) /\ e.leaf = d.leaf /\ e.next = d.next
      /\ e.hier = [g \in DOMAIN d.hier \cup {h} |-> IF g = h THEN Refreshed(born) ELSE d.hier[g]]
  BY <1>1, <1>2 DEF CreateHierarchy, Shape, Fields
<1>5. HierarchyShape(Refreshed(born)) /\ Refreshed(born).id = d.leaf
  BY <1>3 DEF Refreshed, HierarchyShape
<1>6. Shape(e)
  BY <1>4, <1>5 DEF Shape, Fields
<1>7. \A n \in Names : Bound(d, d.leaf[n])
  BY BoundMeans
<1>8. \A g \in DOMAIN d.hier : \A n \in Names : Bound(d, d.hier[g].id[n])
  BY BoundMeans
<1>9. Grows(d, e)
  BY <1>4, <1>5, <1>6, <1>7, <1>8 DEF Grows, Shape
<1> QED BY <1>1, <1>9

-------------------------------------------------------------------------------
(* Every operation.                                                        *)
LEMMA MoveGrows ==
  ASSUME Shape(dim), NEW h \in DOMAIN dim.hier, NEW n \in Names, NEW m \in Names,
         MoveMemberBefore(h, n, m) \/ MoveMemberToFront(h, n)
  PROVE  Grows(dim, dim')
<1>1. PICK i, s : dim' = [dim EXCEPT !.hier[h] = Reorder(dim.hier[h], i, s)]
  BY DEF MoveMemberBefore, MoveMemberToFront
<1>2. PICK g : g = Reorder(dim.hier[h], i, s)
  OBVIOUS
<1>3. /\ Fields(dim') /\ dim'.leaf = dim.leaf /\ dim'.next = dim.next
      /\ dim'.hier = [dim.hier EXCEPT ![h] = g]
  BY <1>1, <1>2 DEF Shape, Fields
<1>4. Renames(dim.hier[h], g, {})
  BY <1>2, OthersRename DEF Shape
<1> QED BY <1>3, <1>4, OneHierarchyGrows

LEMMA RefreshGrows ==
  ASSUME Shape(dim), EnsureDisplayOrder \/ Reload
  PROVE  Grows(dim, dim')
<1>1. /\ Fields(dim') /\ dim'.leaf = dim.leaf /\ dim'.next = dim.next
      /\ DOMAIN dim'.hier = DOMAIN dim.hier
      /\ \A h \in DOMAIN dim.hier : dim'.hier[h] \in {dim.hier[h], Refreshed(dim.hier[h])}
  BY DEF EnsureDisplayOrder, Reload, Shape, Fields
<1>2. \A h \in DOMAIN dim'.hier : h \in DOMAIN dim.hier /\ Renames(dim.hier[h], dim'.hier[h], {})
  BY <1>1, OthersRename DEF Shape, Renames
<1> QED BY <1>1, <1>2, HierarchiesGrow DEF Shape

LEMMA InitShape == Init => Shape(dim)
  BY DEF Init, EmptyDimension, EmptyHierarchy, Shape, HierarchyShape, NoId

LEMMA StepGrows == Shape(dim) /\ [Next]_vars => Grows(dim, dim')
<1> SUFFICES ASSUME Shape(dim), [Next]_vars PROVE Grows(dim, dim')
  OBVIOUS
<1>1. ASSUME NEW n \in Names, AddLeafMember(n) \/ DeleteMember(n) PROVE Grows(dim, dim')
  BY <1>1, AddLeafGrows, DeletionGrows DEF AddLeafMember, DeleteMember
<1>2. ASSUME NEW h \in DOMAIN dim.hier, NEW p \in Names, NEW c \in Names,
             RollUp(h, p, c) \/ Detach(h, p, c)
      PROVE  Grows(dim, dim')
  BY <1>2, AddComponentGrows, RemoveComponentGrows DEF RollUp, Detach
<1>3. ASSUME NEW h \in DOMAIN dim.hier, NEW n \in Names, NEW m \in Names,
             MoveMemberBefore(h, n, m) \/ MoveMemberToFront(h, n)
      PROVE  Grows(dim, dim')
  BY <1>3, MoveGrows
<1>4. ASSUME NEW h \in Others, AddHierarchy(h) PROVE Grows(dim, dim')
  BY <1>4, CreateHierarchyGrows DEF AddHierarchy
<1>5. CASE EnsureDisplayOrder \/ Reload
  BY <1>5, RefreshGrows
<1>6. CASE UNCHANGED vars
  BY <1>6, SameGrows DEF vars, Shape, Fields
<1> QED BY <1>1, <1>2, <1>3, <1>4, <1>5, <1>6 DEF Next

(* No id that was handed out and has no name is ever given a name again,   *)
(* so that a deleted member's cells, wherever they were, stay no one's.    *)
THEOREM IdsAreNotReused == Spec => DeletedIdsStayDead
<1>1. Shape(dim) /\ [Next]_vars => Shape(dim)'
  BY StepGrows DEF Grows
<1>2. Shape(dim) /\ [Next]_vars => [\A i \in 1..(dim.next - 1) : ~Bound(dim, i) => ~Bound(dim', i)]_vars
  <2> SUFFICES ASSUME Shape(dim), [Next]_vars, NEW i \in 1..(dim.next - 1), Bound(dim', i)
               PROVE  Bound(dim, i)
    OBVIOUS
  <2>1. Grows(dim, dim')
    BY StepGrows
  <2>2. i # NoId /\ ~(i >= dim.next)
    BY DEF NoId, Shape
  <2> QED BY <2>1, <2>2, BoundMeans DEF Grows
<1> QED BY <1>1, <1>2, InitShape, PTL DEF Spec, DeletedIdsStayDead

-------------------------------------------------------------------------------
(* Lists of ids, and induction on their length.                            *)

LEMMA SetInduction ==
  ASSUME NEW S, 0 \in S, \A n \in Nat : n \in S => n + 1 \in S
  PROVE  Nat \subseteq S
<1> SUFFICES ASSUME Nat \ S # {} PROVE FALSE
  OBVIOUS
<1>1. IsWellFoundedOn({ss \in Nat \X Nat : ss[1] < ss[2]}, Nat)
  BY NatLessThanWellFounded DEF OpToRel
<1>2. PICK n \in Nat \ S : \A m \in Nat \ S : ~(<<m, n>> \in {ss \in Nat \X Nat : ss[1] < ss[2]})
  BY <1>1, WFMin
<1>3. n - 1 \in Nat /\ n - 1 < n
  BY <1>2
<1>4. n - 1 \in S
  BY <1>2, <1>3
<1> QED BY <1>3, <1>4

LEMMA LeastExists ==
  ASSUME NEW S, S \subseteq Nat, S # {}
  PROVE  \E n \in S : \A m \in S : n <= m
<1>1. IsWellFoundedOn({ss \in Nat \X Nat : ss[1] < ss[2]}, Nat)
  BY NatLessThanWellFounded DEF OpToRel
<1>2. PICK n \in S : \A m \in S : ~(<<m, n>> \in {ss \in Nat \X Nat : ss[1] < ss[2]})
  BY <1>1, WFMin
<1>3. ASSUME NEW m \in S PROVE n <= m
  <2>1. m \in Nat /\ n \in Nat
    OBVIOUS
  <2>2. ~(m < n)
    BY <1>2, <2>1
  <2> QED BY <2>1, <2>2
<1> QED BY <1>3

LEMMA ListIs ==
  ASSUME NEW s \in Seq(Ids)
  PROVE  /\ Len(s) \in Nat /\ DOMAIN s = 1..Len(s) /\ Range(s) \subseteq Ids
         /\ \A j \in 1..Len(s) : s[j] \in Ids /\ s[j] \in Range(s)
         /\ \A x \in Range(s) : \E j \in 1..Len(s) : s[j] = x
         /\ IsInjective(s) <=> \A j, k \in 1..Len(s) : s[j] = s[k] => j = k
         /\ Range(s) = {} <=> s = <<>>
<1>1. Len(s) \in Nat /\ DOMAIN s = 1..Len(s) /\ \A j \in 1..Len(s) : s[j] \in Ids
  BY LenProperties, ElementOfSeq
<1>2. Range(s) = {} <=> s = <<>>
  <2>1. CASE s = <<>>
    <3>1. Len(s) = 0
      BY <2>1
    <3>2. DOMAIN s = {}
      BY <1>1, <3>1
    <3> QED BY <2>1, <3>2 DEF Range
  <2>2. CASE s # <<>>
    <3>1. Len(s) # 0
      BY <2>2, EmptySeq
    <3>2. 1 \in DOMAIN s
      BY <1>1, <3>1
    <3> QED BY <2>2, <3>2 DEF Range
  <2> QED BY <2>1, <2>2
<1> QED BY <1>1, <1>2 DEF Range, IsInjective

LEMMA NoneIsList == <<>> \in Seq(Ids) /\ Range(<<>>) = {} /\ IsInjective(<<>>)
<1>1. <<>> \in Seq(Ids) /\ Len(<<>>) = 0
  BY EmptySeq
<1> QED BY <1>1, ListIs

LEMMA OneIsList ==
  ASSUME NEW x \in Ids
  PROVE  <<x>> \in Seq(Ids) /\ Range(<<x>>) = {x} /\ IsInjective(<<x>>)
<1>1. PICK s : s = <<x>>
  OBVIOUS
<1>2. s \in Seq(Ids) /\ Len(s) = 1 /\ s[1] = x
  BY <1>1
<1>3. \A j \in 1..Len(s) : j = 1
  BY <1>2
<1>4. 1 \in 1..Len(s)
  BY <1>2
<1>5. Range(s) = {x}
  BY <1>2, <1>3, <1>4, ListIs
<1>6. IsInjective(s)
  BY <1>2, <1>3, ListIs
<1> QED BY <1>1, <1>2, <1>5, <1>6

LEMMA AppendIs ==
  ASSUME NEW s \in Seq(Ids), NEW x \in Ids
  PROVE  /\ Append(s, x) \in Seq(Ids) /\ Range(Append(s, x)) = Range(s) \cup {x}
         /\ IsInjective(s) /\ x \notin Range(s) => IsInjective(Append(s, x))
<1>1. PICK t : t = Append(s, x)
  OBVIOUS
<1>2. /\ t \in Seq(Ids) /\ Len(t) = Len(s) + 1 /\ t[Len(s) + 1] = x
      /\ \A j \in 1..Len(s) : t[j] = s[j]
  BY <1>1, AppendProperties
<1>3. Len(s) \in Nat
  BY ListIs
<1>4. \A j \in 1..Len(t) : j \in 1..Len(s) \/ j = Len(s) + 1
  BY <1>2, <1>3
<1>5. 1..Len(s) \subseteq 1..Len(t) /\ Len(s) + 1 \in 1..Len(t)
  BY <1>2, <1>3
<1>6. Range(t) \subseteq Range(s) \cup {x}
  BY <1>2, <1>4, ListIs
<1>7. Range(s) \cup {x} \subseteq Range(t)
  <2>1. x \in Range(t)
    BY <1>2, <1>5, ListIs
  <2>2. ASSUME NEW y \in Range(s) PROVE y \in Range(t)
    <3>1. PICK j \in 1..Len(s) : s[j] = y
      BY ListIs
    <3> QED BY <1>2, <1>5, <3>1, ListIs
  <2> QED BY <2>1, <2>2
<1>8. ASSUME IsInjective(s), x \notin Range(s) PROVE IsInjective(t)
  <2>1. \A j, k \in 1..Len(s) : s[j] = s[k] => j = k
    BY <1>8, ListIs
  <2>2. \A j \in 1..Len(s) : s[j] # x
    BY <1>8, ListIs
  <2>3. \A j, k \in 1..Len(t) : t[j] = t[k] => j = k
    BY <1>2, <1>4, <2>1, <2>2
  <2> QED BY <1>2, <2>3, ListIs
<1> QED BY <1>1, <1>2, <1>6, <1>7, <1>8

LEMMA ConcatIs ==
  ASSUME NEW s \in Seq(Ids), NEW t \in Seq(Ids)
  PROVE  /\ s \o t \in Seq(Ids) /\ Range(s \o t) = Range(s) \cup Range(t)
         /\ IsInjective(s) /\ IsInjective(t) /\ Range(s) \cap Range(t) = {}
                => IsInjective(s \o t)
<1>1. PICK u : u = s \o t
  OBVIOUS
<1>2. /\ u \in Seq(Ids) /\ Len(u) = Len(s) + Len(t)
      /\ \A i \in 1..(Len(s) + Len(t)) : u[i] = IF i <= Len(s) THEN s[i] ELSE t[i - Len(s)]
  BY <1>1, ConcatProperties
<1>3. Len(s) \in Nat /\ Len(t) \in Nat
  BY ListIs
<1>4. ASSUME NEW i \in 1..Len(u)
      PROVE  \/ i <= Len(s) /\ i \in 1..Len(s) /\ u[i] = s[i]
             \/ ~(i <= Len(s)) /\ i - Len(s) \in 1..Len(t) /\ u[i] = t[i - Len(s)]
  BY <1>2, <1>3
<1>5. ASSUME NEW x \in Range(u) PROVE x \in Range(s) \cup Range(t)
  <2>1. PICK i \in 1..Len(u) : u[i] = x
    BY <1>2, ListIs
  <2>2. CASE i \in 1..Len(s) /\ u[i] = s[i]
    BY <2>1, <2>2, ListIs
  <2>3. CASE i - Len(s) \in 1..Len(t) /\ u[i] = t[i - Len(s)]
    BY <2>1, <2>3, ListIs
  <2> QED BY <1>4, <2>2, <2>3
<1>6. ASSUME NEW x \in Range(s) PROVE x \in Range(u)
  <2>1. PICK i \in 1..Len(s) : s[i] = x
    BY ListIs
  <2>2. i \in 1..Len(u) /\ u[i] = x
    BY <1>2, <1>3, <2>1
  <2> QED BY <1>2, <2>2, ListIs
<1>7. ASSUME NEW x \in Range(t) PROVE x \in Range(u)
  <2>1. PICK i \in 1..Len(t) : t[i] = x
    BY ListIs
  <2>2. PICK j : j = i + Len(s)
    OBVIOUS
  <2>3. j \in 1..(Len(s) + Len(t)) /\ ~(j <= Len(s)) /\ j - Len(s) = i
    BY <1>3, <2>2
  <2>4. j \in 1..Len(u) /\ u[j] = x
    BY <1>2, <2>1, <2>3
  <2> QED BY <1>2, <2>4, ListIs
<1>8. ASSUME IsInjective(s), IsInjective(t), Range(s) \cap Range(t) = {} PROVE IsInjective(u)
  <2>1. /\ \A j, k \in 1..Len(s) : s[j] = s[k] => j = k
        /\ \A j, k \in 1..Len(t) : t[j] = t[k] => j = k
        /\ \A j \in 1..Len(s), k \in 1..Len(t) : s[j] # t[k]
    BY <1>8, ListIs
  <2>2. ASSUME NEW j \in 1..Len(u), NEW k \in 1..Len(u), u[j] = u[k] PROVE j = k
    <3>1. CASE j <= Len(s) /\ k <= Len(s)
      BY <1>4, <2>1, <2>2, <3>1
    <3>2. CASE ~(j <= Len(s)) /\ ~(k <= Len(s))
      <4>1. /\ j - Len(s) \in 1..Len(t) /\ k - Len(s) \in 1..Len(t)
            /\ t[j - Len(s)] = t[k - Len(s)]
        BY <1>4, <2>2, <3>2
      <4>2. j - Len(s) = k - Len(s)
        BY <2>1, <4>1
      <4> QED BY <1>2, <1>3, <4>2
    <3>3. CASE j <= Len(s) /\ ~(k <= Len(s))
      BY <1>4, <2>1, <2>2, <3>3
    <3>4. CASE ~(j <= Len(s)) /\ k <= Len(s)
      BY <1>4, <2>1, <2>2, <3>4
    <3> QED BY <3>1, <3>2, <3>3, <3>4
  <2> QED BY <1>2, <2>2, ListIs
<1> QED BY <1>1, <1>2, <1>5, <1>6, <1>7, <1>8

(* What Only keeps of the first m of a list.                               *)
Keeps(w, s, S, m) == w = [k \in 0..m |-> IF k = 0 THEN <<>> ELSE AppendIf(w[k - 1], s[k], S)]

LEMMA KeepsExists ==
  ASSUME NEW s, NEW S, NEW n \in Nat
  PROVE  \E w : Keeps(w, s, S, n)
<1>1. PICK T : T = {m \in Nat : \E w : Keeps(w, s, S, m)}
  OBVIOUS
<1>2. 0 \in T
  <2>1. PICK w : w = [k \in 0..0 |-> <<>>]
    OBVIOUS
  <2>2. Keeps(w, s, S, 0)
    BY <2>1 DEF Keeps
  <2> QED BY <1>1, <2>2
<1>3. ASSUME NEW m \in Nat, m \in T PROVE m + 1 \in T
  <2>1. PICK w : Keeps(w, s, S, m)
    BY <1>1, <1>3
  <2>3. PICK x : x = [k \in 0..(m + 1) |-> IF k = m + 1 THEN AppendIf(w[m], s[k], S) ELSE w[k]]
    OBVIOUS
  <2>4. \A k \in 0..(m + 1) : x[k] = IF k = 0 THEN <<>> ELSE AppendIf(x[k - 1], s[k], S)
    BY <2>1, <2>3 DEF Keeps
  <2>5. Keeps(x, s, S, m + 1)
    BY <2>3, <2>4 DEF Keeps
  <2> QED BY <1>1, <2>5
<1>4. n \in T
  BY <1>2, <1>3, SetInduction
<1> QED BY <1>1, <1>4

LEMMA OnlyIs ==
  ASSUME NEW s \in Seq(Ids), NEW S
  PROVE  /\ Only(s, S) \in Seq(Ids) /\ Range(Only(s, S)) = Range(s) \cap S
         /\ IsInjective(s) => IsInjective(Only(s, S))
<1> DEFINE w == CHOOSE kept : kept =
        [k \in 0..Len(s) |-> IF k = 0 THEN <<>> ELSE AppendIf(kept[k - 1], s[k], S)]
<1>1. Len(s) \in Nat
  BY ListIs
<1>2. Only(s, S) = w[Len(s)]
  BY DEF Only
<1>3. Keeps(w, s, S, Len(s))
  BY <1>1, KeepsExists DEF Keeps
<1> HIDE DEF w
<1> DEFINE Fine(k) == /\ w[k] \in Seq(Ids)
                      /\ Range(w[k]) = {s[j] : j \in 1..k} \cap S
                      /\ IsInjective(s) => IsInjective(w[k])
<1>4. PICK T : T = {k \in Nat : k <= Len(s) => Fine(k)}
  OBVIOUS
<1>5. 0 \in T
  <2>1. w[0] = <<>> /\ {s[j] : j \in 1..0} = {}
    BY <1>1, <1>3 DEF Keeps
  <2>2. Fine(0)
    BY <2>1, NoneIsList
  <2> QED BY <1>4, <2>2
<1>6. ASSUME NEW k \in Nat, k \in T PROVE k + 1 \in T
  <2> SUFFICES ASSUME k + 1 <= Len(s) PROVE Fine(k + 1)
    BY <1>4
  <2>1. Fine(k)
    BY <1>1, <1>4, <1>6
  <2>2. w[k + 1] = IF s[k + 1] \in S THEN Append(w[k], s[k + 1]) ELSE w[k]
    <3>1. k + 1 \in 0..Len(s) /\ k + 1 # 0 /\ (k + 1) - 1 = k
      BY <1>1
    <3>2. w[k + 1] = AppendIf(w[k], s[k + 1], S)
      BY <1>3, <3>1 DEF Keeps
    <3> QED BY <3>2 DEF AppendIf
  <2>3. {s[j] : j \in 1..(k + 1)} = {s[j] : j \in 1..k} \cup {s[k + 1]}
    <3>1. 1..(k + 1) = 1..k \cup {k + 1}
      OBVIOUS
    <3> QED BY <3>1
  <2>4. s[k + 1] \in Ids
    BY <1>1, ListIs
  <2>5. CASE s[k + 1] \in S
    <3>1. Append(w[k], s[k + 1]) \in Seq(Ids)
          /\ Range(Append(w[k], s[k + 1])) = Range(w[k]) \cup {s[k + 1]}
      BY <2>1, <2>4, AppendIs
    <3>2. ASSUME IsInjective(s) PROVE IsInjective(Append(w[k], s[k + 1]))
      <4>1. \A j \in 1..k : s[j] # s[k + 1]
        BY <1>1, <3>2, ListIs
      <4>2. s[k + 1] \notin Range(w[k])
        BY <2>1, <4>1
      <4> QED BY <2>1, <2>4, <3>2, <4>2, AppendIs
    <3>3. Range(w[k + 1]) = {s[j] : j \in 1..(k + 1)} \cap S
      BY <2>1, <2>2, <2>3, <2>5, <3>1
    <3> QED BY <2>2, <2>5, <3>1, <3>2, <3>3
  <2>6. CASE s[k + 1] \notin S
    BY <2>1, <2>2, <2>3, <2>6
  <2> QED BY <2>5, <2>6
<1>7. Fine(Len(s))
  <2>1. Len(s) \in T
    BY <1>1, <1>5, <1>6, SetInduction
  <2> QED BY <1>1, <1>4, <2>1
<1>8. {s[j] : j \in 1..Len(s)} = Range(s)
  BY ListIs
<1> QED BY <1>2, <1>7, <1>8

LEMMA WithoutIs ==
  ASSUME NEW s \in Seq(Ids), NEW x
  PROVE  /\ Without(s, x) \in Seq(Ids) /\ Range(Without(s, x)) = Range(s) \ {x}
         /\ IsInjective(s) => IsInjective(Without(s, x))
<1>1. Range(s) \subseteq Ids
  BY ListIs
<1> QED BY <1>1, OnlyIs DEF Without

LEMMA NewToIs ==
  ASSUME NEW s \in Seq(Ids), NEW is \in Seq(Ids)
  PROVE  NewTo(s, is) \in Seq(Ids) /\ Range(NewTo(s, is)) = Range(is) \ Range(s)
<1>1. Range(is) \subseteq Ids
  BY ListIs
<1> QED BY <1>1, OnlyIs DEF NewTo

LEMMA MoveBeforeIs ==
  ASSUME NEW s \in Seq(Ids), NEW x \in Ids, NEW ref
  PROVE  /\ MoveBefore(s, x, ref) \in Seq(Ids)
         /\ Range(MoveBefore(s, x, ref)) = Range(s) \cup {x}
         /\ IsInjective(s) => IsInjective(MoveBefore(s, x, ref))
<1>1. PICK rest : rest = Without(s, x)
  OBVIOUS
<1>2. /\ rest \in Seq(Ids) /\ Range(rest) = Range(s) \ {x}
      /\ IsInjective(s) => IsInjective(rest)
  BY <1>1, WithoutIs
<1>3. CASE ref \notin Range(rest)
  <2>1. MoveBefore(s, x, ref) = Append(rest, x)
    BY <1>1, <1>3 DEF MoveBefore
  <2> QED BY <1>2, <2>1, AppendIs
<1>4. CASE ref \in Range(rest)
  <2>1. PICK k : k = CHOOSE i \in DOMAIN rest : rest[i] = ref
    OBVIOUS
  <2>2. k \in 1..Len(rest) /\ Len(rest) \in Nat
    <3>1. \E j \in DOMAIN rest : rest[j] = ref
      BY <1>2, <1>4, ListIs
    <3> QED BY <1>2, <2>1, <3>1, ListIs
  <2>3. MoveBefore(s, x, ref) = SubSeq(rest, 1, k - 1) \o <<x>> \o SubSeq(rest, k, Len(rest))
    BY <1>1, <1>4, <2>1 DEF MoveBefore, InsertAt
  <2>4. PICK a, b : a = SubSeq(rest, 1, k - 1) /\ b = SubSeq(rest, k, Len(rest))
    OBVIOUS
  <2>5. \A j \in 1..Len(rest) : rest[j] \in Ids
    BY <1>2, ListIs
  <2>6. /\ a \in Seq(Ids) /\ Len(a) = k - 1
        /\ \A j \in 1..(k - 1) : a[j] = rest[j]
    <3>1. 1 \in Int /\ k - 1 \in Int /\ \A j \in 1..(k - 1) : rest[j] \in Ids
      BY <2>2, <2>5
    <3>2. SubSeq(rest, 1, k - 1) \in Seq(Ids)
      BY <3>1, SubSeqProperties
    <3>3. Len(SubSeq(rest, 1, k - 1)) = IF 1 <= k - 1 THEN (k - 1) - 1 + 1 ELSE 0
      BY <3>1, SubSeqProperties
    <3>4. \A j \in 1..((k - 1) - 1 + 1) : SubSeq(rest, 1, k - 1)[j] = rest[1 + j - 1]
      BY <3>1, SubSeqProperties
    <3> QED BY <2>2, <2>4, <3>2, <3>3, <3>4
  <2>7. /\ b \in Seq(Ids) /\ Len(b) = Len(rest) - k + 1
        /\ \A j \in 1..(Len(rest) - k + 1) : b[j] = rest[k + j - 1]
    <3>1. k \in Int /\ Len(rest) \in Int /\ \A j \in k..Len(rest) : rest[j] \in Ids
      BY <2>2, <2>5
    <3>2. /\ SubSeq(rest, k, Len(rest)) \in Seq(Ids)
          /\ Len(SubSeq(rest, k, Len(rest))) = IF k <= Len(rest) THEN Len(rest) - k + 1 ELSE 0
          /\ \A j \in 1..(Len(rest) - k + 1) : SubSeq(rest, k, Len(rest))[j] = rest[k + j - 1]
      BY <3>1, SubSeqProperties
    <3> QED BY <2>2, <2>4, <3>2
  <2>8. Range(a) \cup Range(b) = Range(rest)
    <3>1. ASSUME NEW y \in Range(a) PROVE y \in Range(rest)
      <4>1. PICK j \in 1..(k - 1) : a[j] = y
        BY <2>6, ListIs
      <4>2. j \in 1..Len(rest)
        BY <2>2
      <4> QED BY <1>2, <2>6, <4>1, <4>2, ListIs
    <3>2. ASSUME NEW y \in Range(b) PROVE y \in Range(rest)
      <4>1. PICK j \in 1..(Len(rest) - k + 1) : b[j] = y
        BY <2>7, ListIs
      <4>2. k + j - 1 \in 1..Len(rest)
        BY <2>2
      <4> QED BY <1>2, <2>7, <4>1, <4>2, ListIs
    <3>3. ASSUME NEW y \in Range(rest) PROVE y \in Range(a) \cup Range(b)
      <4>1. PICK j \in 1..Len(rest) : rest[j] = y
        BY <1>2, ListIs
      <4>2. CASE j <= k - 1
        <5>1. j \in 1..(k - 1)
          BY <2>2, <4>2
        <5> QED BY <2>6, <4>1, <5>1, ListIs
      <4>3. CASE ~(j <= k - 1)
        <5>1. j - k + 1 \in 1..(Len(rest) - k + 1) /\ k + (j - k + 1) - 1 = j
          BY <2>2, <4>3
        <5>2. b[j - k + 1] = y
          BY <2>7, <4>1, <5>1
        <5> QED BY <2>7, <5>1, <5>2, ListIs
      <4> QED BY <4>2, <4>3
    <3> QED BY <3>1, <3>2, <3>3
  <2>9. PICK ax : ax = a \o <<x>>
    OBVIOUS
  <2>10. /\ ax \in Seq(Ids) /\ Range(ax) = Range(a) \cup {x}
    BY <2>6, <2>9, OneIsList, ConcatIs
  <2>11. MoveBefore(s, x, ref) = ax \o b
    BY <2>3, <2>4, <2>9
  <2>12. ASSUME IsInjective(s) PROVE IsInjective(ax \o b)
    <3>1. \A i, j \in 1..Len(rest) : rest[i] = rest[j] => i = j
      BY <1>2, <2>12, ListIs
    <3>2. IsInjective(a)
      BY <2>2, <2>6, <3>1, ListIs
    <3>3. IsInjective(b)
      <4>1. ASSUME NEW i \in 1..Len(b), NEW j \in 1..Len(b), b[i] = b[j] PROVE i = j
        <5>1. /\ rest[k + i - 1] = rest[k + j - 1]
              /\ k + i - 1 \in 1..Len(rest) /\ k + j - 1 \in 1..Len(rest)
          BY <2>2, <2>7, <4>1
        <5>2. k + i - 1 = k + j - 1
          BY <3>1, <5>1
        <5> QED BY <2>2, <2>7, <5>2
      <4> QED BY <2>7, <4>1, ListIs
    <3>4. ASSUME NEW y \in Range(a), y \in Range(b) PROVE FALSE
      <4>1. PICK i \in 1..(k - 1) : a[i] = y
        BY <2>6, ListIs
      <4>2. PICK j \in 1..(Len(rest) - k + 1) : b[j] = y
        BY <2>7, <3>4, ListIs
      <4>3. rest[i] = rest[k + j - 1] /\ i \in 1..Len(rest) /\ k + j - 1 \in 1..Len(rest)
        BY <2>2, <2>6, <2>7, <4>1, <4>2
      <4>4. i = k + j - 1
        BY <3>1, <4>3
      <4> QED BY <2>2, <4>4
    <3>5. x \notin Range(a) /\ x \notin Range(b)
      BY <1>2, <2>8
    <3>6. IsInjective(<<x>>)
      BY OneIsList
    <3>7. IsInjective(ax)
      <4>1. PICK one \in Seq(Ids) : one = <<x>> /\ Range(one) = {x} /\ IsInjective(one)
        BY OneIsList
      <4>2. Range(a) \cap Range(one) = {}
        BY <3>5, <4>1
      <4>3. a \in Seq(Ids) /\ ax = a \o one
        BY <2>6, <2>9, <4>1
      <4> QED BY <3>2, <4>1, <4>2, <4>3, ConcatIs
    <3> QED BY <2>7, <2>10, <3>3, <3>4, <3>5, <3>7, ConcatIs
  <2> QED BY <1>2, <2>7, <2>8, <2>10, <2>11, <2>12, ConcatIs
<1> QED BY <1>3, <1>4

-------------------------------------------------------------------------------
(* One hierarchy: its two indexes agree, and its cached order is not older *)
(* than what it was computed from.                                         *)

(* Each member is under the parent it names, once, and no other.           *)
Tree(h) == \A p \in Ids : /\ Range(h.kids[p]) = {c \in Ids : h.parent[c] = p}
                          /\ IsInjective(h.kids[p])

(* What is in the tree and has no parent is a root.                        *)
Rooted(h) ==
    \A i \in Ids : /\ h.parent[i] = NoId
                   /\ h.kids[i] # <<>> \/ \E n \in Names : h.id[n] = i
                   => i \in Range(h.roots)

(* An order not marked stale is the order of the tree as it is.            *)
Current(h) == h.dirty \/ h.order = Flatten(h)

(* No member that had no children in h has any in g.                       *)
StaysChildless(h, g, S) == \A j \in S : h.kids[j] = <<>> => g.kids[j] = <<>>

LEMMA HierarchyIs ==
  ASSUME NEW h \in HierarchyType
  PROVE  /\ h.id \in [Names -> Ids \cup {NoId}] /\ h.title \in [Ids -> Names \cup {NoName}]
         /\ h.kids \in [Ids -> Seq(Ids)] /\ h.parent \in [Ids -> Ids \cup {NoId}]
         /\ h.roots \in Seq(Ids) /\ h.order \in Seq(Ids) /\ h.dirty \in BOOLEAN
         /\ h = [id |-> h.id, title |-> h.title, kids |-> h.kids, parent |-> h.parent,
                 roots |-> h.roots, order |-> h.order, dirty |-> h.dirty]
BY DEF HierarchyType

(* g is h with the ids of is among its roots.                              *)
Pushed(h, g, is) ==
    /\ g \in HierarchyType /\ g.id = h.id /\ g.title = h.title /\ g.kids = h.kids
    /\ g.parent = h.parent /\ g.order = h.order /\ g.dirty = h.dirty
    /\ Range(g.roots) = Range(h.roots) \cup Range(is)

LEMMA PushRootsIs ==
  ASSUME NEW h \in HierarchyType, NEW is \in Seq(Ids), NEW g, g = PushRoots(h, is)
  PROVE  Pushed(h, g, is)
<1>1. PICK new \in Seq(Ids) : new = NewTo(h.roots, is) /\ Range(new) = Range(is) \ Range(h.roots)
  BY HierarchyIs, NewToIs
<1>2. PICK r \in Seq(Ids) : r = h.roots \o new /\ Range(r) = Range(h.roots) \cup Range(new)
  BY <1>1, HierarchyIs, ConcatIs
<1>3. g = [h EXCEPT !.roots = r]
  BY <1>1, <1>2 DEF PushRoots
<1> QED BY <1>1, <1>2, <1>3 DEF HierarchyType, Pushed

(* g is h with id i registered as the aggregate n.                        *)
Aggregated(h, g, n, i) ==
    /\ g \in HierarchyType /\ g.kids = h.kids /\ g.parent = h.parent
    /\ g.id[n] = i /\ \A m \in Names \ {n} : g.id[m] = h.id[m]
    /\ g.title[i] = n /\ \A j \in Ids \ {i} : g.title[j] = h.title[j]
    /\ Range(g.roots) = Range(h.roots) \cup {i}

LEMMA RegisterAggregateIs ==
  ASSUME NEW h \in HierarchyType, NEW n \in Names, NEW i \in Ids, NEW g, g = RegisterAggregate(h, n, i)
  PROVE  Aggregated(h, g, n, i)
<1>1. PICK a, b : a = [h.id EXCEPT ![n] = i] /\ b = [h.title EXCEPT ![i] = n]
  OBVIOUS
<1>2. a \in [Names -> Ids \cup {NoId}] /\ b \in [Ids -> Names \cup {NoName}]
  BY <1>1, HierarchyIs
<1>3. PICK x : x = [h EXCEPT !.id = a, !.title = b]
  OBVIOUS
<1>4. /\ x \in HierarchyType /\ x.id = a /\ x.title = b /\ x.kids = h.kids
      /\ x.parent = h.parent /\ x.roots = h.roots
  BY <1>2, <1>3 DEF HierarchyType
<1>5. g = PushRoots(x, <<i>>)
  BY <1>1, <1>3 DEF RegisterAggregate
<1>6. <<i>> \in Seq(Ids) /\ Range(<<i>>) = {i}
  BY OneIsList
<1>7. /\ g \in HierarchyType /\ g.id = x.id /\ g.title = x.title
      /\ g.kids = x.kids /\ g.parent = x.parent /\ Range(g.roots) = Range(x.roots) \cup {i}
  <2>1. Pushed(x, g, <<i>>)
    BY <1>4, <1>5, <1>6, PushRootsIs
  <2> QED BY <1>6, <2>1 DEF Pushed
<1>8. /\ a[n] = i /\ \A m \in Names \ {n} : a[m] = h.id[m]
      /\ b[i] = n /\ \A j \in Ids \ {i} : b[j] = h.title[j]
  BY <1>1, HierarchyIs
<1> QED BY <1>4, <1>7, <1>8 DEF Aggregated

(* g is h with the leaf n known as i.                                      *)
Aliased(h, g, n, i) ==
    /\ g \in HierarchyType
    /\ g.title = h.title /\ g.kids = h.kids /\ g.parent = h.parent
    /\ \A m \in Names \ {n} : g.id[m] = h.id[m]
    /\ h.id[n] # NoId => g = h
    /\ h.id[n] = NoId => /\ g.id[n] = i /\ g.dirty = TRUE
                         /\ Range(g.roots) = Range(h.roots) \cup {i}

LEMMA RegisterAliasIs ==
  ASSUME NEW h \in HierarchyType, NEW n \in Names, NEW i \in Ids, NEW g, g = RegisterAlias(h, n, i)
  PROVE  Aliased(h, g, n, i)
<1>1. CASE h.id[n] # NoId
  BY <1>1 DEF RegisterAlias, Aliased
<1>2. CASE h.id[n] = NoId
  <2>1. PICK a : a = [h.id EXCEPT ![n] = i]
    OBVIOUS
  <2>2. a \in [Names -> Ids \cup {NoId}]
    BY <2>1, HierarchyIs
  <2>3. PICK x : x = [h EXCEPT !.id = a, !.dirty = TRUE]
    OBVIOUS
  <2>4. /\ x \in HierarchyType /\ x.id = a /\ x.title = h.title /\ x.kids = h.kids
        /\ x.parent = h.parent /\ x.dirty = TRUE /\ x.roots = h.roots
    BY <2>2, <2>3 DEF HierarchyType
  <2>5. g = PushRoots(x, <<i>>)
    BY <1>2, <2>1, <2>3 DEF RegisterAlias
  <2>6. <<i>> \in Seq(Ids) /\ Range(<<i>>) = {i}
    BY OneIsList
  <2>7. /\ g \in HierarchyType /\ g.id = x.id /\ g.title = x.title
        /\ g.kids = x.kids /\ g.parent = x.parent /\ g.dirty = x.dirty
        /\ Range(g.roots) = Range(x.roots) \cup {i}
    <3>1. Pushed(x, g, <<i>>)
      BY <2>4, <2>5, <2>6, PushRootsIs
    <3> QED BY <2>6, <3>1 DEF Pushed
  <2>8. a[n] = i /\ \A m \in Names \ {n} : a[m] = h.id[m]
    BY <2>1, HierarchyIs
  <2> QED BY <1>2, <2>4, <2>7, <2>8 DEF Aliased
<1> QED BY <1>1, <1>2 DEF Aliased

LEMMA UnnameIs ==
  ASSUME NEW id \in [Names -> Ids \cup {NoId}], NEW i
  PROVE  /\ Unname(id, i) \in [Names -> Ids \cup {NoId}]
         /\ \A n \in Names : Unname(id, i)[n] = IF id[n] = i THEN NoId ELSE id[n]
BY DEF Unname

(* g is h without its alias of the leaf i.                                 *)
Unaliased(h, g, i) ==
    /\ g \in HierarchyType /\ g.dirty = TRUE
    /\ g.title = h.title /\ g.kids = h.kids /\ g.parent = h.parent
    /\ \A m \in Names : g.id[m] = IF h.id[m] = i THEN NoId ELSE h.id[m]
    /\ Range(g.roots) = Range(h.roots) \ {i}

LEMMA ForgetAliasIs ==
  ASSUME NEW h \in HierarchyType, NEW i \in Ids, h.title[i] = NoName, NEW g, g = ForgetAlias(h, i)
  PROVE  Unaliased(h, g, i)
<1>1. PICK a, r : a = Unname(h.id, i) /\ r = Without(h.roots, i)
  OBVIOUS
<1>2. a \in [Names -> Ids \cup {NoId}] /\ r \in Seq(Ids) /\ Range(r) = Range(h.roots) \ {i}
  BY <1>1, HierarchyIs, UnnameIs, WithoutIs
<1>3. g = [h EXCEPT !.id = a, !.roots = r, !.dirty = TRUE]
  BY <1>1 DEF ForgetAlias
<1>4. \A m \in Names : a[m] = IF h.id[m] = i THEN NoId ELSE h.id[m]
  BY <1>1, HierarchyIs, UnnameIs
<1> QED BY <1>2, <1>3, <1>4 DEF HierarchyType, Unaliased

(* g is h without the member i.                                            *)
Forgotten(h, g, i) ==
    /\ g \in HierarchyType /\ Tree(g) /\ g.dirty = TRUE /\ StaysChildless(h, g, Ids)
    /\ \A m \in Names : g.id[m] = IF h.id[m] = i THEN NoId ELSE h.id[m]
    /\ g.title[i] = NoName /\ \A j \in Ids \ {i} : g.title[j] = h.title[j]
    /\ Rooted(h) => Rooted(g)

LEMMA ForgetIs ==
  ASSUME NEW h \in HierarchyType, Tree(h), NEW i \in Ids, NEW g, g = Forget(h, i)
  PROVE  Forgotten(h, g, i)
<1>1. PICK orphans : orphans = Without(h.kids[i], i)
  OBVIOUS
<1>2. orphans \in Seq(Ids) /\ Range(orphans) = Range(h.kids[i]) \ {i}
  BY <1>1, HierarchyIs, WithoutIs
<1>3. PICK a, b, k, p, r :
          /\ a = Unname(h.id, i) /\ b = [h.title EXCEPT ![i] = NoName]
          /\ k = [j \in Ids |-> IF j = i THEN <<>>
                                ELSE IF j = h.parent[i] THEN Without(h.kids[j], i) ELSE h.kids[j]]
          /\ p = [j \in Ids |-> IF j \in {i} \cup Range(orphans) THEN NoId ELSE h.parent[j]]
          /\ r = Without(h.roots, i)
  OBVIOUS
<1>4. a \in [Names -> Ids \cup {NoId}] /\ r \in Seq(Ids) /\ Range(r) = Range(h.roots) \ {i}
  BY <1>3, HierarchyIs, UnnameIs, WithoutIs
<1>5. b \in [Ids -> Names \cup {NoName}] /\ p \in [Ids -> Ids \cup {NoId}]
  BY <1>3, HierarchyIs
<1>6. ASSUME NEW j \in Ids
      PROVE  /\ k[j] \in Seq(Ids) /\ Range(k[j]) = IF j = i THEN {} ELSE Range(h.kids[j]) \ {i}
             /\ IsInjective(k[j]) /\ (h.kids[j] = <<>> => k[j] = <<>>)
  <2>1. /\ h.kids[j] \in Seq(Ids) /\ IsInjective(h.kids[j])
        /\ Range(h.kids[j]) = {c \in Ids : h.parent[c] = j}
    BY HierarchyIs DEF Tree
  <2>2. CASE j = i
    BY <1>3, <2>2, NoneIsList
  <2>3. CASE j # i /\ j = h.parent[i]
    <3>1. k[j] = Without(h.kids[j], i)
      BY <1>3, <2>3
    <3>2. /\ k[j] \in Seq(Ids) /\ Range(k[j]) = Range(h.kids[j]) \ {i} /\ IsInjective(k[j])
      BY <2>1, <3>1, WithoutIs
    <3>3. h.kids[j] # <<>>
      <4>1. i \in Range(h.kids[j])
        BY <2>1, <2>3
      <4> QED BY <4>1, NoneIsList
    <3> QED BY <2>3, <3>2, <3>3
  <2>4. CASE j # i /\ j # h.parent[i]
    <3>1. k[j] = h.kids[j]
      BY <1>3, <2>4
    <3>2. i \notin Range(h.kids[j])
      BY <2>1, <2>4
    <3> QED BY <2>1, <2>4, <3>1, <3>2
  <2> QED BY <2>2, <2>3, <2>4
<1>7. k \in [Ids -> Seq(Ids)]
  BY <1>3, <1>6
<1>8. PICK x : x = [h EXCEPT !.id = a, !.title = b, !.kids = k, !.parent = p, !.roots = r, !.dirty = TRUE]
  OBVIOUS
<1>9. /\ x \in HierarchyType /\ x.id = a /\ x.title = b /\ x.kids = k /\ x.parent = p
      /\ x.dirty = TRUE /\ x.roots = r
  BY <1>4, <1>5, <1>7, <1>8 DEF HierarchyType
<1>10. g = PushRoots(x, orphans)
  BY <1>1, <1>3, <1>8 DEF Forget
<1>11. /\ g \in HierarchyType /\ g.id = a /\ g.title = b /\ g.kids = k /\ g.parent = p
       /\ g.dirty = TRUE /\ Range(g.roots) = Range(r) \cup Range(orphans)
  <2>1. Pushed(x, g, orphans)
    BY <1>2, <1>9, <1>10, PushRootsIs
  <2> QED BY <1>9, <2>1 DEF Pushed
<1>12. Tree(g)
  <2> SUFFICES ASSUME NEW j \in Ids PROVE Range(k[j]) = {c \in Ids : p[c] = j} /\ IsInjective(k[j])
    BY <1>11 DEF Tree
  <2>1. /\ Range(h.kids[j]) = {c \in Ids : h.parent[c] = j}
        /\ Range(h.kids[i]) = {c \in Ids : h.parent[c] = i}
    BY DEF Tree
  <2>2. \A c \in Ids : p[c] = IF c = i \/ h.parent[c] = i THEN NoId ELSE h.parent[c]
    BY <1>2, <1>3, <2>1
  <2>3. j # NoId
    BY DEF Ids, NoId
  <2>4. {c \in Ids : p[c] = j} = IF j = i THEN {} ELSE {c \in Ids : h.parent[c] = j /\ c # i}
    BY <2>2, <2>3
  <2>5. Range(k[j]) = IF j = i THEN {} ELSE Range(h.kids[j]) \ {i}
    BY <1>6
  <2>6. Range(k[j]) = {c \in Ids : p[c] = j}
    BY <2>1, <2>4, <2>5
  <2> QED BY <1>6, <2>6
<1>13. StaysChildless(h, g, Ids)
  BY <1>6, <1>11 DEF StaysChildless
<1>14. /\ \A m \in Names : a[m] = IF h.id[m] = i THEN NoId ELSE h.id[m]
       /\ b[i] = NoName /\ \A j \in Ids \ {i} : b[j] = h.title[j]
  BY <1>3, HierarchyIs, UnnameIs
<1>15. Rooted(h) => Rooted(g)
  <2> SUFFICES ASSUME Rooted(h), NEW j \in Ids, p[j] = NoId,
                      k[j] # <<>> \/ \E n \in Names : a[n] = j
               PROVE  j \in Range(r) \cup Range(orphans)
    BY <1>11 DEF Rooted
  <2>1. j # NoId
    BY DEF Ids, NoId
  <2>2. j # i
    <3>1. \A n \in Names : a[n] # i \/ i = NoId
      BY <1>14
    <3>2. k[i] = <<>>
      BY <1>3
    <3> QED BY <2>1, <3>1, <3>2
  <2>3. h.kids[j] # <<>> \/ \E n \in Names : h.id[n] = j
    BY <1>6, <1>14, <2>1
  <2>4. CASE j \in Range(orphans)
    BY <2>4
  <2>5. CASE j \notin Range(orphans)
    <3>1. h.parent[j] = NoId
      BY <1>3, <2>2, <2>5
    <3>2. j \in Range(h.roots)
      BY <2>3, <3>1 DEF Rooted
    <3> QED BY <1>4, <2>2, <3>2
  <2> QED BY <2>4, <2>5
<1> QED BY <1>11, <1>12, <1>13, <1>14, <1>15 DEF Forgotten

(* g is h with its tree changed; members in S got no first child.          *)
Rearranged(h, g, S) ==
    /\ g \in HierarchyType /\ Tree(g) /\ g.dirty = TRUE /\ g.id = h.id /\ g.title = h.title
    /\ StaysChildless(h, g, S)

LEMMA LinkIs ==
  ASSUME NEW h \in HierarchyType, Tree(h), NEW p \in Ids, NEW c \in Ids, NEW g, g = Link(h, p, c)
  PROVE  /\ Rearranged(h, g, Ids \ {p})
         /\ Rooted(h) /\ (h.parent[p] = NoId => p \in Range(h.roots)) => Rooted(g)
<1>1. PICK old : old = h.parent[c]
  OBVIOUS
<1>2. PICK k, q, r :
          /\ k = IF old = p THEN h.kids
                 ELSE [j \in Ids |-> IF j = old THEN Without(h.kids[j], c)
                                     ELSE IF j = p THEN Append(h.kids[j], c) ELSE h.kids[j]]
          /\ q = [h.parent EXCEPT ![c] = p] /\ r = Without(h.roots, c)
  OBVIOUS
<1>3. g = [h EXCEPT !.kids = k, !.parent = q, !.roots = r, !.dirty = TRUE]
  BY <1>1, <1>2 DEF Link, HierarchyType
<1>4. r \in Seq(Ids) /\ Range(r) = Range(h.roots) \ {c} /\ q \in [Ids -> Ids \cup {NoId}]
  BY <1>2, HierarchyIs, WithoutIs
<1>5. ASSUME NEW j \in Ids
      PROVE  /\ k[j] \in Seq(Ids) /\ IsInjective(k[j])
             /\ Range(k[j]) = IF j = p THEN Range(h.kids[j]) \cup {c} ELSE Range(h.kids[j]) \ {c}
             /\ (j # p /\ h.kids[j] = <<>> => k[j] = <<>>)
  <2>1. /\ h.kids[j] \in Seq(Ids) /\ IsInjective(h.kids[j])
        /\ Range(h.kids[j]) = {x \in Ids : h.parent[x] = j}
    BY HierarchyIs DEF Tree
  <2>2. CASE old = p
    <3>1. k[j] = h.kids[j]
      BY <1>2, <2>2
    <3>2. j = p <=> c \in Range(h.kids[j])
      BY <1>1, <2>1, <2>2
    <3> QED BY <2>1, <3>1, <3>2
  <2>3. CASE old # p /\ j = old
    <3>1. k[j] = Without(h.kids[j], c)
      BY <1>2, <2>3
    <3>2. k[j] \in Seq(Ids) /\ Range(k[j]) = Range(h.kids[j]) \ {c} /\ IsInjective(k[j])
      BY <2>1, <3>1, WithoutIs
    <3>3. h.kids[j] # <<>>
      <4>1. c \in Range(h.kids[j])
        BY <1>1, <2>1, <2>3
      <4> QED BY <4>1, NoneIsList
    <3> QED BY <2>3, <3>2, <3>3
  <2>4. CASE old # p /\ j # old /\ j = p
    <3>1. k[j] = Append(h.kids[j], c)
      BY <1>2, <2>4
    <3>2. c \notin Range(h.kids[j])
      BY <1>1, <2>1, <2>4
    <3>3. k[j] \in Seq(Ids) /\ Range(k[j]) = Range(h.kids[j]) \cup {c} /\ IsInjective(k[j])
      BY <2>1, <3>1, <3>2, AppendIs
    <3> QED BY <2>4, <3>3
  <2>5. CASE old # p /\ j # old /\ j # p
    <3>1. k[j] = h.kids[j]
      BY <1>2, <2>5
    <3>2. c \notin Range(h.kids[j])
      BY <1>1, <2>1, <2>5
    <3> QED BY <2>1, <2>5, <3>1, <3>2
  <2> QED BY <2>2, <2>3, <2>4, <2>5
<1>6. k \in [Ids -> Seq(Ids)]
  <2>1. CASE old = p
    BY <1>2, <2>1, HierarchyIs
  <2>2. CASE old # p
    BY <1>2, <1>5, <2>2
  <2> QED BY <2>1, <2>2
<1>7. /\ g \in HierarchyType /\ g.id = h.id /\ g.title = h.title /\ g.kids = k /\ g.parent = q
      /\ g.dirty = TRUE /\ g.roots = r
  BY <1>3, <1>4, <1>6 DEF HierarchyType
<1>8. Tree(g)
  <2> SUFFICES ASSUME NEW j \in Ids PROVE Range(k[j]) = {x \in Ids : q[x] = j} /\ IsInjective(k[j])
    BY <1>7 DEF Tree
  <2>1. Range(h.kids[j]) = {x \in Ids : h.parent[x] = j}
    BY DEF Tree
  <2>2. \A x \in Ids : q[x] = IF x = c THEN p ELSE h.parent[x]
    BY <1>2, HierarchyIs
  <2>3. IsInjective(k[j])
    BY <1>5
  <2>4. CASE j = p
    <3>1. Range(k[j]) = Range(h.kids[j]) \cup {c}
      BY <1>5, <2>4
    <3>2. \A x \in Ids : q[x] = j <=> x = c \/ h.parent[x] = j
      BY <2>2, <2>4
    <3> QED BY <2>1, <2>3, <3>1, <3>2
  <2>5. CASE j # p
    <3>1. Range(k[j]) = Range(h.kids[j]) \ {c}
      BY <1>5, <2>5
    <3>2. \A x \in Ids : q[x] = j <=> x # c /\ h.parent[x] = j
      BY <2>2, <2>5
    <3> QED BY <2>1, <2>3, <3>1, <3>2
  <2> QED BY <2>4, <2>5
<1>9. StaysChildless(h, g, Ids \ {p})
  BY <1>5, <1>7 DEF StaysChildless
<1>10. ASSUME Rooted(h), h.parent[p] = NoId => p \in Range(h.roots) PROVE Rooted(g)
  <2> SUFFICES ASSUME NEW j \in Ids, q[j] = NoId, k[j] # <<>> \/ \E n \in Names : h.id[n] = j
               PROVE  j \in Range(r)
    BY <1>7 DEF Rooted
  <2>1. p # NoId
    BY DEF Ids, NoId
  <2>2. j # c /\ h.parent[j] = NoId
    BY <1>2, <2>1, HierarchyIs
  <2>3. CASE j = p
    BY <1>4, <1>10, <2>2, <2>3
  <2>4. CASE j # p
    <3>1. h.kids[j] # <<>> \/ \E n \in Names : h.id[n] = j
      BY <1>5, <2>4
    <3> QED BY <1>4, <1>10, <2>2, <3>1 DEF Rooted
  <2> QED BY <2>3, <2>4
<1> QED BY <1>7, <1>8, <1>9, <1>10 DEF Rearranged

LEMMA UnlinkIs ==
  ASSUME NEW h \in HierarchyType, Tree(h), NEW p \in Ids, NEW c \in Ids, h.parent[c] = p,
         NEW g, g = Unlink(h, p, c)
  PROVE  Rearranged(h, g, Ids) /\ (Rooted(h) => Rooted(g))
<1>1. PICK k, q : /\ k = [h.kids EXCEPT ![p] = Without(h.kids[p], c)]
                  /\ q = [h.parent EXCEPT ![c] = NoId]
  OBVIOUS
<1>2. /\ Without(h.kids[p], c) \in Seq(Ids) /\ Range(Without(h.kids[p], c)) = Range(h.kids[p]) \ {c}
      /\ IsInjective(Without(h.kids[p], c))
  BY HierarchyIs, WithoutIs DEF Tree
<1>3. k \in [Ids -> Seq(Ids)] /\ q \in [Ids -> Ids \cup {NoId}]
  BY <1>1, <1>2, HierarchyIs
<1>4. PICK x : x = [h EXCEPT !.kids = k, !.parent = q, !.dirty = TRUE]
  OBVIOUS
<1>5. /\ x \in HierarchyType /\ x.id = h.id /\ x.title = h.title /\ x.kids = k /\ x.parent = q
      /\ x.dirty = TRUE /\ x.roots = h.roots
  BY <1>3, <1>4 DEF HierarchyType
<1>6. g = PushRoots(x, <<c>>)
  BY <1>1, <1>4 DEF Unlink, HierarchyType
<1>7. /\ g \in HierarchyType /\ g.id = h.id /\ g.title = h.title /\ g.kids = k /\ g.parent = q
      /\ g.dirty = TRUE /\ Range(g.roots) = Range(h.roots) \cup {c}
  <2>1. <<c>> \in Seq(Ids) /\ Range(<<c>>) = {c}
    BY OneIsList
  <2>2. /\ g \in HierarchyType /\ g.id = x.id /\ g.title = x.title
        /\ g.kids = x.kids /\ g.parent = x.parent /\ g.dirty = x.dirty
        /\ Range(g.roots) = Range(x.roots) \cup {c}
    <3>1. Pushed(x, g, <<c>>)
      BY <1>5, <1>6, <2>1, PushRootsIs
    <3> QED BY <2>1, <3>1 DEF Pushed
  <2> QED BY <1>5, <2>2
<1>8. ASSUME NEW j \in Ids
      PROVE  /\ Range(k[j]) = {y \in Ids : q[y] = j} /\ IsInjective(k[j])
             /\ (h.kids[j] = <<>> => k[j] = <<>>)
  <2>1. /\ IsInjective(h.kids[j]) /\ Range(h.kids[j]) = {y \in Ids : h.parent[y] = j}
    BY DEF Tree
  <2>2. k[j] = IF j = p THEN Without(h.kids[p], c) ELSE h.kids[j]
    BY <1>1, HierarchyIs
  <2>3. \A y \in Ids : q[y] = IF y = c THEN NoId ELSE h.parent[y]
    BY <1>1, HierarchyIs
  <2>4. j # NoId
    BY DEF Ids, NoId
  <2>5. CASE j = p
    <3>1. h.kids[j] # <<>>
      <4>1. c \in Range(h.kids[j])
        BY <2>1, <2>5
      <4> QED BY <4>1, NoneIsList
    <3> QED BY <1>2, <2>1, <2>2, <2>3, <2>4, <2>5, <3>1
  <2>6. CASE j # p
    BY <2>1, <2>2, <2>3, <2>4, <2>6
  <2> QED BY <2>5, <2>6
<1>9. Rooted(h) => Rooted(g)
  <2>1. \A y \in Ids : q[y] = NoId => y = c \/ h.parent[y] = NoId
    BY <1>1, HierarchyIs
  <2> QED BY <1>7, <1>8, <2>1 DEF Rooted
<1> QED BY <1>7, <1>8, <1>9 DEF Tree, StaysChildless, Rearranged

LEMMA ReorderIs ==
  ASSUME NEW h \in HierarchyType, Tree(h), NEW i \in Ids, NEW s \in Seq(Ids),
         h.parent[i] # NoId => Range(s) = Range(h.kids[h.parent[i]]) /\ IsInjective(s),
         h.parent[i] = NoId => Range(h.roots) \subseteq Range(s),
         NEW g, g = Reorder(h, i, s)
  PROVE  Rearranged(h, g, Ids) /\ (Rooted(h) => Rooted(g))
<1>1. CASE h.parent[i] = NoId
  <2>1. g = [h EXCEPT !.roots = s, !.dirty = TRUE]
    BY <1>1 DEF Reorder
  <2>2. /\ g \in HierarchyType /\ g.dirty = TRUE /\ g.id = h.id /\ g.title = h.title
        /\ g.kids = h.kids /\ g.parent = h.parent /\ g.roots = s
    BY <2>1 DEF HierarchyType
  <2>3. Rooted(h) => Rooted(g)
    BY <1>1, <2>2 DEF Rooted
  <2> QED BY <2>2, <2>3 DEF Tree, StaysChildless, Rearranged
<1>2. CASE h.parent[i] # NoId
  <2>1. PICK p \in Ids : p = h.parent[i]
    BY <1>2, HierarchyIs
  <2>2. PICK k : k = [h.kids EXCEPT ![p] = s]
    OBVIOUS
  <2>3. k \in [Ids -> Seq(Ids)]
    BY <2>2, HierarchyIs
  <2>4. g = [h EXCEPT !.kids = k, !.dirty = TRUE]
    BY <1>2, <2>1, <2>2 DEF Reorder, HierarchyType
  <2>5. /\ g \in HierarchyType /\ g.dirty = TRUE /\ g.id = h.id /\ g.title = h.title
        /\ g.kids = k /\ g.parent = h.parent /\ g.roots = h.roots
    BY <2>3, <2>4 DEF HierarchyType
  <2>6. ASSUME NEW j \in Ids
        PROVE  /\ Range(k[j]) = {y \in Ids : h.parent[y] = j} /\ IsInjective(k[j])
               /\ (h.kids[j] = <<>> => k[j] = <<>>)
    <3>1. IsInjective(h.kids[j]) /\ Range(h.kids[j]) = {y \in Ids : h.parent[y] = j}
      BY DEF Tree
    <3>2. k[j] = IF j = p THEN s ELSE h.kids[j]
      BY <2>2, HierarchyIs
    <3>3. CASE j = p
      <4>1. Range(s) = Range(h.kids[j]) /\ IsInjective(s) /\ k[j] = s
        BY <1>2, <2>1, <3>2, <3>3
      <4>2. h.kids[j] = <<>> => Range(s) = {}
        BY <4>1, NoneIsList
      <4>3. h.kids[j] = <<>> => s = <<>>
        BY <4>2, ListIs
      <4> QED BY <3>1, <4>1, <4>3
    <3>4. CASE j # p
      BY <3>1, <3>2, <3>4
    <3> QED BY <3>3, <3>4
  <2>7. Rooted(h) => Rooted(g)
    BY <2>5, <2>6 DEF Rooted
  <2> QED BY <2>5, <2>6, <2>7 DEF Tree, StaysChildless, Rearranged
<1> QED BY <1>1, <1>2

-------------------------------------------------------------------------------
(* The display order is a list of ids.                                     *)

LEMMA FlattenExists ==
  ASSUME NEW s, NEW n \in Nat
  PROVE  \E w : w = [k \in 1..n |-> IF k = 1 THEN s[k] ELSE w[k - 1] \o s[k]]
<1> DEFINE Upto(m, w) == w = [k \in 1..m |-> IF k = 1 THEN s[k] ELSE w[k - 1] \o s[k]]
<1>1. PICK T : T = {m \in Nat : \E w : Upto(m, w)}
  OBVIOUS
<1>2. 0 \in T
  <2>1. PICK w : w = [k \in 1..0 |-> s[k]]
    OBVIOUS
  <2>2. Upto(0, w)
    BY <2>1
  <2> QED BY <1>1, <2>2
<1>3. ASSUME NEW m \in Nat, m \in T PROVE m + 1 \in T
  <2>1. PICK w : Upto(m, w)
    BY <1>1, <1>3
  <2> DEFINE grown == w[m] \o s[m + 1]
  <2>2. PICK u : u = grown
    OBVIOUS
  <2>3. PICK x : x = [k \in 1..(m + 1) |-> IF k = 1 THEN s[k]
                                           ELSE IF k = m + 1 THEN u ELSE w[k]]
    OBVIOUS
  <2>4. ASSUME NEW k \in 1..(m + 1) PROVE x[k] = IF k = 1 THEN s[k] ELSE x[k - 1] \o s[k]
    <3>1. CASE k = 1
      BY <2>3, <3>1
    <3>2. CASE k # 1
      <4>1. k - 1 \in 1..m /\ k - 1 \in 1..(m + 1) /\ k - 1 # m + 1
        BY <3>2
      <4>2. x[k - 1] = w[k - 1]
        <5>1. x[k - 1] = IF k - 1 = 1 THEN s[k - 1] ELSE w[k - 1]
          BY <2>3, <4>1
        <5>2. k - 1 = 1 => w[k - 1] = s[k - 1]
          BY <2>1, <4>1
        <5> QED BY <5>1, <5>2
      <4>3. CASE k = m + 1
        <5>1. x[k] = u /\ k - 1 = m
          BY <2>3, <3>2, <4>3
        <5> QED BY <2>2, <3>2, <4>2, <4>3, <5>1
      <4>4. CASE k # m + 1
        <5>1. x[k] = w[k] /\ k \in 1..m
          BY <2>3, <3>2, <4>4
        <5>2. w[k] = w[k - 1] \o s[k]
          BY <2>1, <3>2, <5>1
        <5> QED BY <3>2, <4>2, <5>1, <5>2
      <4> QED BY <4>3, <4>4
    <3> QED BY <3>1, <3>2
  <2>5. Upto(m + 1, x)
    BY <2>3, <2>4
  <2> HIDE DEF Upto
  <2>6. \E y : Upto(m + 1, y)
    BY <2>5
  <2> QED BY <1>1, <2>6
<1>4. n \in T
  BY <1>2, <1>3, SetInduction
<1> QED BY <1>1, <1>4

LEMMA FlattenIs ==
  ASSUME NEW n \in Nat, NEW s, DOMAIN s = 1..n, s = [k \in 1..n |-> s[k]],
         \A k \in 1..n : s[k] \in Seq(Ids)
  PROVE  FlattenSeq(s) \in Seq(Ids) /\ (n = 0 => FlattenSeq(s) = <<>>)
<1>1. s \in Seq(Seq(Ids)) /\ Len(s) = n
  <2>1. s \in [1..n -> Seq(Ids)]
    OBVIOUS
  <2>2. s \in Seq(Seq(Ids))
    BY <2>1, SeqDef
  <2> QED BY <2>1, <2>2, LenProperties
<1>2. CASE n = 0
  <2>1. s = <<>>
    BY <1>1, <1>2, EmptySeq
  <2>2. FlattenSeq(s) = s
    BY <1>1, <1>2 DEF FlattenSeq
  <2> QED BY <2>1, <2>2, NoneIsList
<1>3. CASE n # 0
  <2> DEFINE w == CHOOSE flatten : flatten =
                  [i \in 1..n |-> IF i = 1 THEN s[i] ELSE flatten[i - 1] \o s[i]]
  <2>1. FlattenSeq(s) = w[n]
    BY <1>1, <1>3 DEF FlattenSeq
  <2>2. w = [i \in 1..n |-> IF i = 1 THEN s[i] ELSE w[i - 1] \o s[i]]
    BY FlattenExists
  <2> HIDE DEF w
  <2>3. PICK T : T = {k \in Nat : k < n => w[k + 1] \in Seq(Ids)}
    OBVIOUS
  <2>4. 0 \in T
    <3>1. 1 \in 1..n
      BY <1>3
    <3> QED BY <2>2, <2>3, <3>1
  <2>5. ASSUME NEW k \in Nat, k \in T PROVE k + 1 \in T
    <3> SUFFICES ASSUME k + 1 < n PROVE w[(k + 1) + 1] \in Seq(Ids)
      BY <2>3
    <3>1. w[k + 1] \in Seq(Ids) /\ k + 2 \in 1..n /\ k + 2 # 1 /\ (k + 2) - 1 = k + 1
      BY <2>3, <2>5
    <3>2. w[k + 2] = w[k + 1] \o s[k + 2] /\ s[k + 2] \in Seq(Ids)
      BY <2>2, <3>1
    <3>3. w[k + 2] \in Seq(Ids)
      BY <3>1, <3>2, ConcatProperties
    <3>4. (k + 1) + 1 = k + 2
      OBVIOUS
    <3> QED BY <3>3, <3>4
  <2>6. n - 1 \in Nat /\ n - 1 \in T
    BY <1>3, <2>4, <2>5, SetInduction
  <2>7. w[(n - 1) + 1] \in Seq(Ids)
    BY <2>3, <2>6
  <2> QED BY <1>3, <2>1, <2>7
<1> QED BY <1>2, <1>3

LEMMA LevelIs ==
  ASSUME NEW kids \in [Ids -> Seq(Ids)], NEW below \in [Ids -> Seq(Ids)]
  PROVE  Level(kids, below) \in [Ids -> Seq(Ids)]
<1>1. ASSUME NEW i \in Ids
      PROVE  <<i>> \o FlattenSeq([k \in DOMAIN kids[i] |-> below[kids[i][k]]]) \in Seq(Ids)
  <2>1. PICK n \in Nat : n = Len(kids[i]) /\ DOMAIN kids[i] = 1..n
    BY ListIs
  <2>2. \A k \in 1..n : kids[i][k] \in Ids
    BY <2>1, ListIs
  <2>3. PICK s : s = [k \in DOMAIN kids[i] |-> below[kids[i][k]]]
    OBVIOUS
  <2>4. DOMAIN s = 1..n /\ s = [k \in 1..n |-> s[k]] /\ \A k \in 1..n : s[k] \in Seq(Ids)
    BY <2>1, <2>2, <2>3
  <2>5. FlattenSeq(s) \in Seq(Ids)
    BY <2>4, FlattenIs
  <2>6. <<i>> \in Seq(Ids)
    BY OneIsList
  <2> QED BY <2>3, <2>5, <2>6, ConcatProperties
<1> QED BY <1>1 DEF Level

(* What rebuild_display_order lists of each id, down to each depth.        *)
Levels(w, kids, z, n) == w = [f \in 0..n |-> IF f = 0 THEN z ELSE Level(kids, w[f - 1])]

LEMMA LevelsExist ==
  ASSUME NEW kids, NEW z, NEW n \in Nat
  PROVE  \E w : Levels(w, kids, z, n)
<1> DEFINE Upto(m, w) == Levels(w, kids, z, m)
<1>1. PICK T : T = {m \in Nat : \E w : Upto(m, w)}
  OBVIOUS
<1>2. 0 \in T
  <2>1. PICK w : w = [f \in 0..0 |-> z]
    OBVIOUS
  <2>2. Upto(0, w)
    BY <2>1 DEF Levels
  <2> QED BY <1>1, <2>2
<1>3. ASSUME NEW m \in Nat, m \in T PROVE m + 1 \in T
  <2>1. PICK w : Upto(m, w)
    BY <1>1, <1>3
  <2>2. PICK x : x = [f \in 0..(m + 1) |-> IF f = m + 1 THEN Level(kids, w[m]) ELSE w[f]]
    OBVIOUS
  <2>3. \A f \in 0..(m + 1) : x[f] = IF f = 0 THEN z ELSE Level(kids, x[f - 1])
    BY <2>1, <2>2 DEF Levels
  <2>4. Upto(m + 1, x)
    BY <2>2, <2>3 DEF Levels
  <2> QED BY <1>1, <2>4
<1>4. n \in T
  BY <1>2, <1>3, SetInduction
<1> QED BY <1>1, <1>4

LEMMA DepthFirstIs ==
  ASSUME NEW id, NEW kids \in [Ids -> Seq(Ids)], NEW roots \in Seq(Ids)
  PROVE  /\ DepthFirst(id, kids, roots) \in Seq(Ids)
         /\ roots = <<>> => DepthFirst(id, kids, roots) = <<>>
<1> DEFINE limit == Cardinality({n \in Names : id[n] # NoId}) + 2
           z == [i \in Ids |-> <<>>]
           w == CHOOSE below : Levels(below, kids, z, limit)
<1>1. limit \in Nat
  <2>1. IsFiniteSet({n \in Names : id[n] # NoId})
    BY NamesAreFinite, FS_Subset
  <2>2. Cardinality({n \in Names : id[n] # NoId}) \in Nat
    BY <2>1, FS_CardinalityType
  <2> QED BY <2>2
<1>2. DepthFirst(id, kids, roots) = FlattenSeq([k \in DOMAIN roots |-> w[limit][roots[k]]])
  BY DEF DepthFirst, Levels
<1>20. z \in [Ids -> Seq(Ids)]
  BY NoneIsList
<1> HIDE DEF limit, z, w
<1>3. w = [fuel \in 0..limit |-> IF fuel = 0 THEN z ELSE Level(kids, w[fuel - 1])]
  <2>1. \E f : Levels(f, kids, z, limit)
    BY <1>1, LevelsExist
  <2>2. Levels(w, kids, z, limit)
    BY <2>1 DEF w
  <2> QED BY <2>2 DEF Levels
<1>4. PICK T : T = {m \in Nat : m <= limit => w[m] \in [Ids -> Seq(Ids)]}
  OBVIOUS
<1>5. 0 \in T
  BY <1>1, <1>20, <1>3, <1>4
<1>6. ASSUME NEW m \in Nat, m \in T PROVE m + 1 \in T
  <2> SUFFICES ASSUME m + 1 <= limit PROVE w[m + 1] \in [Ids -> Seq(Ids)]
    BY <1>4
  <2>1. w[m] \in [Ids -> Seq(Ids)]
    BY <1>1, <1>4, <1>6
  <2>2. m + 1 \in 0..limit /\ m + 1 # 0 /\ (m + 1) - 1 = m
    BY <1>1
  <2>3. w[m + 1] = Level(kids, w[m])
    BY <1>3, <2>2
  <2> QED BY <2>1, <2>3, LevelIs
<1>7. w[limit] \in [Ids -> Seq(Ids)]
  <2>1. limit \in T
    BY <1>1, <1>5, <1>6, SetInduction
  <2> QED BY <1>1, <1>4, <2>1
<1>8. PICK n \in Nat : n = Len(roots) /\ DOMAIN roots = 1..n
  BY ListIs
<1>9. \A k \in 1..n : roots[k] \in Ids
  BY <1>8, ListIs
<1>10. PICK s : s = [k \in DOMAIN roots |-> w[limit][roots[k]]]
  OBVIOUS
<1>11. DOMAIN s = 1..n /\ s = [k \in 1..n |-> s[k]] /\ \A k \in 1..n : s[k] \in Seq(Ids)
  BY <1>7, <1>8, <1>9, <1>10
<1>12. FlattenSeq(s) \in Seq(Ids) /\ (n = 0 => FlattenSeq(s) = <<>>)
  BY <1>11, FlattenIs
<1>13. roots = <<>> => n = 0
  BY <1>8
<1> QED BY <1>2, <1>10, <1>12, <1>13

LEMMA RefreshedIs ==
  ASSUME NEW h \in HierarchyType, NEW g, g = Refreshed(h)
  PROVE  /\ g \in HierarchyType /\ g.id = h.id /\ g.title = h.title /\ g.kids = h.kids
         /\ g.parent = h.parent /\ g.roots = h.roots /\ Current(g)
<1>1. PICK o \in Seq(Ids) : o = Flatten(h)
  BY HierarchyIs, DepthFirstIs DEF Flatten
<1>2. g = [h EXCEPT !.order = o, !.dirty = FALSE]
  BY <1>1 DEF Refreshed
<1>3. /\ g \in HierarchyType /\ g.id = h.id /\ g.title = h.title /\ g.kids = h.kids
      /\ g.parent = h.parent /\ g.roots = h.roots /\ g.order = o
  BY <1>2 DEF HierarchyType
<1> QED BY <1>1, <1>3 DEF Current, Flatten

LEMMA EmptyHierarchyIs ==
  /\ EmptyHierarchy \in HierarchyType /\ Tree(EmptyHierarchy) /\ Current(EmptyHierarchy)
  /\ \A n \in Names : EmptyHierarchy.id[n] = NoId
  /\ \A i \in Ids : EmptyHierarchy.title[i] = NoName /\ EmptyHierarchy.kids[i] = <<>>
<1>1. EmptyHierarchy \in HierarchyType
  BY NoneIsList DEF EmptyHierarchy, HierarchyType
<1>2. /\ \A n \in Names : EmptyHierarchy.id[n] = NoId
      /\ \A i \in Ids : EmptyHierarchy.title[i] = NoName /\ EmptyHierarchy.kids[i] = <<>>
      /\ \A i \in Ids : EmptyHierarchy.parent[i] = NoId
      /\ EmptyHierarchy.roots = <<>> /\ EmptyHierarchy.order = <<>>
  BY DEF EmptyHierarchy
<1>3. Tree(EmptyHierarchy)
  <2>1. \A p \in Ids : p # NoId
    BY DEF Ids, NoId
  <2> QED BY <1>2, <2>1, NoneIsList DEF Tree
<1>4. Current(EmptyHierarchy)
  <2>1. Flatten(EmptyHierarchy) = <<>>
    BY <1>1, <1>2, HierarchyIs, DepthFirstIs DEF Flatten
  <2> QED BY <1>2, <2>1 DEF Current
<1> QED BY <1>1, <1>2, <1>3, <1>4

-------------------------------------------------------------------------------
(* The inductive invariant of a dimension, in parts.                       *)
DimType(d) ==
    /\ d = [leaf |-> d.leaf, type |-> d.type, home |-> d.home, hier |-> d.hier,
            next |-> d.next, default |-> d.default]
    /\ d.leaf \in [Names -> Ids \cup {NoId}]
    /\ d.type \in [Ids -> {"Leaf", "Consolidated", "none"}]
    /\ d.home \in DOMAIN d.hier
    /\ d.hier \in [DOMAIN d.hier -> HierarchyType]
    /\ d.next \in 1..(MaxId + 1)
    /\ d.default \in Ids \cup {NoId}

Forests(d) == \A h \in DOMAIN d.hier : Tree(d.hier[h]) /\ Rooted(d.hier[h])

(* Ids below next were handed out; the others are untouched.               *)
GivenIds(d) ==
    /\ \A n \in Names : d.leaf[n] < d.next
    /\ \A h \in DOMAIN d.hier : \A n \in Names : d.hier[h].id[n] < d.next
    /\ \A i \in Ids : i >= d.next => d.type[i] = "none"

(* The bank gives an id to one name, and every hierarchy agrees with it.   *)
OneNameEach(d) ==
    /\ \A n, m \in Names : d.leaf[n] # NoId /\ d.leaf[n] = d.leaf[m] => n = m
    /\ \A h \in DOMAIN d.hier : \A n, m \in Names :
           d.leaf[m] # NoId /\ d.hier[h].id[n] = d.leaf[m] => n = m

(* An id of the bank of leaves has the type of a leaf.                     *)
LeavesAreTyped(d) == \A n \in Names : d.leaf[n] # NoId => d.type[d.leaf[n]] = "Leaf"

(* Leaves of the bank, and ids not handed out, are no hierarchy's          *)
(* aggregates.                                                             *)
Bare(d, i) == IsLeaf(d, i) \/ i >= d.next
BareIds(d) ==
    \A i \in Ids : Bare(d, i) =>
        \A h \in DOMAIN d.hier : d.hier[h].title[i] = NoName /\ d.hier[h].kids[i] = <<>>

(* Two hierarchies share leaves only.                                      *)
SharedAreLeaves(d) ==
    \A g, h \in DOMAIN d.hier : \A n, m \in Names :
        g # h /\ d.hier[g].id[n] = d.hier[h].id[m] /\ d.hier[g].id[n] # NoId
            => IsLeaf(d, d.hier[g].id[n])

(* The default, if there is one, names a member that has a type.           *)
DefaultLives(d) == d.default # NoId => d.type[d.default] # "none"

(* What a hierarchy knows is a leaf of the bank or has a title there, and  *)
(* an id has a title in one hierarchy.                                     *)
Titled(d) ==
    \A h \in DOMAIN d.hier : \A n \in Names :
        \/ d.hier[h].id[n] = NoId \/ IsLeaf(d, d.hier[h].id[n])
        \/ d.hier[h].title[d.hier[h].id[n]] # NoName

OneTitle(d) ==
    \A g, h \in DOMAIN d.hier : \A i \in Ids :
        d.hier[g].title[i] # NoName /\ d.hier[h].title[i] # NoName => g = h

DimInv(d) == /\ DimType(d) /\ Forests(d) /\ GivenIds(d) /\ OneNameEach(d) /\ LeavesAreTyped(d)
             /\ BareIds(d) /\ SharedAreLeaves(d) /\ DefaultLives(d) /\ Titled(d) /\ OneTitle(d)

(* Nothing that has a name in d has none in e, a later state of it.        *)
HasName(d, i) == NamesOf(d, i) # {}

Carries(d, e) ==
    /\ e.home = d.home /\ DOMAIN e.hier = DOMAIN d.hier
    /\ \A i \in Ids : HasName(d, i) => HasName(e, i)

(* All hierarchies but those in X list their members as they are.          *)
CurrentBut(d, X) == \A h \in DOMAIN d.hier \ X : Current(d.hier[h])

LEMMA HasNameIs ==
  ASSUME NEW d, NEW i
  PROVE  HasName(d, i) <=> IsLeaf(d, i) \/ \E h \in DOMAIN d.hier : d.hier[h].title[i] # NoName
  BY DEF HasName, NamesOf, IsLeaf

(* An edit of neither ids nor titles.                                      *)
LEMMA SameTitles ==
  ASSUME NEW d, DimInv(d), NEW e, e.leaf = d.leaf, e.home = d.home, DOMAIN e.hier = DOMAIN d.hier,
         \A h \in DOMAIN d.hier : e.hier[h].id = d.hier[h].id /\ e.hier[h].title = d.hier[h].title
  PROVE  Titled(e) /\ OneTitle(e) /\ Carries(d, e)
<1>1. \A i : IsLeaf(e, i) <=> IsLeaf(d, i)
  BY DEF IsLeaf
<1>2. Titled(e)
  BY <1>1 DEF DimInv, Titled
<1>3. OneTitle(e)
  BY DEF DimInv, OneTitle
<1>4. \A i \in Ids : HasName(d, i) => HasName(e, i)
  BY <1>1, HasNameIs
<1> QED BY <1>2, <1>3, <1>4 DEF Carries

LEMMA CarriesOn ==
  ASSUME NEW d, NEW e, NEW f, Carries(d, e), Carries(e, f)
  PROVE  Carries(d, f)
  BY DEF Carries

LEMMA EditHierarchy ==
  ASSUME NEW d, DimInv(d), NEW h \in DOMAIN d.hier, NEW g \in HierarchyType, Tree(g), Rooted(g),
         g.id = d.hier[h].id, g.title = d.hier[h].title,
         \A i \in Ids : Bare(d, i) => g.kids[i] = <<>>,
         NEW e, e = [d EXCEPT !.hier[h] = g]
  PROVE  /\ DimInv(e) /\ DOMAIN e.hier = DOMAIN d.hier /\ e.hier[h] = g /\ e.next = d.next
         /\ e.leaf = d.leaf /\ e.type = d.type /\ Carries(d, e)
         /\ \A f \in DOMAIN d.hier \ {h} : e.hier[f] = d.hier[f]
<1>1. PICK H : H = [d.hier EXCEPT ![h] = g]
  OBVIOUS
<1>2. /\ e.leaf = d.leaf /\ e.type = d.type /\ e.home = d.home /\ e.hier = H
      /\ e.next = d.next /\ e.default = d.default
      /\ e = [leaf |-> d.leaf, type |-> d.type, home |-> d.home, hier |-> H,
              next |-> d.next, default |-> d.default]
  BY <1>1 DEF DimInv, DimType
<1>3. /\ DOMAIN H = DOMAIN d.hier /\ H[h] = g
      /\ \A f \in DOMAIN d.hier \ {h} : H[f] = d.hier[f]
      /\ H \in [DOMAIN d.hier -> HierarchyType]
  BY <1>1 DEF DimInv, DimType
<1>4. \A f \in DOMAIN d.hier : H[f].id = d.hier[f].id /\ H[f].title = d.hier[f].title
  BY <1>3
<1>5. DimType(e)
  BY <1>2, <1>3 DEF DimInv, DimType
<1>6. Forests(e)
  BY <1>2, <1>3 DEF DimInv, Forests
<1>7. GivenIds(e)
  BY <1>2, <1>3, <1>4 DEF DimInv, GivenIds
<1>8. OneNameEach(e)
  BY <1>2, <1>3, <1>4 DEF DimInv, OneNameEach
<1>9. LeavesAreTyped(e) /\ DefaultLives(e)
  BY <1>2 DEF DimInv, LeavesAreTyped, DefaultLives
<1>10. BareIds(e)
  <2>1. \A i \in Ids : Bare(e, i) => Bare(d, i)
    BY <1>2 DEF Bare, IsLeaf
  <2> QED BY <1>2, <1>3, <1>4, <2>1 DEF DimInv, BareIds
<1>11. SharedAreLeaves(e)
  <2>1. \A i : IsLeaf(e, i) <=> IsLeaf(d, i)
    BY <1>2 DEF IsLeaf
  <2> QED BY <1>2, <1>3, <1>4, <2>1 DEF DimInv, SharedAreLeaves
<1>12. Titled(e) /\ OneTitle(e) /\ Carries(d, e)
  BY <1>2, <1>3, <1>4, SameTitles
<1> QED BY <1>2, <1>3, <1>5, <1>6, <1>7, <1>8, <1>9, <1>10, <1>11, <1>12 DEF DimInv

LEMMA AddLeafIs ==
  ASSUME NEW d, DimInv(d), NEW n \in Names, d.leaf[n] = NoId => d.next <= MaxId,
         NEW X, CurrentBut(d, X), NEW e, e = AddLeaf(d, n)
  PROVE  /\ DimInv(e) /\ CurrentBut(e, X) /\ DOMAIN e.hier = DOMAIN d.hier /\ Carries(d, e)
         /\ e.leaf[n] \in Ids /\ e.next >= d.next
         /\ \A m \in Names : e.leaf[m] \in {d.leaf[m], d.next}
         /\ \A i \in Ids : i < d.next => e.type[i] = d.type[i]
         /\ \A h \in DOMAIN d.hier : /\ e.hier[h].parent = d.hier[h].parent
                                     /\ e.hier[h].kids = d.hier[h].kids
                                     /\ \A m \in Names : d.hier[h].id[m] # NoId =>
                                            e.hier[h].id[m] = d.hier[h].id[m]
<1>1. CASE d.leaf[n] # NoId
  <2>1. e = d /\ d.leaf[n] \in Ids /\ d.next \in Nat
    BY <1>1 DEF AddLeaf, DimInv, DimType
  <2>2. Carries(d, e)
    BY <2>1 DEF Carries
  <2> QED BY <2>1, <2>2
<1>2. CASE d.leaf[n] = NoId
  <2>1. PICK i \in Ids : i = d.next /\ i \in Nat /\ d.next + 1 \in 1..(MaxId + 1)
    BY <1>2, MaxIdIsNat DEF DimInv, DimType, Ids
  <2>2. PICK L, T, H, D : /\ L = [d.leaf EXCEPT ![n] = i] /\ T = [d.type EXCEPT ![i] = "Leaf"]
                          /\ H = [h \in DOMAIN d.hier |-> RegisterAlias(d.hier[h], n, i)]
                          /\ D = IF d.default = NoId THEN i ELSE d.default
    OBVIOUS
  <2>3. /\ e = [leaf |-> L, type |-> T, home |-> d.home, hier |-> H,
                next |-> d.next + 1, default |-> D]
        /\ e.leaf = L /\ e.type = T /\ e.home = d.home /\ e.hier = H
        /\ e.next = d.next + 1 /\ e.default = D
    BY <1>2, <2>1, <2>2 DEF AddLeaf, DimInv, DimType
  <2>4. ASSUME NEW h \in DOMAIN d.hier
        PROVE  /\ H[h] \in HierarchyType
               /\ \A m \in Names \ {n} : H[h].id[m] = d.hier[h].id[m]
               /\ d.hier[h].id[n] # NoId => H[h] = d.hier[h]
               /\ d.hier[h].id[n] = NoId => /\ H[h].id[n] = i /\ H[h].dirty = TRUE
                                            /\ Range(H[h].roots) = Range(d.hier[h].roots) \cup {i}
               /\ H[h].title = d.hier[h].title /\ H[h].kids = d.hier[h].kids
               /\ H[h].parent = d.hier[h].parent
    <3>1. PICK x \in HierarchyType : x = d.hier[h]
      BY DEF DimInv, DimType
    <3>2. PICK y : y = H[h]
      OBVIOUS
    <3>3. y = RegisterAlias(x, n, i)
      BY <2>2, <3>1, <3>2
    <3>4. Aliased(x, y, n, i)
      BY <3>3, RegisterAliasIs
    <3> QED BY <3>1, <3>2, <3>4 DEF Aliased
  <2>5. DOMAIN H = DOMAIN d.hier /\ H \in [DOMAIN d.hier -> HierarchyType]
    BY <2>2, <2>4
  <2>6. /\ L \in [Names -> Ids \cup {NoId}] /\ L[n] = i /\ \A m \in Names \ {n} : L[m] = d.leaf[m]
        /\ T \in [Ids -> {"Leaf", "Consolidated", "none"}]
        /\ T[i] = "Leaf" /\ \A j \in Ids \ {i} : T[j] = d.type[j]
    BY <2>2 DEF DimInv, DimType
  <2>7. ASSUME NEW h \in DOMAIN d.hier, NEW m \in Names
        PROVE  H[h].id[m] = d.hier[h].id[m] \/ (m = n /\ H[h].id[m] = i)
    BY <2>4
  <2>8. /\ \A m \in Names : d.leaf[m] < i /\ d.leaf[m] \in Nat
        /\ \A h \in DOMAIN d.hier : \A m \in Names : d.hier[h].id[m] < i /\ d.hier[h].id[m] \in Nat
    <3>1. \A h \in DOMAIN d.hier : d.hier[h].id \in [Names -> Ids \cup {NoId}]
      BY HierarchyIs DEF DimInv, DimType
    <3>2. Ids \cup {NoId} \subseteq Nat
      BY DEF Ids, NoId
    <3> QED BY <2>1, <3>1, <3>2 DEF DimInv, DimType, GivenIds
  <2>9. i # NoId
    BY <2>1 DEF Ids, NoId
  <2>10. DimType(e)
    BY <2>1, <2>2, <2>3, <2>5, <2>6 DEF DimInv, DimType
  <2>11. Forests(e)
    <3>1. \A h \in DOMAIN d.hier : H[h].kids = d.hier[h].kids /\ H[h].parent = d.hier[h].parent
      BY <2>4
    <3>2. ASSUME NEW h \in DOMAIN d.hier PROVE Rooted(H[h])
      <4>1. Rooted(d.hier[h])
        BY DEF DimInv, Forests
      <4>2. CASE d.hier[h].id[n] # NoId
        BY <2>4, <4>1, <4>2
      <4>3. CASE d.hier[h].id[n] = NoId
        <5>1. Range(H[h].roots) = Range(d.hier[h].roots) \cup {i} /\ H[h].id[n] = i
          BY <2>4, <4>3
        <5>2. \A m \in Names : H[h].id[m] = d.hier[h].id[m] \/ H[h].id[m] = i
          BY <2>4, <5>1
        <5> QED BY <3>1, <4>1, <5>1, <5>2 DEF Rooted
      <4> QED BY <4>2, <4>3
    <3> QED BY <2>3, <2>5, <3>1, <3>2 DEF DimInv, Forests, Tree
  <2>12. GivenIds(e)
    <3>1. \A m \in Names : L[m] < i + 1
      BY <2>1, <2>6, <2>8
    <3>2. \A h \in DOMAIN d.hier : \A m \in Names : H[h].id[m] < i + 1
      BY <2>1, <2>7, <2>8
    <3>3. \A j \in Ids : j >= i + 1 => j # i /\ j >= i
      BY <2>1 DEF Ids
    <3>4. \A j \in Ids : j >= i + 1 => T[j] = "none"
      BY <2>1, <2>6, <3>3 DEF DimInv, GivenIds
    <3> QED BY <2>1, <2>3, <2>5, <3>1, <3>2, <3>4 DEF GivenIds
  <2>13. OneNameEach(e)
    <3>1. ASSUME NEW k \in Names, NEW m \in Names, L[k] # NoId, L[k] = L[m] PROVE k = m
      BY <2>6, <2>8, <3>1 DEF DimInv, OneNameEach
    <3>2. ASSUME NEW h \in DOMAIN d.hier, NEW k \in Names, NEW m \in Names, L[m] # NoId,
                 H[h].id[k] = L[m]
          PROVE  k = m
      BY <2>6, <2>7, <2>8, <3>2 DEF DimInv, OneNameEach
    <3> QED BY <2>3, <2>5, <3>1, <3>2 DEF OneNameEach
  <2>14. LeavesAreTyped(e) /\ DefaultLives(e)
    <3>1. ASSUME NEW m \in Names, L[m] # NoId PROVE T[L[m]] = "Leaf"
      BY <2>6, <2>8, <3>1 DEF DimInv, LeavesAreTyped
    <3>2. D # NoId => T[D] # "none"
      BY <2>2, <2>6 DEF DimInv, DefaultLives, DimType
    <3> QED BY <2>3, <3>1, <3>2 DEF LeavesAreTyped, DefaultLives
  <2>15. BareIds(e)
    <3>1. \A j \in Ids : Bare(e, j) => Bare(d, j)
      <4>1. \A j \in Ids : j >= i + 1 => j >= i
        BY <2>1 DEF Ids
      <4>2. i >= i
        BY <2>1
      <4> QED BY <2>1, <2>3, <2>6, <4>1, <4>2 DEF Bare, IsLeaf
    <3>2. \A h \in DOMAIN d.hier : H[h].title = d.hier[h].title /\ H[h].kids = d.hier[h].kids
      BY <2>4
    <3> QED BY <2>3, <2>5, <3>1, <3>2 DEF DimInv, BareIds
  <2>16. SharedAreLeaves(e)
    <3>1. \A j : IsLeaf(e, j) <=> \E k \in Names : L[k] = j
      BY <2>3 DEF IsLeaf
    <3>2. ASSUME NEW g \in DOMAIN d.hier, NEW h \in DOMAIN d.hier, NEW k \in Names, NEW m \in Names,
                 g # h, H[g].id[k] = H[h].id[m], H[g].id[k] # NoId
          PROVE  IsLeaf(e, H[g].id[k])
      <4>1. CASE H[g].id[k] = i
        BY <2>6, <3>1, <4>1
      <4>2. CASE H[g].id[k] # i
        <5>1. H[g].id[k] = d.hier[g].id[k] /\ H[h].id[m] = d.hier[h].id[m]
          BY <2>7, <3>2, <4>2
        <5>2. IsLeaf(d, d.hier[g].id[k])
          BY <3>2, <5>1 DEF DimInv, SharedAreLeaves
        <5>3. PICK l \in Names : d.leaf[l] = d.hier[g].id[k]
          BY <5>2 DEF IsLeaf
        <5>4. l # n
          BY <1>2, <3>2, <5>1, <5>3
        <5> QED BY <2>6, <3>1, <5>1, <5>3, <5>4
      <4> QED BY <4>1, <4>2
    <3> QED BY <2>3, <2>5, <3>2 DEF SharedAreLeaves
  <2>17. CurrentBut(e, X)
    <3> SUFFICES ASSUME NEW h \in DOMAIN d.hier \ X PROVE H[h].dirty \/ H[h] = d.hier[h]
      BY <2>3, <2>5 DEF CurrentBut, Current
    <3> QED BY <2>4
  <2>18. \A j \in Ids : j < d.next => j # i
    BY <2>1 DEF Ids
  <2>19. d.next + 1 >= d.next
    BY <2>1
  <2>20. \A h \in DOMAIN d.hier : \A m \in Names : d.hier[h].id[m] # NoId =>
             H[h].id[m] = d.hier[h].id[m]
    BY <2>4
  <2>25. \A j : j # NoId /\ IsLeaf(d, j) => IsLeaf(e, j)
    <3>1. ASSUME NEW j, j # NoId, IsLeaf(d, j) PROVE IsLeaf(e, j)
      <4>1. PICK l \in Names : d.leaf[l] = j
        BY <3>1 DEF IsLeaf
      <4>2. l # n
        BY <1>2, <3>1, <4>1
      <4> QED BY <2>3, <2>6, <4>1, <4>2 DEF IsLeaf
    <3> QED BY <3>1
  <2>26. \A h \in DOMAIN d.hier : e.hier[h].title = d.hier[h].title
    BY <2>3, <2>4
  <2>27. Titled(e)
    <3> SUFFICES ASSUME NEW h \in DOMAIN d.hier, NEW m \in Names, H[h].id[m] # NoId, ~IsLeaf(e, H[h].id[m])
                 PROVE  H[h].title[H[h].id[m]] # NoName
      BY <2>3, <2>5 DEF Titled
    <3>1. H[h].id[m] # i
      BY <2>3, <2>6 DEF IsLeaf
    <3>2. H[h].id[m] = d.hier[h].id[m]
      BY <2>7, <3>1
    <3>3. ~IsLeaf(d, d.hier[h].id[m])
      BY <2>25, <3>2
    <3>4. d.hier[h].title[d.hier[h].id[m]] # NoName
      BY <3>2, <3>3 DEF DimInv, Titled
    <3> QED BY <2>4, <3>2, <3>4
  <2>28. OneTitle(e)
    BY <2>3, <2>5, <2>26 DEF DimInv, OneTitle
  <2>29. Carries(d, e)
    <3>1. \A j \in Ids : j # NoId
      BY DEF Ids, NoId
    <3>2. \A j \in Ids : HasName(d, j) => HasName(e, j)
      BY <2>3, <2>5, <2>25, <2>26, <3>1, HasNameIs
    <3> QED BY <2>3, <2>5, <3>2 DEF Carries
  <2>21. DimInv(e)
    BY <2>10, <2>11, <2>12, <2>13, <2>14, <2>15, <2>16, <2>27, <2>28 DEF DimInv
  <2>22. /\ DOMAIN e.hier = DOMAIN d.hier
         /\ \A h \in DOMAIN d.hier : /\ e.hier[h].parent = d.hier[h].parent
                                     /\ e.hier[h].kids = d.hier[h].kids
                                     /\ \A m \in Names : d.hier[h].id[m] # NoId =>
                                            e.hier[h].id[m] = d.hier[h].id[m]
    BY <2>3, <2>4, <2>5, <2>20
  <2>23. /\ e.leaf[n] \in Ids /\ e.next >= d.next
         /\ \A m \in Names : e.leaf[m] \in {d.leaf[m], d.next}
    BY <2>1, <2>3, <2>6, <2>19
  <2>24. \A j \in Ids : j < d.next => e.type[j] = d.type[j]
    BY <2>3, <2>6, <2>18
  <2> QED BY <2>17, <2>21, <2>22, <2>23, <2>24, <2>29
<1> QED BY <1>1, <1>2

-------------------------------------------------------------------------------
(* An aggregate comes to be: by promoting a leaf, or under a fresh id.     *)

(* e is d with n made an aggregate of h, under the id i: a leaf's, whose   *)
(* aliases go, or one never handed out.                                    *)
Registers(d, e, h, n, i) ==
    /\ e = [leaf |-> e.leaf, type |-> e.type, home |-> d.home, hier |-> e.hier,
            next |-> e.next, default |-> d.default]
    /\ e.leaf \in [Names -> Ids \cup {NoId}] /\ e.leaf[n] = NoId /\ d.leaf[n] \in {NoId, i}
    /\ \A m \in Names \ {n} : e.leaf[m] = d.leaf[m] /\ d.leaf[m] # i
    /\ e.type = [d.type EXCEPT ![i] = "Consolidated"]
    /\ e.next \in 1..(MaxId + 1) /\ e.next >= d.next /\ i < e.next
    /\ e.hier \in [DOMAIN d.hier -> HierarchyType] /\ DOMAIN e.hier = DOMAIN d.hier
    /\ \A g \in DOMAIN d.hier :
           /\ e.hier[g].kids = d.hier[g].kids /\ e.hier[g].parent = d.hier[g].parent
           /\ \A m \in Names \ {n} : e.hier[g].id[m] = d.hier[g].id[m] /\ d.hier[g].id[m] # i
           /\ \A j \in Ids \ {i} : e.hier[g].title[j] = d.hier[g].title[j]
           /\ Rooted(e.hier[g])
    /\ \A g \in DOMAIN d.hier \ {h} :
           /\ e.hier[g].id[n] \in {NoId, d.hier[g].id[n]} /\ e.hier[g].id[n] # i
           /\ e.hier[g].dirty \/ e.hier[g] = d.hier[g]
    /\ e.hier[h].id[n] = i /\ e.hier[h].title[i] = n
    /\ Bare(d, i) /\ \A g \in DOMAIN d.hier \ {h} : e.hier[g].title = d.hier[g].title

(* What the rest of add_component needs to know of e.                      *)
Made(d, e, h, n) ==
    /\ DimInv(e) /\ CurrentBut(e, {h}) /\ DOMAIN e.hier = DOMAIN d.hier
    /\ e.hier[h].id[n] \in Ids /\ ~Bare(e, e.hier[h].id[n])
    /\ IsConsolidated(e, e.hier[h].id[n]) /\ Carries(d, e)
    /\ \A m \in Names \ {n} :
           /\ e.leaf[m] = d.leaf[m] /\ e.hier[h].id[m] = d.hier[h].id[m]
           /\ IsConsolidated(e, e.hier[h].id[m]) <=> IsConsolidated(d, d.hier[h].id[m])

LEMMA RegistersMakes ==
  ASSUME NEW d, DimInv(d), CurrentBut(d, {}), NEW h \in DOMAIN d.hier, NEW n \in Names,
         NEW i \in Ids, NEW e, Registers(d, e, h, n, i)
  PROVE  Made(d, e, h, n)
<1>1. PICK L, T, H, N : L = e.leaf /\ T = e.type /\ H = e.hier /\ N = e.next
  OBVIOUS
<1>2. /\ e = [leaf |-> L, type |-> T, home |-> d.home, hier |-> H, next |-> N, default |-> d.default]
      /\ e.home = d.home /\ e.default = d.default
  BY <1>1 DEF Registers
<1>3. /\ L \in [Names -> Ids \cup {NoId}] /\ L[n] = NoId /\ d.leaf[n] \in {NoId, i}
      /\ \A m \in Names \ {n} : L[m] = d.leaf[m] /\ d.leaf[m] # i
  BY <1>1 DEF Registers
<1>4. /\ T \in [Ids -> {"Leaf", "Consolidated", "none"}]
      /\ T[i] = "Consolidated" /\ \A j \in Ids \ {i} : T[j] = d.type[j]
  BY <1>1 DEF Registers, DimInv, DimType
<1>5. /\ N \in 1..(MaxId + 1) /\ N \in Nat /\ d.next \in Nat /\ N >= d.next /\ i < N /\ i \in Nat
      /\ i # NoId /\ \A j \in Ids : j >= N => j >= d.next /\ j # i
  BY <1>1, MaxIdIsNat DEF Registers, DimInv, DimType, Ids, NoId
<1>6. H \in [DOMAIN d.hier -> HierarchyType] /\ DOMAIN H = DOMAIN d.hier
  BY <1>1 DEF Registers
<1>7. ASSUME NEW g \in DOMAIN d.hier
      PROVE  /\ H[g].kids = d.hier[g].kids /\ H[g].parent = d.hier[g].parent
             /\ \A j \in Ids \ {i} : H[g].title[j] = d.hier[g].title[j]
             /\ Rooted(H[g])
  BY <1>1 DEF Registers
<1>8. ASSUME NEW g \in DOMAIN d.hier, NEW m \in Names \ {n}
      PROVE  H[g].id[m] = d.hier[g].id[m] /\ d.hier[g].id[m] # i
  BY <1>1 DEF Registers
<1>9. ASSUME NEW g \in DOMAIN d.hier \ {h}
      PROVE  /\ H[g].id[n] \in {NoId, d.hier[g].id[n]} /\ H[g].id[n] # i
             /\ H[g].dirty \/ H[g] = d.hier[g]
  BY <1>1 DEF Registers
<1>10. H[h].id[n] = i
  BY <1>1 DEF Registers
<1>11. ASSUME NEW g \in DOMAIN d.hier, NEW m \in Names
       PROVE  /\ H[g].id[m] = i => g = h /\ m = n
              /\ H[g].id[m] # i => H[g].id[m] \in {NoId, d.hier[g].id[m]}
  BY <1>8, <1>9, <1>10
<1>12. DimType(e)
  BY <1>1, <1>2, <1>3, <1>4, <1>5, <1>6 DEF DimInv, DimType
<1>13. Forests(e)
  BY <1>1, <1>6, <1>7 DEF DimInv, Forests, Tree
<1>14. GivenIds(e)
  <2>1. ASSUME NEW m \in Names PROVE L[m] < N
    <3>1. d.leaf[m] < d.next /\ d.leaf[m] \in Nat
      BY DEF DimInv, GivenIds, DimType, Ids, NoId
    <3>2. NoId < N
      BY <1>5 DEF NoId
    <3> QED BY <1>3, <1>5, <3>1, <3>2
  <2>2. ASSUME NEW g \in DOMAIN d.hier, NEW m \in Names PROVE H[g].id[m] < N
    <3>1. d.hier[g].id[m] < d.next /\ d.hier[g].id[m] \in Nat
      <4>1. d.hier[g].id \in [Names -> Ids \cup {NoId}]
        BY HierarchyIs DEF DimInv, DimType
      <4> QED BY <4>1 DEF DimInv, GivenIds, Ids, NoId
    <3>2. NoId < N
      BY <1>5 DEF NoId
    <3> QED BY <1>5, <1>11, <3>1, <3>2
  <2>3. \A j \in Ids : j >= N => T[j] = "none"
    BY <1>4, <1>5 DEF DimInv, GivenIds
  <2> QED BY <1>1, <1>6, <2>1, <2>2, <2>3 DEF GivenIds
<1>15. OneNameEach(e)
  <2>1. ASSUME NEW k \in Names, NEW m \in Names, L[k] # NoId, L[k] = L[m] PROVE k = m
    BY <1>3, <2>1 DEF DimInv, OneNameEach
  <2>2. ASSUME NEW g \in DOMAIN d.hier, NEW k \in Names, NEW m \in Names, L[m] # NoId,
               H[g].id[k] = L[m]
        PROVE  k = m
    <3>1. m # n /\ L[m] = d.leaf[m] /\ L[m] # i
      BY <1>3, <2>2
    <3>2. H[g].id[k] = d.hier[g].id[k]
      BY <1>11, <2>2, <3>1
    <3> QED BY <2>2, <3>1, <3>2 DEF DimInv, OneNameEach
  <2> QED BY <1>1, <1>6, <2>1, <2>2 DEF OneNameEach
<1>16. LeavesAreTyped(e)
  <2> SUFFICES ASSUME NEW m \in Names, L[m] # NoId PROVE T[L[m]] = "Leaf"
    BY <1>1 DEF LeavesAreTyped
  <2>1. m # n /\ L[m] = d.leaf[m] /\ L[m] # i /\ L[m] \in Ids
    BY <1>3
  <2> QED BY <1>4, <2>1 DEF DimInv, LeavesAreTyped
<1>17. DefaultLives(e)
  BY <1>1, <1>2, <1>4 DEF DimInv, DefaultLives, DimType
<1>18. ~Bare(e, i) /\ \A j \in Ids : Bare(e, j) => Bare(d, j) /\ j # i
  <2>1. \A j \in Ids : IsLeaf(e, j) => IsLeaf(d, j) /\ j # i
    <3>1. \A j \in Ids : j # NoId
      BY DEF Ids, NoId
    <3> QED BY <1>1, <1>3, <3>1 DEF IsLeaf
  <2> QED BY <1>1, <1>5, <2>1 DEF Bare
<1>19. BareIds(e)
  BY <1>1, <1>6, <1>7, <1>18 DEF DimInv, BareIds
<1>20. SharedAreLeaves(e)
  <2> SUFFICES ASSUME NEW f \in DOMAIN d.hier, NEW g \in DOMAIN d.hier, NEW k \in Names,
                      NEW m \in Names, f # g, H[f].id[k] = H[g].id[m], H[f].id[k] # NoId
               PROVE  \E l \in Names : L[l] = H[f].id[k]
    BY <1>1, <1>6 DEF SharedAreLeaves, IsLeaf
  <2>1. H[f].id[k] # i
    BY <1>11
  <2>2. H[f].id[k] = d.hier[f].id[k] /\ H[g].id[m] = d.hier[g].id[m]
    BY <1>11, <2>1
  <2>3. IsLeaf(d, d.hier[f].id[k])
    BY <2>2 DEF DimInv, SharedAreLeaves
  <2>4. PICK l \in Names : d.leaf[l] = d.hier[f].id[k]
    BY <2>3 DEF IsLeaf
  <2>5. l # n
    BY <1>3, <2>1, <2>2, <2>4
  <2> QED BY <1>3, <2>2, <2>4, <2>5
<1>21. CurrentBut(e, {h})
  <2> SUFFICES ASSUME NEW g \in DOMAIN d.hier \ {h} PROVE Current(H[g])
    BY <1>1, <1>6 DEF CurrentBut
  <2>1. Current(d.hier[g])
    BY DEF CurrentBut
  <2> QED BY <1>9, <2>1 DEF Current
<1>25. /\ H[h].title[i] = n /\ n # NoName
       /\ \A g \in DOMAIN d.hier : d.hier[g].title[i] = NoName
       /\ \A g \in DOMAIN d.hier \ {h} : H[g].title = d.hier[g].title
  BY <1>1, NoNameIsNoName DEF Registers, DimInv, BareIds
<1>26. ASSUME NEW j \in Ids, j # i, IsLeaf(d, j) PROVE IsLeaf(e, j)
  <2>1. PICK l \in Names : d.leaf[l] = j
    BY <1>26 DEF IsLeaf
  <2>2. l # n
    BY <1>3, <1>26, <2>1 DEF Ids, NoId
  <2> QED BY <1>1, <1>3, <2>1, <2>2 DEF IsLeaf
<1>27. \A g \in DOMAIN d.hier : \A j \in Ids : d.hier[g].title[j] # NoName => H[g].title[j] # NoName
  BY <1>7, <1>25
<1>28. Titled(e)
  <2> SUFFICES ASSUME NEW g \in DOMAIN d.hier, NEW m \in Names, H[g].id[m] # NoId, ~IsLeaf(e, H[g].id[m])
               PROVE  H[g].title[H[g].id[m]] # NoName
    BY <1>1, <1>6 DEF Titled
  <2>1. CASE H[g].id[m] = i
    BY <1>11, <1>25, <2>1
  <2>2. CASE H[g].id[m] # i
    <3>1. H[g].id[m] = d.hier[g].id[m]
      BY <1>11, <2>2
    <3>2. d.hier[g].id[m] \in Ids
      <4>1. d.hier[g].id \in [Names -> Ids \cup {NoId}]
        BY HierarchyIs DEF DimInv, DimType
      <4> QED BY <3>1, <4>1
    <3>3. ~IsLeaf(d, d.hier[g].id[m])
      BY <1>26, <2>2, <3>1, <3>2
    <3>4. d.hier[g].title[d.hier[g].id[m]] # NoName
      BY <3>1, <3>3 DEF DimInv, Titled
    <3> QED BY <1>27, <3>1, <3>2, <3>4
  <2> QED BY <2>1, <2>2
<1>29. OneTitle(e)
  <2> SUFFICES ASSUME NEW f \in DOMAIN d.hier, NEW g \in DOMAIN d.hier, NEW j \in Ids,
                      H[f].title[j] # NoName, H[g].title[j] # NoName
               PROVE  f = g
    BY <1>1, <1>6 DEF OneTitle
  <2>1. CASE j = i
    BY <1>25, <2>1
  <2>2. CASE j # i
    BY <1>7, <2>2 DEF DimInv, OneTitle
  <2> QED BY <2>1, <2>2
<1>30. Carries(d, e)
  <2>1. ASSUME NEW j \in Ids, HasName(d, j) PROVE HasName(e, j)
    <3>1. CASE j = i
      <4>1. e.hier[h].title[j] # NoName /\ h \in DOMAIN e.hier
        BY <1>1, <1>6, <1>25, <3>1
      <4> QED BY <4>1, HasNameIs
    <3>2. CASE j # i /\ IsLeaf(d, j)
      BY <1>26, <3>2, HasNameIs
    <3>3. CASE ~IsLeaf(d, j)
      <4>1. PICK g \in DOMAIN d.hier : d.hier[g].title[j] # NoName
        BY <2>1, <3>3, HasNameIs
      <4>2. e.hier[g].title[j] # NoName /\ g \in DOMAIN e.hier
        BY <1>1, <1>6, <1>27, <4>1
      <4> QED BY <4>2, HasNameIs
    <3> QED BY <3>1, <3>2, <3>3
  <2> QED BY <1>1, <1>2, <1>6, <2>1 DEF Carries
<1>22. DimInv(e)
  BY <1>12, <1>13, <1>14, <1>15, <1>16, <1>17, <1>19, <1>20, <1>28, <1>29 DEF DimInv
<1>23. IsConsolidated(e, i)
  BY <1>1, <1>4, <1>5 DEF IsConsolidated
<1>24. ASSUME NEW m \in Names \ {n}
       PROVE  /\ e.leaf[m] = d.leaf[m] /\ e.hier[h].id[m] = d.hier[h].id[m]
              /\ IsConsolidated(e, e.hier[h].id[m]) <=> IsConsolidated(d, d.hier[h].id[m])
  <2>1. H[h].id[m] = d.hier[h].id[m] /\ d.hier[h].id[m] # i
    BY <1>8
  <2>2. d.hier[h].id[m] \in Ids \cup {NoId}
    BY HierarchyIs DEF DimInv, DimType
  <2> QED BY <1>1, <1>3, <1>4, <2>1, <2>2 DEF IsConsolidated
<1> QED BY <1>1, <1>6, <1>10, <1>18, <1>21, <1>22, <1>23, <1>24, <1>30 DEF Made

LEMMA PromoteRegisters ==
  ASSUME NEW d, DimInv(d), NEW h \in DOMAIN d.hier, NEW n \in Names, d.leaf[n] # NoId,
         NEW i, i = d.leaf[n], NEW e, e = Promote(d, h, n)
  PROVE  i \in Ids /\ Registers(d, e, h, n, i) /\ e.next = d.next
<1>1. i \in Ids /\ i \in Nat /\ i < d.next /\ d.next \in 1..(MaxId + 1) /\ d.next \in Nat /\ IsLeaf(d, i)
  BY MaxIdIsNat DEF DimInv, DimType, GivenIds, IsLeaf, Ids
<1>2. \A m \in Names \ {n} : d.leaf[m] # i
  BY DEF DimInv, OneNameEach
<1>3. \A g \in DOMAIN d.hier : \A m \in Names \ {n} : d.hier[g].id[m] # i
  BY DEF DimInv, OneNameEach
<1>4. PICK U, L, T : /\ U = [g \in DOMAIN d.hier |-> ForgetAlias(d.hier[g], i)]
                     /\ L = [d.leaf EXCEPT ![n] = NoId]
                     /\ T = [d.type EXCEPT ![i] = "Consolidated"]
  OBVIOUS
<1>5. PICK y : y = RegisterAggregate(U[h], n, i)
  OBVIOUS
<1>6. PICK H : H = [U EXCEPT ![h] = y]
  OBVIOUS
<1>7. /\ e = [leaf |-> L, type |-> T, home |-> d.home, hier |-> H, next |-> d.next,
              default |-> d.default]
      /\ e.leaf = L /\ e.type = T /\ e.hier = H /\ e.next = d.next
  <2>1. e = [d EXCEPT !.leaf = L, !.type = T, !.hier = H]
    BY <1>4, <1>5, <1>6 DEF Promote
  <2> QED BY <2>1 DEF DimInv, DimType
<1>8. ASSUME NEW g \in DOMAIN d.hier PROVE Unaliased(d.hier[g], U[g], i)
  <2>1. d.hier[g].title[i] = NoName
    BY <1>1 DEF DimInv, BareIds, Bare
  <2>2. PICK x \in HierarchyType : x = d.hier[g]
    BY DEF DimInv, DimType
  <2>3. U[g] = ForgetAlias(x, i)
    BY <1>4, <2>2
  <2>4. Unaliased(x, U[g], i)
    BY <1>1, <2>1, <2>2, <2>3, ForgetAliasIs
  <2> QED BY <2>2, <2>4
<1>9. Aggregated(U[h], y, n, i)
  <2>1. PICK x \in HierarchyType : x = U[h]
    BY <1>8 DEF Unaliased
  <2>2. Aggregated(x, y, n, i)
    BY <1>1, <1>5, <2>1, RegisterAggregateIs
  <2> QED BY <2>1, <2>2
<1>10. /\ DOMAIN H = DOMAIN d.hier /\ H[h] = y
       /\ \A g \in DOMAIN d.hier \ {h} : H[g] = U[g]
  BY <1>4, <1>6
<1>11. ASSUME NEW g \in DOMAIN d.hier
       PROVE  /\ H[g] \in HierarchyType
              /\ H[g].kids = d.hier[g].kids /\ H[g].parent = d.hier[g].parent
              /\ \A m \in Names \ {n} : H[g].id[m] = d.hier[g].id[m]
              /\ \A j \in Ids \ {i} : H[g].title[j] = d.hier[g].title[j]
              /\ Range(d.hier[g].roots) \ {i} \subseteq Range(H[g].roots)
  <2>1. /\ U[g] \in HierarchyType /\ U[g].kids = d.hier[g].kids /\ U[g].parent = d.hier[g].parent
        /\ U[g].title = d.hier[g].title /\ Range(U[g].roots) = Range(d.hier[g].roots) \ {i}
        /\ \A m \in Names \ {n} : U[g].id[m] = d.hier[g].id[m]
    BY <1>3, <1>8 DEF Unaliased
  <2>2. CASE g = h
    BY <1>9, <1>10, <2>1, <2>2 DEF Aggregated
  <2>3. CASE g # h
    BY <1>10, <2>1, <2>3
  <2> QED BY <2>2, <2>3
<1>12. H[h].id[n] = i /\ i \in Range(H[h].roots)
  BY <1>9, <1>10 DEF Aggregated
<1>13. ASSUME NEW g \in DOMAIN d.hier \ {h}
       PROVE  /\ H[g].id[n] \in {NoId, d.hier[g].id[n]} /\ H[g].id[n] # i
              /\ H[g].dirty \/ H[g] = d.hier[g]
  <2>1. i # NoId
    BY <1>1 DEF Ids, NoId
  <2>2. Unaliased(d.hier[g], H[g], i)
    BY <1>8, <1>10
  <2>3. H[g].dirty = TRUE /\ H[g].id[n] = IF d.hier[g].id[n] = i THEN NoId ELSE d.hier[g].id[n]
    BY <2>2 DEF Unaliased
  <2> QED BY <2>1, <2>3
<1>14. ASSUME NEW g \in DOMAIN d.hier PROVE Rooted(H[g])
  <2> SUFFICES ASSUME NEW j \in Ids, H[g].parent[j] = NoId,
                      H[g].kids[j] # <<>> \/ \E m \in Names : H[g].id[m] = j
               PROVE  j \in Range(H[g].roots)
    BY DEF Rooted
  <2>1. Rooted(d.hier[g])
    BY DEF DimInv, Forests
  <2>2. CASE j = i
    <3>1. d.hier[g].kids[i] = <<>>
      BY <1>1 DEF DimInv, BareIds, Bare
    <3>2. PICK m \in Names : H[g].id[m] = i
      BY <1>11, <2>2, <3>1
    <3>3. m = n
      BY <1>3, <1>11, <3>2
    <3>4. g = h
      BY <1>13, <3>2, <3>3
    <3> QED BY <1>12, <2>2, <3>4
  <2>3. CASE j # i
    <3>1. d.hier[g].kids[j] # <<>> \/ \E m \in Names : d.hier[g].id[m] = j
      <4>1. ASSUME NEW m \in Names, H[g].id[m] = j PROVE d.hier[g].id[m] = j
        <5>1. CASE m # n
          BY <1>11, <4>1, <5>1
        <5>2. CASE m = n
          <6>1. g # h
            BY <1>12, <2>3, <4>1, <5>2
          <6>2. j # NoId
            BY DEF Ids, NoId
          <6> QED BY <1>13, <4>1, <5>2, <6>1, <6>2
        <5> QED BY <5>1, <5>2
      <4> QED BY <1>11, <4>1
    <3>2. d.hier[g].parent[j] = NoId
      BY <1>11
    <3>3. j \in Range(d.hier[g].roots)
      BY <2>1, <3>1, <3>2 DEF Rooted
    <3> QED BY <1>11, <2>3, <3>3
  <2> QED BY <2>2, <2>3
<1>15. L \in [Names -> Ids \cup {NoId}] /\ L[n] = NoId /\ \A m \in Names \ {n} : L[m] = d.leaf[m]
  BY <1>4 DEF DimInv, DimType
<1>16. H \in [DOMAIN d.hier -> HierarchyType]
  <2>1. H = [g \in DOMAIN d.hier |-> H[g]]
    BY <1>4, <1>6, <1>10
  <2> QED BY <1>11, <2>1
<1>17. d.next >= d.next
  BY <1>1
<1>19. /\ H[h].title[i] = n /\ Bare(d, i)
       /\ \A g \in DOMAIN d.hier \ {h} : H[g].title = d.hier[g].title
  BY <1>1, <1>8, <1>9, <1>10 DEF Aggregated, Unaliased, Bare
<1>18. Registers(d, e, h, n, i)
  <2>1. \A g \in DOMAIN d.hier :
           /\ e.hier[g].kids = d.hier[g].kids /\ e.hier[g].parent = d.hier[g].parent
           /\ \A m \in Names \ {n} : e.hier[g].id[m] = d.hier[g].id[m] /\ d.hier[g].id[m] # i
           /\ \A j \in Ids \ {i} : e.hier[g].title[j] = d.hier[g].title[j]
           /\ Rooted(e.hier[g])
    BY <1>3, <1>7, <1>11, <1>14
  <2>2. /\ e.leaf \in [Names -> Ids \cup {NoId}] /\ e.leaf[n] = NoId /\ d.leaf[n] \in {NoId, i}
        /\ \A m \in Names \ {n} : e.leaf[m] = d.leaf[m] /\ d.leaf[m] # i
    BY <1>2, <1>7, <1>15
  <2>3. e.next \in 1..(MaxId + 1) /\ e.next >= d.next /\ i < e.next
    BY <1>1, <1>7, <1>17
  <2>4. e = [leaf |-> e.leaf, type |-> e.type, home |-> d.home, hier |-> e.hier,
             next |-> e.next, default |-> d.default]
    BY <1>7
  <2>5. e.type = [d.type EXCEPT ![i] = "Consolidated"]
    BY <1>4, <1>7
  <2>6. \A g \in DOMAIN d.hier \ {h} :
           /\ e.hier[g].id[n] \in {NoId, d.hier[g].id[n]} /\ e.hier[g].id[n] # i
           /\ e.hier[g].dirty \/ e.hier[g] = d.hier[g]
    BY <1>7, <1>13
  <2>7. /\ e.hier \in [DOMAIN d.hier -> HierarchyType] /\ DOMAIN e.hier = DOMAIN d.hier
        /\ e.hier[h].id[n] = i
    BY <1>7, <1>10, <1>12, <1>16
  <2>8. /\ e.hier[h].title[i] = n /\ Bare(d, i)
        /\ \A g \in DOMAIN d.hier \ {h} : e.hier[g].title = d.hier[g].title
    BY <1>7, <1>19
  <2> QED BY <2>1, <2>2, <2>3, <2>4, <2>5, <2>6, <2>7, <2>8 DEF Registers
<1> QED BY <1>1, <1>7, <1>18

LEMMA FreshRegisters ==
  ASSUME NEW d, DimInv(d), NEW h \in DOMAIN d.hier, NEW n \in Names, d.leaf[n] = NoId,
         d.next <= MaxId, NEW e, e = [d EXCEPT !.type[d.next] = "Consolidated",
                                               !.next = @ + 1,
                                               !.hier[h] = RegisterAggregate(@, n, d.next)]
  PROVE  d.next \in Ids /\ Registers(d, e, h, n, d.next) /\ e.next = d.next + 1
<1>1. PICK i \in Ids : i = d.next /\ i \in Nat /\ i + 1 \in 1..(MaxId + 1) /\ i < i + 1 /\ i + 1 >= i
                       /\ i # NoId
  BY MaxIdIsNat DEF DimInv, DimType, Ids, NoId
<1>2. \A m \in Names : d.leaf[m] # i
  BY <1>1 DEF DimInv, GivenIds
<1>3. \A g \in DOMAIN d.hier : \A m \in Names : d.hier[g].id[m] # i
  BY <1>1 DEF DimInv, GivenIds
<1>4. PICK T, y : T = [d.type EXCEPT ![i] = "Consolidated"] /\ y = RegisterAggregate(d.hier[h], n, i)
  OBVIOUS
<1>5. PICK H : H = [d.hier EXCEPT ![h] = y]
  OBVIOUS
<1>6. /\ e = [leaf |-> d.leaf, type |-> T, home |-> d.home, hier |-> H, next |-> i + 1,
              default |-> d.default]
      /\ e.leaf = d.leaf /\ e.type = T /\ e.hier = H /\ e.next = i + 1
  BY <1>1, <1>4, <1>5 DEF DimInv, DimType
<1>7. /\ DOMAIN H = DOMAIN d.hier /\ H[h] = y
      /\ \A g \in DOMAIN d.hier \ {h} : H[g] = d.hier[g]
  BY <1>5 DEF DimInv, DimType
<1>8. Aggregated(d.hier[h], H[h], n, i)
  <2>1. PICK x \in HierarchyType : x = d.hier[h]
    BY DEF DimInv, DimType
  <2>2. Aggregated(x, y, n, i)
    BY <1>4, <2>1, RegisterAggregateIs
  <2> QED BY <1>7, <2>1, <2>2
<1>9. ASSUME NEW g \in DOMAIN d.hier
      PROVE  /\ H[g] \in HierarchyType
             /\ H[g].kids = d.hier[g].kids /\ H[g].parent = d.hier[g].parent
             /\ \A m \in Names \ {n} : H[g].id[m] = d.hier[g].id[m]
             /\ \A j \in Ids \ {i} : H[g].title[j] = d.hier[g].title[j]
  <2>1. CASE g = h
    BY <1>8, <2>1 DEF Aggregated
  <2>2. CASE g # h
    <3>1. d.hier[g] \in HierarchyType
      BY DEF DimInv, DimType
    <3> QED BY <1>7, <2>2, <3>1
  <2> QED BY <2>1, <2>2
<1>10. H[h].id[n] = i /\ Range(H[h].roots) = Range(d.hier[h].roots) \cup {i}
  BY <1>8 DEF Aggregated
<1>11. ASSUME NEW g \in DOMAIN d.hier PROVE Rooted(H[g])
  <2>1. Rooted(d.hier[g])
    BY DEF DimInv, Forests
  <2>2. CASE g # h
    BY <1>7, <2>1, <2>2
  <2>3. CASE g = h
    <3>1. \A m \in Names : H[h].id[m] = i \/ H[h].id[m] = d.hier[h].id[m]
      BY <1>9, <1>10
    <3> QED BY <1>9, <1>10, <2>1, <2>3, <3>1 DEF Rooted
  <2> QED BY <2>2, <2>3
<1>12. H \in [DOMAIN d.hier -> HierarchyType]
  <2>1. H = [g \in DOMAIN d.hier |-> H[g]]
    BY <1>5, <1>7 DEF DimInv, DimType
  <2> QED BY <1>9, <2>1
<1>13. ASSUME NEW g \in DOMAIN d.hier \ {h}
       PROVE  /\ H[g].id[n] \in {NoId, d.hier[g].id[n]} /\ H[g].id[n] # i
              /\ H[g].dirty \/ H[g] = d.hier[g]
  BY <1>3, <1>7
<1>14. d.leaf \in [Names -> Ids \cup {NoId}]
  BY DEF DimInv, DimType
<1>15. Registers(d, e, h, n, i)
  <2>1. \A g \in DOMAIN d.hier :
           /\ e.hier[g].kids = d.hier[g].kids /\ e.hier[g].parent = d.hier[g].parent
           /\ \A m \in Names \ {n} : e.hier[g].id[m] = d.hier[g].id[m] /\ d.hier[g].id[m] # i
           /\ \A j \in Ids \ {i} : e.hier[g].title[j] = d.hier[g].title[j]
           /\ Rooted(e.hier[g])
    BY <1>3, <1>6, <1>9, <1>11
  <2>2. /\ e.leaf \in [Names -> Ids \cup {NoId}] /\ e.leaf[n] = NoId /\ d.leaf[n] \in {NoId, i}
        /\ \A m \in Names \ {n} : e.leaf[m] = d.leaf[m] /\ d.leaf[m] # i
    BY <1>2, <1>6, <1>14
  <2>3. e.next \in 1..(MaxId + 1) /\ e.next >= d.next /\ i < e.next
    BY <1>1, <1>6
  <2>4. e = [leaf |-> e.leaf, type |-> e.type, home |-> d.home, hier |-> e.hier,
             next |-> e.next, default |-> d.default]
    BY <1>6
  <2>5. e.type = [d.type EXCEPT ![i] = "Consolidated"]
    BY <1>4, <1>6
  <2>6. \A g \in DOMAIN d.hier \ {h} :
           /\ e.hier[g].id[n] \in {NoId, d.hier[g].id[n]} /\ e.hier[g].id[n] # i
           /\ e.hier[g].dirty \/ e.hier[g] = d.hier[g]
    BY <1>6, <1>13
  <2>7. e.hier = H
    BY <1>6
  <2>8. e.hier \in [DOMAIN d.hier -> HierarchyType] /\ DOMAIN e.hier = DOMAIN d.hier /\ e.hier[h].id[n] = i
    BY <1>7, <1>10, <1>12, <2>7
  <2>9. /\ e.hier[h].title[i] = n /\ Bare(d, i)
        /\ \A g \in DOMAIN d.hier \ {h} : e.hier[g].title = d.hier[g].title
    <3>1. i >= d.next
      BY <1>1
    <3> QED BY <1>7, <1>8, <2>7, <3>1 DEF Aggregated, Bare
  <2> QED BY <2>1, <2>2, <2>3, <2>4, <2>5, <2>6, <2>7, <2>8, <2>9 DEF Registers
<1> QED BY <1>1, <1>6, <1>15

LEMMA AddConsolidatedIs ==
  ASSUME NEW d, DimInv(d), CurrentBut(d, {}), NEW h \in DOMAIN d.hier, NEW n \in Names,
         d.leaf[n] = NoId /\ ~IsConsolidated(d, d.hier[h].id[n]) => d.next <= MaxId,
         NEW e, e = AddConsolidated(d, h, n)
  PROVE  /\ Made(d, e, h, n)
         /\ e.next = IF d.leaf[n] = NoId /\ ~IsConsolidated(d, d.hier[h].id[n])
                     THEN d.next + 1 ELSE d.next
<1>1. CASE IsConsolidated(d, d.hier[h].id[n])
  <2>1. e = d
    BY <1>1 DEF AddConsolidated
  <2>2. PICK i : i = d.hier[h].id[n]
    OBVIOUS
  <2>3. i \in Ids /\ d.type[i] = "Consolidated"
    <3>1. d.hier[h].id \in [Names -> Ids \cup {NoId}]
      BY HierarchyIs DEF DimInv, DimType
    <3> QED BY <1>1, <2>2, <3>1 DEF IsConsolidated
  <2>4. ~Bare(d, i)
    <3>1. ~IsLeaf(d, i)
      <4>1. i # NoId
        BY <2>3 DEF Ids, NoId
      <4> QED BY <2>3, <4>1 DEF DimInv, LeavesAreTyped, IsLeaf
    <3>2. ~(i >= d.next)
      BY <2>3 DEF DimInv, GivenIds
    <3> QED BY <3>1, <3>2 DEF Bare
  <2>5. CurrentBut(d, {h}) /\ Carries(d, d)
    BY DEF CurrentBut, Carries
  <2> QED BY <1>1, <2>1, <2>2, <2>3, <2>4, <2>5 DEF Made
<1>2. CASE ~IsConsolidated(d, d.hier[h].id[n]) /\ d.leaf[n] # NoId
  <2>1. e = Promote(d, h, n)
    BY <1>2 DEF AddConsolidated
  <2>2. PICK i \in Ids : Registers(d, e, h, n, i) /\ e.next = d.next
    BY <1>2, <2>1, PromoteRegisters
  <2> QED BY <1>2, <2>2, RegistersMakes
<1>3. CASE ~IsConsolidated(d, d.hier[h].id[n]) /\ d.leaf[n] = NoId
  <2>1. e = [d EXCEPT !.type[d.next] = "Consolidated", !.next = @ + 1,
                      !.hier[h] = RegisterAggregate(@, n, d.next)]
    BY <1>3 DEF AddConsolidated
  <2>2. d.next \in Ids /\ Registers(d, e, h, n, d.next) /\ e.next = d.next + 1
    BY <1>3, <2>1, FreshRegisters
  <2>3. Made(d, e, h, n)
    BY <2>2, RegistersMakes
  <2> QED BY <1>3, <2>2, <2>3
<1> QED BY <1>1, <1>2, <1>3

-------------------------------------------------------------------------------
(* A link is added or removed; a parent left without children is typed as  *)
(* a leaf.                                                                 *)

LEMMA DowngradedIs ==
  ASSUME NEW d, DimInv(d), NEW X, CurrentBut(d, X), NEW h \in DOMAIN d.hier,
         NEW i \in Ids \cup {NoId}, i # NoId => i < d.next, NEW e, e = Downgraded(d, h, i)
  PROVE  DimInv(e) /\ CurrentBut(e, X) /\ DOMAIN e.hier = DOMAIN d.hier /\ Carries(d, e)
<1>1. CASE e = d
  BY <1>1 DEF Carries
<1>2. CASE e # d
  <2>1. i \in Ids /\ i < d.next /\ i \in Nat /\ d.next \in Nat
    BY <1>2, MaxIdIsNat DEF Downgraded, DimInv, DimType, Ids
  <2>2. PICK T : T = [d.type EXCEPT ![i] = "Leaf"]
    OBVIOUS
  <2>3. /\ e = [leaf |-> d.leaf, type |-> T, home |-> d.home, hier |-> d.hier,
                next |-> d.next, default |-> d.default]
        /\ e.leaf = d.leaf /\ e.type = T /\ e.home = d.home /\ e.hier = d.hier
        /\ e.next = d.next /\ e.default = d.default
    <3>1. e = [d EXCEPT !.type = T]
      BY <1>2, <2>2 DEF Downgraded
    <3> QED BY <3>1 DEF DimInv, DimType
  <2>4. /\ T \in [Ids -> {"Leaf", "Consolidated", "none"}]
        /\ T[i] = "Leaf" /\ \A j \in Ids \ {i} : T[j] = d.type[j]
    BY <2>1, <2>2 DEF DimInv, DimType
  <2>5. DimType(e)
    BY <2>3, <2>4 DEF DimInv, DimType
  <2>6. Forests(e) /\ OneNameEach(e)
    BY <2>3 DEF DimInv, Forests, OneNameEach
  <2>7. GivenIds(e)
    <3>1. \A j \in Ids : j >= d.next => j # i
      BY <2>1 DEF Ids
    <3> QED BY <2>3, <2>4, <3>1 DEF DimInv, GivenIds
  <2>8. LeavesAreTyped(e)
    BY <2>3, <2>4 DEF DimInv, DimType, LeavesAreTyped
  <2>9. DefaultLives(e)
    BY <2>3, <2>4 DEF DimInv, DimType, DefaultLives
  <2>10. BareIds(e)
    BY <2>3 DEF DimInv, BareIds, Bare, IsLeaf
  <2>11. SharedAreLeaves(e)
    BY <2>3 DEF DimInv, SharedAreLeaves, IsLeaf
  <2>12. CurrentBut(e, X)
    BY <2>3 DEF CurrentBut
  <2>13. Titled(e) /\ OneTitle(e) /\ Carries(d, e)
    BY <2>3, SameTitles
  <2> QED BY <2>3, <2>5, <2>6, <2>7, <2>8, <2>9, <2>10, <2>11, <2>12, <2>13 DEF DimInv
<1> QED BY <1>1, <1>2

LEMMA AtMostTwo ==
  ASSUME NEW p, NEW c, NEW S, S \subseteq {p, c}
  PROVE  /\ Cardinality(S) \in Nat
         /\ p \in S => Cardinality(S) >= 1
         /\ c \in S => Cardinality(S) >= 1
         /\ p # c /\ p \in S /\ c \in S => Cardinality(S) >= 2
<1>1. IsFiniteSet({p}) /\ Cardinality({p}) = 1 /\ Cardinality({c}) = 1 /\ IsFiniteSet({c})
  BY FS_Singleton
<1>2. IsFiniteSet({p} \cup {c}) /\ (p # c => Cardinality({p} \cup {c}) = 2)
  BY <1>1, FS_AddElement
<1>3. IsFiniteSet(S)
  <2>1. S \subseteq {p} \cup {c}
    OBVIOUS
  <2> QED BY <1>2, <2>1, FS_Subset
<1>4. Cardinality(S) \in Nat
  BY <1>3, FS_CardinalityType
<1>5. ASSUME NEW x \in S PROVE Cardinality(S) >= 1
  <2>1. S # {}
    OBVIOUS
  <2>2. Cardinality(S) # 0
    BY <1>3, <2>1, FS_EmptySet
  <2> QED BY <1>4, <2>2
<1>6. p # c /\ p \in S /\ c \in S => S = {p} \cup {c}
  OBVIOUS
<1> QED BY <1>2, <1>4, <1>5, <1>6

(* The ids that add_component gives to a new parent and to a new child.    *)
Roomy(d, h, p, c) ==
    LET w == AddConsolidated(d, h, p)
    IN  /\ d.leaf[p] = NoId /\ ~IsConsolidated(d, d.hier[h].id[p]) => d.next <= MaxId
        /\ ~IsConsolidated(w, w.hier[h].id[c]) /\ w.leaf[c] = NoId => w.next <= MaxId

LEMMA HasRoomIs ==
  ASSUME NEW d, DimInv(d), CurrentBut(d, {}), NEW h \in DOMAIN d.hier,
         NEW p \in Names, NEW c \in Names,
         d.next + Cardinality({n \in {p, c} : /\ d.leaf[n] = NoId
                                              /\ ~IsConsolidated(d, d.hier[h].id[n])}) <= MaxId + 1
  PROVE  Roomy(d, h, p, c)
<1> DEFINE New(n) == d.leaf[n] = NoId /\ ~IsConsolidated(d, d.hier[h].id[n])
<1>1. /\ New(p) \/ New(c) => d.next <= MaxId
      /\ p # c /\ New(p) /\ New(c) => d.next + 1 <= MaxId
  <2>1. PICK S : S = {n \in {p, c} : /\ d.leaf[n] = NoId
                                     /\ ~IsConsolidated(d, d.hier[h].id[n])}
    OBVIOUS
  <2>2. S \subseteq {p, c} /\ (p \in S <=> New(p)) /\ (c \in S <=> New(c))
    BY <2>1
  <2>3. d.next + Cardinality(S) <= MaxId + 1
    BY <2>1
  <2>4. d.next \in Nat
    BY MaxIdIsNat DEF DimInv, DimType
  <2> HIDE DEF New
  <2>5. /\ Cardinality(S) \in Nat
        /\ p \in S => Cardinality(S) >= 1
        /\ c \in S => Cardinality(S) >= 1
        /\ p # c /\ p \in S /\ c \in S => Cardinality(S) >= 2
    BY <2>2, AtMostTwo
  <2> QED BY <2>2, <2>3, <2>4, <2>5, MaxIdIsNat
<1>2. PICK w : w = AddConsolidated(d, h, p)
  OBVIOUS
<1>3. Made(d, w, h, p) /\ w.next = IF New(p) THEN d.next + 1 ELSE d.next
  BY <1>1, <1>2, AddConsolidatedIs
<1>4. ASSUME ~IsConsolidated(w, w.hier[h].id[c]), w.leaf[c] = NoId PROVE w.next <= MaxId
  <2>1. p # c
    BY <1>3, <1>4 DEF Made
  <2>2. New(c)
    BY <1>3, <1>4, <2>1 DEF Made
  <2> HIDE DEF New
  <2> QED BY <1>1, <1>3, <2>1, <2>2
<1> QED BY <1>1, <1>2, <1>4 DEF Roomy

LEMMA RoomLeft ==
  ASSUME NEW d, Shape(d), NEW h \in DOMAIN d.hier, NEW p \in Names, NEW c \in Names,
         AddComponent(d, h, p, c).next <= MaxId + 1
  PROVE  Roomy(d, h, p, c)
<1>1. PICK w : w = AddConsolidated(d, h, p)
  OBVIOUS
<1>2. Grows(d, w) /\ Shape(w) /\ h \in DOMAIN w.hier
  BY <1>1, AddConsolidatedGrows DEF Grows
<1>3. PICK x : x = IF IsConsolidated(w, w.hier[h].id[c]) THEN w ELSE AddLeaf(w, c)
  OBVIOUS
<1>4. Shape(x) /\ x.next >= w.next
  BY <1>2, <1>3, AddLeafGrows DEF Grows, Shape
<1>5. AddComponent(d, h, p, c).next = x.next
  <2>1. PICK i, j, z : AddComponent(d, h, p, c) = Downgraded([x EXCEPT !.hier[h] = Link(@, i, j)], h, z)
    <3>1. PICK i, j, old : /\ i = w.hier[h].id[p]
                           /\ j = IF IsConsolidated(w, w.hier[h].id[c]) THEN w.hier[h].id[c] ELSE x.leaf[c]
                           /\ old = x.hier[h].parent[j]
      OBVIOUS
    <3>2. AddComponent(d, h, p, c) =
              Downgraded([x EXCEPT !.hier[h] = Link(@, i, j)], h, IF old = i THEN NoId ELSE old)
      BY <1>1, <1>3, <3>1 DEF AddComponent
    <3> QED BY <3>2
  <2>2. PICK y : y = [x EXCEPT !.hier[h] = Link(@, i, j)]
    OBVIOUS
  <2>3. y.next = x.next
    BY <1>4, <2>2 DEF Shape
  <2>4. Downgraded(y, h, z).next = y.next
    BY DEF Downgraded
  <2> QED BY <2>1, <2>2, <2>3, <2>4
<1>6. d.next \in Nat /\ w.next \in Nat /\ x.next \in Nat /\ x.next <= MaxId + 1
  BY <1>2, <1>4, <1>5 DEF Shape
<1>7. ASSUME d.leaf[p] = NoId, ~IsConsolidated(d, d.hier[h].id[p]) PROVE w.next = d.next + 1
  BY <1>1, <1>7 DEF AddConsolidated, Shape
<1>8. ASSUME ~IsConsolidated(w, w.hier[h].id[c]), w.leaf[c] = NoId PROVE x.next = w.next + 1
  BY <1>2, <1>3, <1>8 DEF AddLeaf, Shape
<1>9. /\ d.leaf[p] = NoId /\ ~IsConsolidated(d, d.hier[h].id[p]) => d.next <= MaxId
      /\ ~IsConsolidated(w, w.hier[h].id[c]) /\ w.leaf[c] = NoId => w.next <= MaxId
  BY <1>4, <1>6, <1>7, <1>8, MaxIdIsNat
<1> QED BY <1>1, <1>9 DEF Roomy

LEMMA AddComponentIs ==
  ASSUME NEW d, DimInv(d), CurrentBut(d, {}), NEW h \in DOMAIN d.hier,
         NEW p \in Names, NEW c \in Names, Roomy(d, h, p, c),
         NEW e, e = AddComponent(d, h, p, c)
  PROVE  DimInv(e) /\ CurrentBut(e, {}) /\ Carries(d, e)
<1>2. PICK w : w = AddConsolidated(d, h, p)
  OBVIOUS
<1>3. Made(d, w, h, p)
  BY <1>2, AddConsolidatedIs DEF Roomy
<1>4. PICK pid \in Ids : pid = w.hier[h].id[p] /\ ~Bare(w, pid) /\ IsConsolidated(w, pid)
  BY <1>3 DEF Made
<1>5. DimInv(w) /\ CurrentBut(w, {h}) /\ DOMAIN w.hier = DOMAIN d.hier
  BY <1>3 DEF Made
<1>6. PICK known : known = w.hier[h].id[c]
  OBVIOUS
<1>7. PICK x, cid : /\ x = IF IsConsolidated(w, known) THEN w ELSE AddLeaf(w, c)
                    /\ cid = IF IsConsolidated(w, known) THEN known ELSE x.leaf[c]
  OBVIOUS
<1>8. /\ DimInv(x) /\ CurrentBut(x, {h}) /\ DOMAIN x.hier = DOMAIN d.hier /\ cid \in Ids
      /\ Carries(w, x) /\ ~Bare(x, pid) /\ x.hier[h].id[p] = pid
  <2>1. CASE IsConsolidated(w, known)
    <3>1. known \in Ids
      <4>1. w.hier[h].id \in [Names -> Ids \cup {NoId}]
        BY <1>5, HierarchyIs DEF DimInv, DimType
      <4> QED BY <1>6, <2>1, <4>1 DEF IsConsolidated
    <3>2. Carries(w, w)
      BY DEF Carries
    <3> QED BY <1>4, <1>5, <1>7, <2>1, <3>1, <3>2
  <2>2. CASE ~IsConsolidated(w, known)
    <3>3. w.leaf[c] = NoId => w.next <= MaxId
      BY <1>2, <1>6, <2>2 DEF Roomy
    <3>4. x = AddLeaf(w, c) /\ cid = x.leaf[c]
      BY <1>7, <2>2
    <3>5. /\ DimInv(x) /\ CurrentBut(x, {h}) /\ DOMAIN x.hier = DOMAIN w.hier
          /\ x.leaf[c] \in Ids /\ x.next >= w.next /\ Carries(w, x)
          /\ \A m \in Names : x.leaf[m] \in {w.leaf[m], w.next}
      BY <1>5, <3>3, <3>4, AddLeafIs
    <3>6. x.hier[h].id[p] = pid
      <4>1. pid # NoId
        BY DEF Ids, NoId
      <4>2. \A f \in DOMAIN w.hier : \A m \in Names : w.hier[f].id[m] # NoId =>
                x.hier[f].id[m] = w.hier[f].id[m]
        BY <1>5, <3>3, <3>4, AddLeafIs
      <4> QED BY <1>4, <1>5, <4>1, <4>2
    <3>7. ~Bare(x, pid)
      <4>1. pid \in Nat /\ w.next \in Nat /\ x.next \in Nat
        BY <1>5, <3>5, MaxIdIsNat DEF DimInv, DimType, Ids
      <4>2. pid < w.next
        BY <1>4, <4>1 DEF Bare
      <4> QED BY <1>4, <3>5, <4>1, <4>2 DEF Bare, IsLeaf
    <3> QED BY <1>5, <3>4, <3>5, <3>6, <3>7
  <2> QED BY <2>1, <2>2
<1>9. PICK a \in HierarchyType : a = x.hier[h] /\ Tree(a) /\ Rooted(a)
  BY <1>8 DEF DimInv, DimType, Forests
<1>10. PICK g : g = Link(a, pid, cid)
  OBVIOUS
<1>11. /\ g \in HierarchyType /\ Tree(g) /\ g.dirty = TRUE /\ g.id = a.id /\ g.title = a.title
       /\ StaysChildless(a, g, Ids \ {pid}) /\ Rooted(g)
  <2>1. a.parent[pid] = NoId => pid \in Range(a.roots)
    BY <1>8, <1>9 DEF Rooted
  <2>2. /\ Rearranged(a, g, Ids \ {pid})
        /\ Rooted(a) /\ (a.parent[pid] = NoId => pid \in Range(a.roots)) => Rooted(g)
    BY <1>8, <1>9, <1>10, LinkIs
  <2> QED BY <1>9, <2>1, <2>2 DEF Rearranged
<1>12. \A i \in Ids : Bare(x, i) => g.kids[i] = <<>>
  <2> SUFFICES ASSUME NEW i \in Ids, Bare(x, i) PROVE g.kids[i] = <<>>
    OBVIOUS
  <2>1. i # pid /\ a.kids[i] = <<>>
    BY <1>8, <1>9 DEF DimInv, BareIds
  <2> QED BY <1>11, <2>1 DEF StaysChildless
<1>13. PICK y : y = [x EXCEPT !.hier[h] = g]
  OBVIOUS
<1>14. /\ DimInv(y) /\ DOMAIN y.hier = DOMAIN x.hier /\ y.hier[h] = g /\ y.next = x.next /\ Carries(x, y)
       /\ \A f \in DOMAIN x.hier \ {h} : y.hier[f] = x.hier[f]
  BY <1>8, <1>9, <1>11, <1>12, <1>13, EditHierarchy
<1>15. CurrentBut(y, {})
  BY <1>8, <1>11, <1>14 DEF CurrentBut, Current
<1>16. PICK old : old = a.parent[cid]
  OBVIOUS
<1>17. old \in Ids \cup {NoId} /\ (old # NoId => old < y.next)
  <2>1. old \in Ids \cup {NoId}
    BY <1>8, <1>9, <1>16, HierarchyIs
  <2>2. ASSUME old # NoId PROVE old < y.next
    <3>1. old \in Ids
      BY <2>1, <2>2
    <3>2. cid \in Range(a.kids[old])
      BY <1>8, <1>9, <1>16, <3>1 DEF Tree
    <3>3. a.kids[old] # <<>>
      BY <3>2, NoneIsList
    <3>4. ~(old >= x.next)
      BY <1>8, <1>9, <3>1, <3>3 DEF DimInv, BareIds, Bare
    <3>5. old \in Nat /\ x.next \in Nat
      BY <1>8, <3>1, MaxIdIsNat DEF DimInv, DimType, Ids
    <3> QED BY <1>14, <3>4, <3>5
  <2> QED BY <2>1, <2>2
<1>18. PICK z \in Ids \cup {NoId} : z = (IF old = pid THEN NoId ELSE old) /\ (z # NoId => z < y.next)
  BY <1>17
<1>19. e = Downgraded(y, h, z)
  <2>1. y = [x EXCEPT !.hier[h] = Link(@, pid, cid)]
    BY <1>9, <1>10, <1>13
  <2> QED BY <1>2, <1>4, <1>6, <1>7, <1>9, <1>16, <1>18, <2>1 DEF AddComponent
<1>20. DimInv(e) /\ CurrentBut(e, {}) /\ Carries(y, e)
  BY <1>8, <1>14, <1>15, <1>18, <1>19, DowngradedIs
<1>21. Carries(d, x)
  BY <1>3, <1>8, CarriesOn DEF Made
<1>22. Carries(x, e)
  BY <1>14, <1>20, CarriesOn
<1> QED BY <1>20, <1>21, <1>22, CarriesOn

LEMMA RemoveComponentIs ==
  ASSUME NEW d, DimInv(d), CurrentBut(d, {}), NEW h \in DOMAIN d.hier,
         NEW p \in Names, NEW c \in Names, CanRemoveComponent(d, h, p, c),
         NEW e, e = RemoveComponent(d, h, p, c)
  PROVE  DimInv(e) /\ CurrentBut(e, {}) /\ Carries(d, e)
<1>1. PICK a \in HierarchyType : a = d.hier[h] /\ Tree(a) /\ Rooted(a)
  BY DEF DimInv, DimType, Forests
<1>2. PICK pid \in Ids, cid \in Ids : pid = a.id[p] /\ cid = a.id[c] /\ cid \in Range(a.kids[pid])
  BY <1>1, HierarchyIs DEF CanRemoveComponent
<1>3. a.parent[cid] = pid
  BY <1>1, <1>2 DEF Tree
<1>4. PICK g : g = Unlink(a, pid, cid)
  OBVIOUS
<1>5. /\ g \in HierarchyType /\ Tree(g) /\ g.dirty = TRUE /\ g.id = a.id /\ g.title = a.title
      /\ StaysChildless(a, g, Ids) /\ Rooted(g)
  <2>1. Rearranged(a, g, Ids) /\ (Rooted(a) => Rooted(g))
    BY <1>1, <1>3, <1>4, UnlinkIs
  <2> QED BY <1>1, <2>1 DEF Rearranged
<1>6. \A i \in Ids : Bare(d, i) => g.kids[i] = <<>>
  BY <1>1, <1>5 DEF DimInv, BareIds, StaysChildless
<1>7. PICK y : y = [d EXCEPT !.hier[h] = g]
  OBVIOUS
<1>8. /\ DimInv(y) /\ DOMAIN y.hier = DOMAIN d.hier /\ y.hier[h] = g /\ y.next = d.next /\ Carries(d, y)
      /\ \A f \in DOMAIN d.hier \ {h} : y.hier[f] = d.hier[f]
  BY <1>1, <1>5, <1>6, <1>7, EditHierarchy
<1>9. CurrentBut(y, {})
  BY <1>5, <1>8 DEF CurrentBut, Current
<1>10. pid \in Ids \cup {NoId} /\ pid < y.next
  BY <1>1, <1>2, <1>8 DEF DimInv, GivenIds
<1>11. e = Downgraded(y, h, pid)
  BY <1>1, <1>2, <1>4, <1>7 DEF RemoveComponent
<1>12. DimInv(e) /\ CurrentBut(e, {}) /\ Carries(y, e)
  BY <1>8, <1>9, <1>10, <1>11, DowngradedIs
<1> QED BY <1>8, <1>12, CarriesOn

-------------------------------------------------------------------------------
(* A member is deleted: a leaf everywhere, an aggregate where it is known. *)

(* e is d without the id i, but for the default it may still name.         *)
Shrinks(d, e, i) ==
    /\ e = [leaf |-> e.leaf, type |-> e.type, home |-> d.home, hier |-> e.hier,
            next |-> d.next, default |-> d.default]
    /\ e.leaf \in [Names -> Ids \cup {NoId}]
    /\ \A m \in Names : e.leaf[m] = IF d.leaf[m] = i THEN NoId ELSE d.leaf[m]
    /\ e.hier \in [DOMAIN d.hier -> HierarchyType] /\ DOMAIN e.hier = DOMAIN d.hier
    /\ \A h \in DOMAIN d.hier : \/ Forgotten(d.hier[h], e.hier[h], i)
                                \/ /\ e.hier[h] = d.hier[h] /\ ~IsLeaf(d, i)
                                   /\ d.hier[h].title[i] = NoName
    /\ e.type \in [Ids -> {"Leaf", "Consolidated", "none"}]
    /\ \A m \in Names : e.leaf[m] # NoId => e.type[e.leaf[m]] = "Leaf"
    /\ \A j \in Ids : j >= d.next => e.type[j] = "none"
    /\ \A j \in Ids \ {i} : d.type[j] # "none" => e.type[j] # "none"

(* What is left has its names, and i has none.                             *)
Drops(d, f, i) ==
    /\ f.home = d.home /\ DOMAIN f.hier = DOMAIN d.hier /\ f.next = d.next
    /\ ~HasName(f, i) /\ \A j \in Ids \ {i} : HasName(d, j) => HasName(f, j)

LEMMA ShrinksIs ==
  ASSUME NEW d, DimInv(d), CurrentBut(d, {}), NEW i \in Ids, NEW e, Shrinks(d, e, i),
         NEW f, f = FixDefault(e, i)
  PROVE  DimInv(f) /\ CurrentBut(f, {}) /\ Drops(d, f, i)
<1>1. PICK L, T, H : L = e.leaf /\ T = e.type /\ H = e.hier
  OBVIOUS
<1>2. PICK leaves : leaves = {L[n] : n \in Names} \ {NoId}
  OBVIOUS
<1>3. PICK D : D = IF d.default # i THEN d.default
                   ELSE IF leaves = {} THEN NoId ELSE Min(leaves)
  OBVIOUS
<1>4. /\ f = [leaf |-> L, type |-> T, home |-> d.home, hier |-> H, next |-> d.next, default |-> D]
      /\ f.leaf = L /\ f.type = T /\ f.home = d.home /\ f.hier = H /\ f.next = d.next
      /\ f.default = D
  <2>1. /\ e = [leaf |-> L, type |-> T, home |-> d.home, hier |-> H, next |-> d.next,
                default |-> d.default]
        /\ e.default = d.default
    BY <1>1 DEF Shrinks
  <2>2. f = IF e.default # i THEN e
            ELSE [e EXCEPT !.default = IF leaves = {} THEN NoId ELSE Min(leaves)]
    BY <1>1, <1>2 DEF FixDefault
  <2>3. f = [e EXCEPT !.default = D]
    BY <1>3, <2>1, <2>2
  <2> QED BY <2>1, <2>3
<1>5. /\ L \in [Names -> Ids \cup {NoId}]
      /\ \A m \in Names : L[m] = IF d.leaf[m] = i THEN NoId ELSE d.leaf[m]
      /\ H \in [DOMAIN d.hier -> HierarchyType] /\ DOMAIN H = DOMAIN d.hier
      /\ T \in [Ids -> {"Leaf", "Consolidated", "none"}]
      /\ \A m \in Names : L[m] # NoId => T[L[m]] = "Leaf"
      /\ \A j \in Ids : j >= d.next => T[j] = "none"
      /\ \A j \in Ids \ {i} : d.type[j] # "none" => T[j] # "none"
  BY <1>1 DEF Shrinks
<1>6. ASSUME NEW h \in DOMAIN d.hier
      PROVE  \/ Forgotten(d.hier[h], H[h], i)
             \/ H[h] = d.hier[h] /\ ~IsLeaf(d, i) /\ d.hier[h].title[i] = NoName
  BY <1>1 DEF Shrinks
<1>7. ASSUME NEW h \in DOMAIN d.hier
      PROVE  /\ Tree(H[h]) /\ Rooted(H[h]) /\ Current(H[h])
             /\ \A m \in Names : H[h].id[m] = NoId \/ H[h].id[m] = d.hier[h].id[m]
             /\ \A j \in Ids : /\ d.hier[h].title[j] = NoName => H[h].title[j] = NoName
                               /\ d.hier[h].kids[j] = <<>> => H[h].kids[j] = <<>>
  <2>1. Tree(d.hier[h]) /\ Rooted(d.hier[h]) /\ Current(d.hier[h])
    BY DEF DimInv, Forests, CurrentBut
  <2>2. CASE Forgotten(d.hier[h], H[h], i)
    BY <2>1, <2>2 DEF Forgotten, StaysChildless, Current
  <2>3. CASE H[h] = d.hier[h]
    BY <2>1, <2>3
  <2> QED BY <1>6, <2>2, <2>3
<1>8. D \in Ids \cup {NoId} /\ (D # NoId => T[D] # "none")
  <2>1. CASE d.default # i
    BY <1>3, <1>5, <2>1 DEF DimInv, DefaultLives, DimType
  <2>2. CASE d.default = i /\ leaves = {}
    BY <1>3, <2>2
  <2>3. CASE d.default = i /\ leaves # {}
    <3>1. leaves \subseteq Nat
      BY <1>2, <1>5 DEF Ids, NoId
    <3>2. \E l \in leaves : \A m \in leaves : l <= m
      BY <2>3, <3>1, LeastExists
    <3>3. Min(leaves) \in leaves
      BY <3>2 DEF Min
    <3>4. PICK n \in Names : D = L[n] /\ D # NoId
      BY <1>2, <1>3, <2>3, <3>3
    <3> QED BY <1>5, <3>4
  <2> QED BY <2>1, <2>2, <2>3
<1>9. DimType(f)
  BY <1>4, <1>5, <1>8 DEF DimInv, DimType
<1>10. Forests(f)
  BY <1>4, <1>5, <1>7 DEF Forests
<1>11. GivenIds(f)
  <2>1. NoId < d.next
    BY MaxIdIsNat DEF DimInv, DimType, NoId
  <2>2. \A m \in Names : L[m] < d.next
    BY <1>5, <2>1 DEF DimInv, GivenIds
  <2>3. \A h \in DOMAIN d.hier : \A m \in Names : H[h].id[m] < d.next
    BY <1>7, <2>1 DEF DimInv, GivenIds
  <2> QED BY <1>4, <1>5, <2>2, <2>3 DEF GivenIds
<1>12. OneNameEach(f)
  <2>1. \A n, m \in Names : L[n] # NoId /\ L[n] = L[m] => n = m
    BY <1>5 DEF DimInv, OneNameEach
  <2>2. \A h \in DOMAIN d.hier : \A n, m \in Names : L[m] # NoId /\ H[h].id[n] = L[m] => n = m
    BY <1>5, <1>7 DEF DimInv, OneNameEach
  <2> QED BY <1>4, <1>5, <2>1, <2>2 DEF OneNameEach
<1>13. LeavesAreTyped(f) /\ DefaultLives(f)
  BY <1>4, <1>5, <1>8 DEF LeavesAreTyped, DefaultLives
<1>14. BareIds(f)
  <2>1. \A j \in Ids : Bare(f, j) => Bare(d, j)
    <3>1. \A j \in Ids : j # NoId
      BY DEF Ids, NoId
    <3> QED BY <1>4, <1>5, <3>1 DEF Bare, IsLeaf
  <2> QED BY <1>4, <1>5, <1>7, <2>1 DEF DimInv, BareIds
<1>15. SharedAreLeaves(f)
  <2> SUFFICES ASSUME NEW g \in DOMAIN d.hier, NEW h \in DOMAIN d.hier, NEW k \in Names,
                      NEW m \in Names, g # h, H[g].id[k] = H[h].id[m], H[g].id[k] # NoId
               PROVE  \E l \in Names : L[l] = H[g].id[k]
    BY <1>4, <1>5 DEF SharedAreLeaves, IsLeaf
  <2>1. H[g].id[k] = d.hier[g].id[k] /\ H[h].id[m] = d.hier[h].id[m]
    BY <1>7
  <2>2. IsLeaf(d, d.hier[g].id[k])
    BY <2>1 DEF DimInv, SharedAreLeaves
  <2>3. PICK l \in Names : d.leaf[l] = d.hier[g].id[k]
    BY <2>2 DEF IsLeaf
  <2>4. H[g].id[k] # i
    <3>1. CASE Forgotten(d.hier[g], H[g], i)
      <4>1. H[g].id[k] = IF d.hier[g].id[k] = i THEN NoId ELSE d.hier[g].id[k]
        BY <3>1 DEF Forgotten
      <4> QED BY <2>1, <4>1
    <3>2. CASE ~IsLeaf(d, i)
      BY <2>1, <2>2, <3>2
    <3> QED BY <1>6, <3>1, <3>2
  <2> QED BY <1>5, <2>1, <2>3, <2>4
<1>16. CurrentBut(f, {})
  BY <1>4, <1>5, <1>7 DEF CurrentBut
<1>17. ASSUME NEW h \in DOMAIN d.hier
       PROVE  /\ H[h].title[i] = NoName
              /\ \A j \in Ids \ {i} : H[h].title[j] = d.hier[h].title[j]
  BY <1>6, <1>17 DEF Forgotten
<1>18. i # NoId
  BY DEF Ids, NoId
<1>19. ~IsLeaf(f, i) /\ \A j : j # i /\ IsLeaf(d, j) => IsLeaf(f, j)
  BY <1>4, <1>5, <1>18 DEF IsLeaf
<1>20. Titled(f)
  <2> SUFFICES ASSUME NEW h \in DOMAIN d.hier, NEW m \in Names, H[h].id[m] # NoId, ~IsLeaf(f, H[h].id[m])
               PROVE  H[h].title[H[h].id[m]] # NoName
    BY <1>4, <1>5 DEF Titled
  <2>1. PICK j : j = H[h].id[m]
    OBVIOUS
  <2>2. j = d.hier[h].id[m] /\ j \in Ids
    <3>1. H[h] \in HierarchyType
      BY <1>5
    <3>2. H[h].id \in [Names -> Ids \cup {NoId}]
      BY <3>1, HierarchyIs
    <3> QED BY <1>7, <2>1, <3>2
  <2>3. IsLeaf(d, j) \/ d.hier[h].title[j] # NoName
    BY <2>1, <2>2 DEF DimInv, Titled
  <2>4. j # i
    <3>1. CASE Forgotten(d.hier[h], H[h], i)
      <4>1. H[h].id[m] = IF d.hier[h].id[m] = i THEN NoId ELSE d.hier[h].id[m]
        BY <3>1 DEF Forgotten
      <4> QED BY <1>18, <2>1, <2>2, <4>1
    <3>2. CASE ~IsLeaf(d, i) /\ d.hier[h].title[i] = NoName
      BY <2>3, <3>2
    <3> QED BY <1>6, <3>1, <3>2
  <2> QED BY <1>17, <1>19, <2>1, <2>2, <2>3, <2>4
<1>21. OneTitle(f)
  <2> SUFFICES ASSUME NEW g \in DOMAIN d.hier, NEW h \in DOMAIN d.hier, NEW j \in Ids,
                      H[g].title[j] # NoName, H[h].title[j] # NoName
               PROVE  g = h
    BY <1>4, <1>5 DEF OneTitle
  <2>1. j # i
    BY <1>17
  <2> QED BY <1>17, <2>1 DEF DimInv, OneTitle
<1>22. Drops(d, f, i)
  <2>1. ~HasName(f, i)
    BY <1>4, <1>5, <1>17, <1>19, HasNameIs
  <2>2. ASSUME NEW j \in Ids \ {i}, HasName(d, j) PROVE HasName(f, j)
    <3>1. CASE IsLeaf(d, j)
      BY <1>19, <3>1, HasNameIs
    <3>2. CASE ~IsLeaf(d, j)
      <4>1. PICK h \in DOMAIN d.hier : d.hier[h].title[j] # NoName
        BY <2>2, <3>2, HasNameIs
      <4>2. h \in DOMAIN f.hier /\ f.hier[h].title[j] # NoName
        BY <1>4, <1>5, <1>17, <4>1
      <4> QED BY <4>2, HasNameIs
    <3> QED BY <3>1, <3>2
  <2> QED BY <1>4, <1>5, <2>1, <2>2 DEF Drops
<1> QED BY <1>9, <1>10, <1>11, <1>12, <1>13, <1>14, <1>15, <1>16, <1>20, <1>21, <1>22 DEF DimInv

LEMMA ForgottenIn ==
  ASSUME NEW d, DimInv(d), NEW h \in DOMAIN d.hier, NEW i \in Ids, NEW g, g = Forget(d.hier[h], i)
  PROVE  g \in HierarchyType /\ Forgotten(d.hier[h], g, i)
<1>1. PICK a \in HierarchyType : a = d.hier[h] /\ Tree(a)
  BY DEF DimInv, DimType, Forests
<1>2. Forgotten(a, g, i)
  BY <1>1, ForgetIs
<1> QED BY <1>1, <1>2 DEF Forgotten

LEMMA DeleteLeafIs ==
  ASSUME NEW d, DimInv(d), CurrentBut(d, {}), NEW n \in Names, d.leaf[n] # NoId,
         NEW f, f = DeleteLeaf(d, n)
  PROVE  DimInv(f) /\ CurrentBut(f, {}) /\ Drops(d, f, d.leaf[n])
<1>1. PICK i \in Ids : i = d.leaf[n]
  BY DEF DimInv, DimType
<1>2. PICK L, T, H : /\ L = [d.leaf EXCEPT ![n] = NoId] /\ T = [d.type EXCEPT ![i] = "none"]
                     /\ H = [h \in DOMAIN d.hier |-> Forget(d.hier[h], i)]
  OBVIOUS
<1>3. PICK e : e = [d EXCEPT !.leaf = L, !.type = T, !.hier = H]
  OBVIOUS
<1>4. /\ e = [leaf |-> L, type |-> T, home |-> d.home, hier |-> H, next |-> d.next,
              default |-> d.default]
      /\ e.leaf = L /\ e.type = T /\ e.hier = H
  BY <1>3 DEF DimInv, DimType
<1>5. \A m \in Names \ {n} : d.leaf[m] # i
  BY <1>1 DEF DimInv, OneNameEach, Ids, NoId
<1>6. /\ L \in [Names -> Ids \cup {NoId}]
      /\ \A m \in Names : L[m] = IF d.leaf[m] = i THEN NoId ELSE d.leaf[m]
  BY <1>1, <1>2, <1>5 DEF DimInv, DimType
<1>7. /\ T \in [Ids -> {"Leaf", "Consolidated", "none"}]
      /\ T[i] = "none" /\ \A j \in Ids \ {i} : T[j] = d.type[j]
  BY <1>2 DEF DimInv, DimType
<1>8. ASSUME NEW h \in DOMAIN d.hier PROVE H[h] \in HierarchyType /\ Forgotten(d.hier[h], H[h], i)
  <2>1. H[h] = Forget(d.hier[h], i)
    BY <1>2
  <2> QED BY <2>1, ForgottenIn
<1>9. H \in [DOMAIN d.hier -> HierarchyType] /\ DOMAIN H = DOMAIN d.hier
  BY <1>2, <1>8
<1>10. \A m \in Names : L[m] # NoId => T[L[m]] = "Leaf"
  <2> SUFFICES ASSUME NEW m \in Names, L[m] # NoId PROVE T[L[m]] = "Leaf"
    OBVIOUS
  <2>1. L[m] = d.leaf[m] /\ L[m] # i /\ L[m] \in Ids
    BY <1>6
  <2> QED BY <1>7, <2>1 DEF DimInv, LeavesAreTyped
<1>11. \A j \in Ids : j >= d.next => T[j] = "none"
  BY <1>7 DEF DimInv, GivenIds
<1>12. Shrinks(d, e, i)
  BY <1>4, <1>6, <1>7, <1>8, <1>9, <1>10, <1>11 DEF Shrinks
<1>13. f = FixDefault(e, i)
  <2>1. e = [d EXCEPT !.leaf[n] = NoId, !.type[i] = "none",
                      !.hier = [h \in DOMAIN @ |-> Forget(@[h], i)]]
    BY <1>2, <1>3
  <2> QED BY <1>1, <2>1 DEF DeleteLeaf
<1> QED BY <1>1, <1>12, <1>13, ShrinksIs

LEMMA DeleteAggregateIs ==
  ASSUME NEW d, DimInv(d), CurrentBut(d, {}), NEW h \in DOMAIN d.hier, NEW n \in Names,
         d.leaf[n] = NoId, d.hier[h].id[n] # NoId, NEW f, f = DeleteAggregate(d, h, n)
  PROVE  DimInv(f) /\ CurrentBut(f, {}) /\ Drops(d, f, d.hier[h].id[n])
<1>1. PICK i \in Ids : i = d.hier[h].id[n]
  BY HierarchyIs DEF DimInv, DimType
<1>2. PICK g : g = Forget(d.hier[h], i)
  OBVIOUS
<1>3. g \in HierarchyType /\ Forgotten(d.hier[h], g, i)
  BY <1>2, ForgottenIn
<1>4. PICK R : R = {g.id[m] : m \in Names} \ {NoId}
  OBVIOUS
<1>5. PICK T, H : /\ T = [j \in Ids |-> IF j \notin R THEN IF j = i THEN "none" ELSE d.type[j]
                                        ELSE IF g.kids[j] = <<>> THEN "Leaf" ELSE "Consolidated"]
                  /\ H = [d.hier EXCEPT ![h] = g]
  OBVIOUS
<1>6. PICK e : e = [d EXCEPT !.hier = H, !.type = T]
  OBVIOUS
<1>7. /\ e = [leaf |-> d.leaf, type |-> T, home |-> d.home, hier |-> H, next |-> d.next,
              default |-> d.default]
      /\ e.leaf = d.leaf /\ e.type = T /\ e.hier = H
  BY <1>6 DEF DimInv, DimType
<1>8. ~IsLeaf(d, i)
  <2>1. i # NoId
    BY DEF Ids, NoId
  <2> QED BY <1>1, <2>1 DEF DimInv, OneNameEach, IsLeaf
<1>9. T \in [Ids -> {"Leaf", "Consolidated", "none"}]
  BY <1>5 DEF DimInv, DimType
<1>10. \A m \in Names : d.leaf[m] # NoId => T[d.leaf[m]] = "Leaf"
  <2> SUFFICES ASSUME NEW m \in Names, d.leaf[m] # NoId PROVE T[d.leaf[m]] = "Leaf"
    OBVIOUS
  <2>1. d.leaf[m] \in Ids /\ IsLeaf(d, d.leaf[m]) /\ d.leaf[m] # i
    BY <1>8 DEF DimInv, DimType, IsLeaf
  <2>2. d.hier[h].kids[d.leaf[m]] = <<>>
    BY <2>1 DEF DimInv, BareIds, Bare
  <2>3. g.kids[d.leaf[m]] = <<>>
    BY <1>3, <2>1, <2>2 DEF Forgotten, StaysChildless
  <2>4. d.type[d.leaf[m]] = "Leaf"
    BY DEF DimInv, LeavesAreTyped
  <2> QED BY <1>5, <2>1, <2>3, <2>4
<1>11. \A j \in Ids : j >= d.next => T[j] = "none"
  <2> SUFFICES ASSUME NEW j \in Ids, j >= d.next PROVE T[j] = "none"
    OBVIOUS
  <2>1. j \notin R
    <3>1. ASSUME NEW m \in Names PROVE g.id[m] # j \/ j = NoId
      <4>1. g.id[m] = NoId \/ g.id[m] = d.hier[h].id[m]
        BY <1>3 DEF Forgotten
      <4>2. d.hier[h].id[m] < d.next
        BY DEF DimInv, GivenIds
      <4>3. d.next \in Nat /\ j \in Nat
        BY MaxIdIsNat DEF DimInv, DimType, Ids
      <4> QED BY <4>1, <4>2, <4>3
    <3> QED BY <1>4, <3>1
  <2>2. d.type[j] = "none"
    BY DEF DimInv, GivenIds
  <2> QED BY <1>5, <2>1, <2>2
<1>12. \A j \in Ids \ {i} : d.type[j] # "none" => T[j] # "none"
  BY <1>5
<1>13. H \in [DOMAIN d.hier -> HierarchyType] /\ DOMAIN H = DOMAIN d.hier
  BY <1>3, <1>5 DEF DimInv, DimType
<1>14. ASSUME NEW k \in DOMAIN d.hier
       PROVE  \/ Forgotten(d.hier[k], H[k], i)
              \/ H[k] = d.hier[k] /\ ~IsLeaf(d, i) /\ d.hier[k].title[i] = NoName
  <2>1. d.hier[h].title[i] # NoName
    BY <1>1, <1>8 DEF DimInv, Titled
  <2>2. k # h => d.hier[k].title[i] = NoName
    BY <2>1 DEF DimInv, OneTitle
  <2> QED BY <1>3, <1>5, <1>8, <2>2
<1>15. \A m \in Names : d.leaf[m] = IF d.leaf[m] = i THEN NoId ELSE d.leaf[m]
  BY <1>8 DEF IsLeaf
<1>16. d.leaf \in [Names -> Ids \cup {NoId}]
  BY DEF DimInv, DimType
<1>17. Shrinks(d, e, i)
  BY <1>7, <1>9, <1>10, <1>11, <1>12, <1>13, <1>14, <1>15, <1>16 DEF Shrinks
<1>18. f = FixDefault(e, i)
  <2>1. e = [d EXCEPT !.hier[h] = g, !.type = T]
    BY <1>5, <1>6
  <2>2. T = [j \in Ids |-> IF j \notin R THEN IF j = i THEN "none" ELSE d.type[j]
                           ELSE IF g.kids[j] = <<>> THEN "Leaf" ELSE "Consolidated"]
    BY <1>5
  <2> QED BY <1>1, <1>2, <1>4, <2>1, <2>2 DEF DeleteAggregate
<1> QED BY <1>1, <1>17, <1>18, ShrinksIs

-------------------------------------------------------------------------------
(* A new hierarchy, refreshed orders, and a member moved among its siblings. *)

LEMMA SetToSeqsIs ==
  ASSUME NEW S \in SUBSET Ids, NEW s \in SetToSeqs(S)
  PROVE  s \in Seq(Ids) /\ Range(s) = S
<1>1. IsFiniteSet(S)
  <2>1. IsFiniteSet(Ids)
    BY MaxIdIsNat, FS_Interval DEF Ids
  <2> QED BY <2>1, FS_Subset
<1>2. PICK n \in Nat : n = Cardinality(S)
  BY <1>1, FS_CardinalityType
<1>3. s \in [1..n -> S] /\ \A i, j \in 1..n : i # j => s[i] # s[j]
  BY <1>2 DEF SetToSeqs
<1>4. s \in Injection(1..n, S)
  BY <1>3 DEF Injection, IsInjective
<1>5. Cardinality(1..n) = n
  BY FS_Interval
<1>6. s \in Surjection(1..n, S)
  BY <1>1, <1>2, <1>4, <1>5, FS_Injection
<1>7. \A x \in S : \E k \in 1..n : s[k] = x
  BY <1>6 DEF Surjection
<1>8. s \in [1..n -> Ids] /\ DOMAIN s = 1..n
  BY <1>3
<1>9. s \in Seq(Ids)
  BY <1>8, SeqDef
<1>10. Range(s) = S
  BY <1>3, <1>7, <1>8 DEF Range
<1> QED BY <1>9, <1>10

LEMMA CreateHierarchyIs ==
  ASSUME NEW d, DimInv(d), CurrentBut(d, {}), NEW h, h \notin DOMAIN d.hier,
         NEW leaves \in SetToSeqs({d.leaf[n] : n \in Names} \ {NoId}),
         NEW e, e = CreateHierarchy(d, h, leaves)
  PROVE  /\ DimInv(e) /\ CurrentBut(e, {})
         /\ e.home = d.home /\ DOMAIN e.hier = DOMAIN d.hier \cup {h}
         /\ \A i \in Ids : HasName(d, i) => HasName(e, i)
<1>1. leaves \in Seq(Ids) /\ Range(leaves) = {d.leaf[n] : n \in Names} \ {NoId}
  <2>1. {d.leaf[n] : n \in Names} \ {NoId} \in SUBSET Ids
    BY DEF DimInv, DimType
  <2> QED BY <2>1, SetToSeqsIs
<1>2. PICK born : born = [EmptyHierarchy EXCEPT !.id = d.leaf, !.roots = leaves]
  OBVIOUS
<1>3. /\ born \in HierarchyType /\ born.id = d.leaf /\ born.roots = leaves
      /\ \A i \in Ids : born.title[i] = NoName /\ born.kids[i] = <<>>
      /\ Tree(born)
  <2>1. PICK x \in HierarchyType : x = EmptyHierarchy /\ Tree(x)
    BY EmptyHierarchyIs
  <2>2. \A i \in Ids : x.title[i] = NoName /\ x.kids[i] = <<>>
    BY <2>1, EmptyHierarchyIs
  <2>3. d.leaf \in [Names -> Ids \cup {NoId}]
    BY DEF DimInv, DimType
  <2>4. /\ born \in HierarchyType /\ born.id = d.leaf /\ born.roots = leaves
        /\ born.title = x.title /\ born.kids = x.kids /\ born.parent = x.parent
    BY <1>1, <1>2, <2>1, <2>3 DEF HierarchyType
  <2> QED BY <2>1, <2>2, <2>4 DEF Tree
<1>4. PICK b : b = Refreshed(born)
  OBVIOUS
<1>5. /\ b \in HierarchyType /\ b.id = born.id /\ b.title = born.title /\ b.kids = born.kids
      /\ b.parent = born.parent /\ b.roots = born.roots /\ Current(b)
  BY <1>3, <1>4, RefreshedIs
<1>6. Tree(b)
  BY <1>3, <1>5 DEF Tree
<1>7. Rooted(b)
  <2> SUFFICES ASSUME NEW i \in Ids, NEW n \in Names, d.leaf[n] = i PROVE i \in Range(leaves)
    BY <1>3, <1>5 DEF Rooted
  <2>1. i # NoId
    BY DEF Ids, NoId
  <2> QED BY <1>1, <2>1
<1>8. PICK H : H = [g \in DOMAIN d.hier \cup {h} |-> IF g = h THEN b ELSE d.hier[g]]
  OBVIOUS
<1>9. /\ e = [leaf |-> d.leaf, type |-> d.type, home |-> d.home, hier |-> H, next |-> d.next,
              default |-> d.default]
      /\ e.leaf = d.leaf /\ e.type = d.type /\ e.home = d.home /\ e.hier = H
      /\ e.next = d.next /\ e.default = d.default
  <2>1. e = [d EXCEPT !.hier = H]
    BY <1>2, <1>4, <1>8 DEF CreateHierarchy
  <2> QED BY <2>1 DEF DimInv, DimType
<1>10. /\ DOMAIN H = DOMAIN d.hier \cup {h} /\ H[h] = b
       /\ \A g \in DOMAIN d.hier : H[g] = d.hier[g]
       /\ H \in [DOMAIN H -> HierarchyType]
  BY <1>5, <1>8 DEF DimInv, DimType
<1>11. DimType(e)
  BY <1>9, <1>10 DEF DimInv, DimType
<1>12. Forests(e)
  BY <1>6, <1>7, <1>9, <1>10 DEF DimInv, Forests
<1>13. GivenIds(e) /\ OneNameEach(e)
  BY <1>3, <1>5, <1>9, <1>10 DEF DimInv, GivenIds, OneNameEach
<1>14. LeavesAreTyped(e) /\ DefaultLives(e)
  BY <1>9 DEF DimInv, LeavesAreTyped, DefaultLives
<1>15. BareIds(e)
  BY <1>3, <1>5, <1>9, <1>10 DEF DimInv, BareIds, Bare, IsLeaf
<1>16. SharedAreLeaves(e)
  <2> SUFFICES ASSUME NEW f \in DOMAIN H, NEW g \in DOMAIN H, NEW k \in Names, NEW m \in Names,
                      f # g, H[f].id[k] = H[g].id[m], H[f].id[k] # NoId
               PROVE  IsLeaf(d, H[f].id[k])
    BY <1>9 DEF SharedAreLeaves, IsLeaf
  <2>1. \A n \in Names : IsLeaf(d, b.id[n])
    BY <1>3, <1>5 DEF IsLeaf
  <2>2. CASE f = h \/ g = h
    BY <1>10, <2>1, <2>2
  <2>3. CASE f # h /\ g # h
    BY <1>10, <2>3 DEF DimInv, SharedAreLeaves
  <2> QED BY <2>2, <2>3
<1>17. CurrentBut(e, {})
  BY <1>5, <1>9, <1>10 DEF CurrentBut
<1>18. \A i : IsLeaf(e, i) <=> IsLeaf(d, i)
  BY <1>9 DEF IsLeaf
<1>19. Titled(e)
  <2>1. \A n \in Names : IsLeaf(d, b.id[n])
    BY <1>3, <1>5 DEF IsLeaf
  <2> SUFFICES ASSUME NEW g \in DOMAIN H, NEW n \in Names, H[g].id[n] # NoId, ~IsLeaf(d, H[g].id[n])
               PROVE  H[g].title[H[g].id[n]] # NoName
    BY <1>9, <1>18 DEF Titled
  <2>2. g \in DOMAIN d.hier
    BY <1>10, <2>1
  <2> QED BY <1>10, <2>2 DEF DimInv, Titled
<1>20. OneTitle(e)
  <2> SUFFICES ASSUME NEW f \in DOMAIN H, NEW g \in DOMAIN H, NEW i \in Ids,
                      H[f].title[i] # NoName, H[g].title[i] # NoName
               PROVE  f = g
    BY <1>9 DEF OneTitle
  <2>1. f # h /\ g # h
    BY <1>3, <1>5, <1>10
  <2> QED BY <1>10, <2>1 DEF DimInv, OneTitle
<1>21. \A i \in Ids : HasName(d, i) => HasName(e, i)
  BY <1>9, <1>10, <1>18, HasNameIs
<1> QED BY <1>9, <1>10, <1>11, <1>12, <1>13, <1>14, <1>15, <1>16, <1>17, <1>19, <1>20, <1>21 DEF DimInv

LEMMA RefreshIs ==
  ASSUME NEW d, DimInv(d), CurrentBut(d, {}), NEW H, DOMAIN H = DOMAIN d.hier,
         H = [h \in DOMAIN d.hier |-> H[h]],
         \A h \in DOMAIN d.hier : H[h] = d.hier[h] \/ H[h] = Refreshed(d.hier[h]),
         NEW e, e = [d EXCEPT !.hier = H]
  PROVE  DimInv(e) /\ CurrentBut(e, {}) /\ Carries(d, e)
<1>1. /\ e = [leaf |-> d.leaf, type |-> d.type, home |-> d.home, hier |-> H, next |-> d.next,
              default |-> d.default]
      /\ e.leaf = d.leaf /\ e.type = d.type /\ e.home = d.home /\ e.hier = H
      /\ e.next = d.next /\ e.default = d.default
  BY DEF DimInv, DimType
<1>2. ASSUME NEW h \in DOMAIN d.hier
      PROVE  /\ H[h] \in HierarchyType /\ H[h].id = d.hier[h].id /\ H[h].title = d.hier[h].title
             /\ H[h].kids = d.hier[h].kids /\ H[h].parent = d.hier[h].parent
             /\ H[h].roots = d.hier[h].roots /\ Current(H[h])
  <2>1. d.hier[h] \in HierarchyType /\ Current(d.hier[h])
    BY DEF DimInv, DimType, CurrentBut
  <2>2. CASE H[h] = d.hier[h]
    BY <2>1, <2>2
  <2>3. CASE H[h] = Refreshed(d.hier[h])
    BY <2>1, <2>3, RefreshedIs
  <2> QED BY <2>2, <2>3
<1>3. H \in [DOMAIN d.hier -> HierarchyType]
  BY <1>2
<1>4. DimType(e)
  BY <1>1, <1>3 DEF DimInv, DimType
<1>5. Forests(e)
  BY <1>1, <1>2 DEF DimInv, Forests, Tree, Rooted
<1>6. GivenIds(e) /\ OneNameEach(e)
  BY <1>1, <1>2 DEF DimInv, GivenIds, OneNameEach
<1>7. LeavesAreTyped(e) /\ DefaultLives(e)
  BY <1>1 DEF DimInv, LeavesAreTyped, DefaultLives
<1>8. BareIds(e)
  BY <1>1, <1>2 DEF DimInv, BareIds, Bare, IsLeaf
<1>9. SharedAreLeaves(e)
  <2>1. \A i : IsLeaf(e, i) <=> IsLeaf(d, i)
    BY <1>1 DEF IsLeaf
  <2> QED BY <1>1, <1>2, <2>1 DEF DimInv, SharedAreLeaves
<1>10. CurrentBut(e, {})
  BY <1>1, <1>2 DEF CurrentBut
<1>11. Titled(e) /\ OneTitle(e) /\ Carries(d, e)
  BY <1>1, <1>2, SameTitles
<1> QED BY <1>4, <1>5, <1>6, <1>7, <1>8, <1>9, <1>10, <1>11 DEF DimInv

LEMMA MoveIs ==
  ASSUME NEW d, DimInv(d), CurrentBut(d, {}), NEW h \in DOMAIN d.hier, NEW i \in Ids,
         NEW s \in Seq(Ids), Range(s) = Range(Siblings(d.hier[h], i)) \cup {i},
         IsInjective(Siblings(d.hier[h], i)) => IsInjective(s),
         NEW e, e = [d EXCEPT !.hier[h] = Reorder(d.hier[h], i, s)]
  PROVE  DimInv(e) /\ CurrentBut(e, {}) /\ Carries(d, e)
<1>1. PICK a \in HierarchyType : a = d.hier[h] /\ Tree(a) /\ Rooted(a)
  BY DEF DimInv, DimType, Forests
<1>2. PICK g : g = Reorder(a, i, s)
  OBVIOUS
<1>3. a.parent[i] # NoId => Range(s) = Range(a.kids[a.parent[i]]) /\ IsInjective(s)
  <2> SUFFICES ASSUME a.parent[i] # NoId
               PROVE  Range(s) = Range(a.kids[a.parent[i]]) /\ IsInjective(s)
    OBVIOUS
  <2>1. PICK p \in Ids : p = a.parent[i]
    BY HierarchyIs
  <2>2. i \in Range(a.kids[p]) /\ IsInjective(a.kids[p])
    BY <1>1, <2>1 DEF Tree
  <2> QED BY <1>1, <2>1, <2>2 DEF Siblings
<1>4. a.parent[i] = NoId => Range(a.roots) \subseteq Range(s)
  BY <1>1 DEF Siblings
<1>5. Rearranged(a, g, Ids) /\ (Rooted(a) => Rooted(g))
  BY <1>1, <1>2, <1>3, <1>4, ReorderIs
<1>6. \A j \in Ids : Bare(d, j) => g.kids[j] = <<>>
  BY <1>1, <1>5 DEF DimInv, BareIds, StaysChildless, Rearranged
<1>7. PICK y : y = [d EXCEPT !.hier[h] = g]
  OBVIOUS
<1>8. /\ g \in HierarchyType /\ Tree(g) /\ g.dirty = TRUE /\ Rooted(g)
      /\ g.id = d.hier[h].id /\ g.title = d.hier[h].title
  BY <1>1, <1>5 DEF Rearranged
<1>9. /\ DimInv(y) /\ DOMAIN y.hier = DOMAIN d.hier /\ y.hier[h] = g /\ Carries(d, y)
      /\ \A f \in DOMAIN d.hier \ {h} : y.hier[f] = d.hier[f]
  BY <1>6, <1>7, <1>8, EditHierarchy
<1>10. CurrentBut(y, {})
  BY <1>8, <1>9 DEF CurrentBut, Current
<1>11. e = y
  BY <1>1, <1>2, <1>7
<1> QED BY <1>9, <1>10, <1>11

LEMMA SiblingsAre ==
  ASSUME NEW a \in HierarchyType, NEW i \in Ids
  PROVE  Siblings(a, i) \in Seq(Ids)
<1>1. a.parent[i] \in Ids \cup {NoId}
  BY HierarchyIs
<1> QED BY <1>1, HierarchyIs DEF Siblings

-------------------------------------------------------------------------------
(* The dimension between two operations: the invariant, and every order that *)
(* is not marked stale is current.                                         *)
Inv ==
    /\ DimInv(dim) /\ CurrentBut(dim, {})
    /\ dim.home = Default
    /\ {Default} \subseteq DOMAIN dim.hier /\ DOMAIN dim.hier \subseteq {Default} \cup Others

LEMMA EmptyDimensionIs ==
  ASSUME NEW home, NEW d, d = EmptyDimension(home)
  PROVE  DimInv(d) /\ CurrentBut(d, {}) /\ d.home = home /\ DOMAIN d.hier = {home}
<1>1. PICK E : E = EmptyHierarchy
  OBVIOUS
<1>2. /\ E \in HierarchyType /\ Tree(E) /\ Current(E)
      /\ \A n \in Names : E.id[n] = NoId
      /\ \A i \in Ids : E.title[i] = NoName /\ E.kids[i] = <<>>
  BY <1>1, EmptyHierarchyIs
<1>4. /\ d = [leaf |-> d.leaf, type |-> d.type, home |-> d.home, hier |-> d.hier,
              next |-> d.next, default |-> d.default]
      /\ d.leaf = [n \in Names |-> NoId] /\ d.type = [i \in Ids |-> "none"] /\ d.home = home
      /\ d.hier = [h \in {home} |-> E] /\ d.next = 1 /\ d.default = NoId
  BY <1>1 DEF EmptyDimension
<1>5. \A i \in Ids : i # NoId
  BY DEF Ids, NoId
<1>6. DimType(d)
  <2>1. 1 \in 1..(MaxId + 1)
    BY MaxIdIsNat
  <2> QED BY <1>2, <1>4, <2>1 DEF DimType
<1>7. Forests(d)
  BY <1>2, <1>4, <1>5 DEF Forests, Rooted
<1>8. GivenIds(d)
  BY <1>2, <1>4 DEF GivenIds, NoId
<1>9. OneNameEach(d) /\ LeavesAreTyped(d) /\ DefaultLives(d)
  BY <1>2, <1>4 DEF OneNameEach, LeavesAreTyped, DefaultLives
<1>10. BareIds(d)
  BY <1>2, <1>4 DEF BareIds
<1>11. SharedAreLeaves(d)
  BY <1>2, <1>4 DEF SharedAreLeaves
<1>12. CurrentBut(d, {})
  BY <1>2, <1>4 DEF CurrentBut
<1>13. Titled(d) /\ OneTitle(d)
  BY <1>2, <1>4 DEF Titled, OneTitle
<1> QED BY <1>4, <1>6, <1>7, <1>8, <1>9, <1>10, <1>11, <1>12, <1>13 DEF DimInv

LEMMA InitInv == Init => Inv
  BY EmptyDimensionIs DEF Init, Inv

LEMMA StepInv == Inv /\ [Next]_vars => Inv'
<1> SUFFICES ASSUME Inv, [Next]_vars PROVE Inv'
  OBVIOUS
<1>1. PICK d : d = dim /\ DimInv(d) /\ CurrentBut(d, {})
  BY DEF Inv
<1> DEFINE Same(f) == f.home = d.home /\ DOMAIN d.hier \subseteq DOMAIN f.hier
                      /\ DOMAIN f.hier \subseteq DOMAIN d.hier \cup Others
<1>2. PICK e : e = dim'
  OBVIOUS
<1> SUFFICES DimInv(e) /\ CurrentBut(e, {}) /\ Same(e)
  BY <1>1, <1>2 DEF Inv
<1>3. ASSUME NEW n \in Names, AddLeafMember(n) PROVE DimInv(e) /\ CurrentBut(e, {}) /\ Same(e)
  BY <1>1, <1>2, <1>3, AddLeafIs DEF AddLeafMember, Carries
<1>4. ASSUME NEW n \in Names, DeleteMember(n) PROVE DimInv(e) /\ CurrentBut(e, {}) /\ Same(e)
  <2>1. PICK del \in Deletions(d, n) : e = del[2]
    BY <1>1, <1>2, <1>4 DEF DeleteMember
  <2>2. CASE d.leaf[n] # NoId
    <3>1. e = DeleteLeaf(d, n)
      BY <2>1, <2>2 DEF Deletions
    <3> QED BY <1>1, <2>2, <3>1, DeleteLeafIs DEF Drops
  <2>3. CASE d.leaf[n] = NoId
    <3>1. PICK h \in DOMAIN d.hier : d.hier[h].id[n] # NoId /\ e = DeleteAggregate(d, h, n)
      BY <2>1, <2>3 DEF Deletions
    <3> QED BY <1>1, <2>3, <3>1, DeleteAggregateIs DEF Drops
  <2> QED BY <2>2, <2>3
<1>5. ASSUME NEW h \in DOMAIN d.hier, NEW p \in Names, NEW c \in Names, RollUp(h, p, c)
      PROVE  DimInv(e) /\ CurrentBut(e, {}) /\ Same(e)
  <2>1. /\ e = AddComponent(d, h, p, c)
        /\ d.next + Cardinality({n \in {p, c} : /\ d.leaf[n] = NoId
                                                /\ ~IsConsolidated(d, d.hier[h].id[n])}) <= MaxId + 1
    BY <1>1, <1>2, <1>5 DEF RollUp, HasRoom
  <2>2. Roomy(d, h, p, c)
    BY <1>1, <2>1, HasRoomIs
  <2> QED BY <1>1, <2>1, <2>2, AddComponentIs DEF Carries
<1>6. ASSUME NEW h \in DOMAIN d.hier, NEW p \in Names, NEW c \in Names, Detach(h, p, c)
      PROVE  DimInv(e) /\ CurrentBut(e, {}) /\ Same(e)
  <2>1. CanRemoveComponent(d, h, p, c) /\ e = RemoveComponent(d, h, p, c)
    BY <1>1, <1>2, <1>6 DEF Detach
  <2> QED BY <1>1, <2>1, RemoveComponentIs DEF Carries
<1>7. ASSUME NEW h \in DOMAIN d.hier, NEW n \in Names, NEW m \in Names, MoveMemberBefore(h, n, m)
      PROVE  DimInv(e) /\ CurrentBut(e, {}) /\ Same(e)
  <2>1. PICK a \in HierarchyType : a = d.hier[h]
    BY <1>1 DEF DimInv, DimType
  <2>2. PICK i \in Ids : i = a.id[n]
    BY <1>1, <1>7, <2>1, HierarchyIs DEF MoveMemberBefore, Known
  <2>3. PICK s \in Seq(Ids) : /\ s = MoveBefore(Siblings(a, i), i, a.id[m])
                              /\ Range(s) = Range(Siblings(a, i)) \cup {i}
                              /\ IsInjective(Siblings(a, i)) => IsInjective(s)
    BY SiblingsAre, MoveBeforeIs
  <2>4. e = [d EXCEPT !.hier[h] = Reorder(a, i, s)]
    BY <1>1, <1>2, <1>7, <2>1, <2>2, <2>3 DEF MoveMemberBefore
  <2>5. DimInv(e) /\ CurrentBut(e, {}) /\ Carries(d, e)
    BY <1>1, <2>1, <2>3, <2>4, MoveIs
  <2> QED BY <2>5 DEF Carries
<1>8. ASSUME NEW h \in DOMAIN d.hier, NEW n \in Names, MoveMemberToFront(h, n)
      PROVE  DimInv(e) /\ CurrentBut(e, {}) /\ Same(e)
  <2>1. PICK a \in HierarchyType : a = d.hier[h]
    BY <1>1 DEF DimInv, DimType
  <2>2. PICK i \in Ids : i = a.id[n]
    BY <1>1, <1>8, <2>1, HierarchyIs DEF MoveMemberToFront, Known
  <2>3. PICK rest \in Seq(Ids) : /\ rest = Without(Siblings(a, i), i)
                                 /\ Range(rest) = Range(Siblings(a, i)) \ {i}
                                 /\ IsInjective(Siblings(a, i)) => IsInjective(rest)
    BY SiblingsAre, WithoutIs
  <2>4. PICK one \in Seq(Ids) : one = <<i>> /\ Range(one) = {i} /\ IsInjective(one)
    BY OneIsList
  <2>5. PICK s \in Seq(Ids) : /\ s = one \o rest /\ Range(s) = Range(one) \cup Range(rest)
                              /\ IsInjective(one) /\ IsInjective(rest) /\ Range(one) \cap Range(rest) = {}
                                     => IsInjective(s)
    BY ConcatIs
  <2>6. /\ Range(s) = Range(Siblings(a, i)) \cup {i}
        /\ IsInjective(Siblings(a, i)) => IsInjective(s)
    BY <2>3, <2>4, <2>5
  <2>7. e = [d EXCEPT !.hier[h] = Reorder(a, i, s)]
    BY <1>1, <1>2, <1>8, <2>1, <2>2, <2>3, <2>4, <2>5 DEF MoveMemberToFront
  <2>8. DimInv(e) /\ CurrentBut(e, {}) /\ Carries(d, e)
    BY <1>1, <2>1, <2>6, <2>7, MoveIs
  <2> QED BY <2>8 DEF Carries
<1>9. ASSUME NEW h \in Others, AddHierarchy(h) PROVE DimInv(e) /\ CurrentBut(e, {}) /\ Same(e)
  <2>1. PICK leaves \in SetToSeqs({d.leaf[n] : n \in Names} \ {NoId}) : e = CreateHierarchy(d, h, leaves)
    BY <1>1, <1>2, <1>9 DEF AddHierarchy
  <2>2. h \notin DOMAIN d.hier
    BY <1>1, <1>9 DEF AddHierarchy
  <2> QED BY <1>1, <2>1, <2>2, CreateHierarchyIs
<1>10. ASSUME EnsureDisplayOrder PROVE DimInv(e) /\ CurrentBut(e, {}) /\ Same(e)
  <2>1. PICK H : H = [h \in DOMAIN d.hier |-> IF d.hier[h].dirty THEN Refreshed(d.hier[h])
                                              ELSE d.hier[h]]
    OBVIOUS
  <2>2. e = [d EXCEPT !.hier = H]
    BY <1>1, <1>2, <1>10, <2>1 DEF EnsureDisplayOrder
  <2>3. /\ DOMAIN H = DOMAIN d.hier /\ H = [h \in DOMAIN d.hier |-> H[h]]
        /\ \A h \in DOMAIN d.hier : H[h] = d.hier[h] \/ H[h] = Refreshed(d.hier[h])
    BY <2>1
  <2> QED BY <1>1, <2>2, <2>3, RefreshIs DEF Carries
<1>11. ASSUME Reload PROVE DimInv(e) /\ CurrentBut(e, {}) /\ Same(e)
  <2>1. PICK H : H = [h \in DOMAIN d.hier |-> Refreshed(d.hier[h])]
    OBVIOUS
  <2>2. e = [d EXCEPT !.hier = H]
    BY <1>1, <1>2, <1>11, <2>1 DEF Reload
  <2>3. /\ DOMAIN H = DOMAIN d.hier /\ H = [h \in DOMAIN d.hier |-> H[h]]
        /\ \A h \in DOMAIN d.hier : H[h] = d.hier[h] \/ H[h] = Refreshed(d.hier[h])
    BY <2>1
  <2> QED BY <1>1, <2>2, <2>3, RefreshIs DEF Carries
<1>12. CASE UNCHANGED vars
  BY <1>1, <1>2, <1>12 DEF vars
<1> QED BY <1>1, <1>3, <1>4, <1>5, <1>6, <1>7, <1>8, <1>9, <1>10, <1>11, <1>12 DEF Next

(* Every operation of a dimension keeps the invariant.                     *)
THEOREM InvAlways == Spec => []Inv
BY InitInv, StepInv, PTL DEF Spec

(* The maps of a dimension have the types their readers index them by, and *)
(* an id no operation handed out has no member type.                       *)
THEOREM TypeCorrect == Spec => []TypeOK
<1>1. Inv => TypeOK
  BY DEF Inv, DimInv, DimType, GivenIds, TypeOK
<1> QED BY <1>1, InvAlways, PTL

(* The child lists of a hierarchy and its parent pointers index one forest *)
(* after every edit: neither has an edge the other lacks, and no member is *)
(* listed twice.                                                           *)
THEOREM OneParentHolds == Spec => []OneParent
<1>1. Inv => OneParent
  BY DEF Inv, DimInv, Forests, Tree, OneParent
<1> QED BY <1>1, InvAlways, PTL

(* Every edit that changes what a hierarchy lists marks its order stale:   *)
(* an order read without rebuilding is the one rebuilding would give.      *)
THEOREM OrdersAreCurrent == Spec => []DisplayOrderIsCurrent
<1>1. Inv => DisplayOrderIsCurrent
  BY DEF Inv, CurrentBut, Current, DisplayOrderIsCurrent
<1> QED BY <1>1, InvAlways, PTL

(* default_member falls back on a name the home hierarchy knows, whenever  *)
(* it knows any, and an explicit default does not outlive its member.      *)
THEOREM DefaultHolds == Spec => []DefaultIsUsable
<1>1. Inv => DefaultIsUsable
  <2> SUFFICES ASSUME Inv PROVE DefaultIsUsable
    OBVIOUS
  <2>1. PICK home, known : home = dim.hier[Default] /\ known = {n \in Names : home.id[n] # NoId}
    OBVIOUS
  <2>2. dim.home = Default /\ home.id \in [Names -> Ids \cup {NoId}]
    BY <2>1, HierarchyIs DEF Inv, DimInv, DimType
  <2>3. PICK named : named = IF dim.default = NoId THEN {}
                             ELSE {n \in NamesOf(dim, dim.default) : home.id[n] # NoId}
    OBVIOUS
  <2>4. DefaultNames(dim) = IF named # {} THEN named
                            ELSE {n \in known : \A m \in known : home.id[n] <= home.id[m]}
    BY <2>1, <2>2, <2>3 DEF DefaultNames
  <2>5. dim.default # NoId => NamesOf(dim, dim.default) \subseteq Names
    <3>1. \A h \in DOMAIN dim.hier : dim.hier[h].title \in [Ids -> Names \cup {NoName}]
      BY HierarchyIs DEF Inv, DimInv, DimType
    <3>2. dim.default \in Ids \/ dim.default = NoId
      BY DEF Inv, DimInv, DimType
    <3>3. ASSUME NEW i \in Ids PROVE NamesOf(dim, i) \subseteq Names
      BY <3>1 DEF NamesOf
    <3> QED BY <3>2, <3>3
  <2>6. named \subseteq known
    BY <2>1, <2>3, <2>5
  <2>7. ASSUME known # {} PROVE {n \in known : \A m \in known : home.id[n] <= home.id[m]} # {}
    <3>1. PICK S : S = {home.id[n] : n \in known}
      OBVIOUS
    <3>2. S \subseteq Nat /\ S # {}
      BY <2>1, <2>2, <2>7, <3>1 DEF Ids, NoId
    <3>3. PICK l \in S : \A m \in S : l <= m
      BY <3>2, LeastExists
    <3>4. PICK n \in known : home.id[n] = l
      BY <3>1
    <3>5. \A m \in known : home.id[n] <= home.id[m]
      BY <3>1, <3>3, <3>4
    <3> QED BY <3>5
  <2>8. Known(Default) = known
    BY <2>1 DEF Known
  <2>9. dim.default # NoId => dim.type[dim.default] # "none"
    BY DEF Inv, DimInv, DefaultLives
  <2> QED BY <2>4, <2>6, <2>7, <2>8, <2>9 DEF DefaultIsUsable
<1> QED BY <1>1, InvAlways, PTL

-------------------------------------------------------------------------------
(* What is under a member.                                                 *)
Spread(kids, S) == S \cup UNION {Range(kids[j]) : j \in S}
Reach(w, kids, S, n) == w = [k \in 0..n |-> IF k = 0 THEN S ELSE Spread(kids, w[k - 1])]

LEMMA ReachExists ==
  ASSUME NEW kids, NEW S, NEW n \in Nat
  PROVE  \E w : Reach(w, kids, S, n)
<1>1. PICK T : T = {m \in Nat : \E w : Reach(w, kids, S, m)}
  OBVIOUS
<1>2. 0 \in T
  <2>1. PICK w : w = [k \in 0..0 |-> S]
    OBVIOUS
  <2>2. Reach(w, kids, S, 0)
    BY <2>1 DEF Reach
  <2> QED BY <1>1, <2>2
<1>3. ASSUME NEW m \in Nat, m \in T PROVE m + 1 \in T
  <2>1. PICK w : Reach(w, kids, S, m)
    BY <1>1, <1>3
  <2>2. PICK x : x = [k \in 0..(m + 1) |-> IF k = m + 1 THEN Spread(kids, w[m]) ELSE w[k]]
    OBVIOUS
  <2>3. \A k \in 0..(m + 1) : x[k] = IF k = 0 THEN S ELSE Spread(kids, x[k - 1])
    BY <2>1, <2>2 DEF Reach
  <2>4. Reach(x, kids, S, m + 1)
    BY <2>2, <2>3 DEF Reach
  <2>5. \E y : Reach(y, kids, S, m + 1)
    BY <2>4
  <2> QED BY <1>1, <2>5
<1>4. n \in T
  BY <1>2, <1>3, SetInduction
<1> QED BY <1>1, <1>4

LEMMA UnderIs ==
  ASSUME NEW hier, NEW i
  PROVE  \E w : Reach(w, hier.kids, {i}, MaxId) /\ Under(hier, i) = w[MaxId]
<1> DEFINE Grown(grow) == grow = [k \in 0..MaxId |->
                                    IF k = 0 THEN {i}
                                    ELSE grow[k - 1] \cup UNION {Range(hier.kids[j]) : j \in grow[k - 1]}]
           w == CHOOSE grow : Grown(grow)
<1>1. Under(hier, i) = w[MaxId]
  BY DEF Under
<1>2. \E grow : Reach(grow, hier.kids, {i}, MaxId)
  BY MaxIdIsNat, ReachExists
<1>3. \A grow : Reach(grow, hier.kids, {i}, MaxId) <=> Grown(grow)
  BY DEF Reach, Spread
<1> HIDE DEF Grown
<1>4. Grown(w)
  BY <1>2, <1>3
<1> HIDE DEF w
<1> QED BY <1>1, <1>3, <1>4

LEMMA ChildlessUnder ==
  ASSUME NEW hier, NEW i, hier.kids[i] = <<>>
  PROVE  Under(hier, i) = {i}
<1>1. PICK w : Reach(w, hier.kids, {i}, MaxId) /\ Under(hier, i) = w[MaxId]
  BY UnderIs
<1>2. PICK T : T = {k \in Nat : k <= MaxId => w[k] = {i}}
  OBVIOUS
<1>3. 0 \in T
  BY <1>1, <1>2, MaxIdIsNat DEF Reach
<1>4. ASSUME NEW k \in Nat, k \in T PROVE k + 1 \in T
  <2> SUFFICES ASSUME k + 1 <= MaxId PROVE w[k + 1] = {i}
    BY <1>2
  <2>1. w[k] = {i}
    BY <1>2, <1>4, MaxIdIsNat
  <2>2. k + 1 \in 0..MaxId /\ k + 1 # 0 /\ (k + 1) - 1 = k
    BY MaxIdIsNat
  <2>3. w[k + 1] = Spread(hier.kids, w[k])
    BY <1>1, <2>2 DEF Reach
  <2>4. Range(hier.kids[i]) = {}
    BY NoneIsList
  <2> QED BY <2>1, <2>3, <2>4 DEF Spread
<1>5. MaxId \in T
  BY <1>3, <1>4, MaxIdIsNat, SetInduction
<1> QED BY <1>1, <1>2, <1>5, MaxIdIsNat

(* A coordinate two hierarchies both know under one id stands for the same *)
(* leaves in both.                                                         *)
THEOREM SharedHolds == Spec => []SharedIdsShareLeaves
<1>1. Inv => SharedIdsShareLeaves
  <2> SUFFICES ASSUME Inv, NEW g \in DOMAIN dim.hier, NEW h \in DOMAIN dim.hier,
                      NEW n \in Known(g), NEW m \in Known(h), dim.hier[g].id[n] = dim.hier[h].id[m]
               PROVE  LeafDescendants(dim, g, n) = LeafDescendants(dim, h, m)
    BY DEF SharedIdsShareLeaves
  <2>1. PICK i : i = dim.hier[g].id[n] /\ i = dim.hier[h].id[m]
    OBVIOUS
  <2>2. i \in Ids
    <3>1. dim.hier[g].id \in [Names -> Ids \cup {NoId}]
      BY HierarchyIs DEF Inv, DimInv, DimType
    <3> QED BY <2>1, <3>1 DEF Known
  <2>3. /\ LeafDescendants(dim, g, n) = {j \in Under(dim.hier[g], i) : IsLeaf(dim, j)}
        /\ LeafDescendants(dim, h, m) = {j \in Under(dim.hier[h], i) : IsLeaf(dim, j)}
    BY <2>1 DEF LeafDescendants, Known
  <2>4. CASE g = h
    BY <2>3, <2>4
  <2>5. CASE g # h
    <3>1. IsLeaf(dim, i)
      BY <2>1, <2>5 DEF Inv, DimInv, SharedAreLeaves, Known
    <3>2. dim.hier[g].kids[i] = <<>> /\ dim.hier[h].kids[i] = <<>>
      BY <2>2, <3>1 DEF Inv, DimInv, BareIds, Bare
    <3>3. Under(dim.hier[g], i) = {i} /\ Under(dim.hier[h], i) = {i}
      BY <3>2, ChildlessUnder
    <3> QED BY <2>3, <3>3
  <2> QED BY <2>4, <2>5
<1> QED BY <1>1, InvAlways, PTL

-------------------------------------------------------------------------------
(* Up from a member.                                                       *)

LEMMA ChainUnder ==
  ASSUME NEW hier, NEW a, NEW x \in Nat, NEW y \in Nat, x <= y, y - x <= MaxId,
         \A k \in Nat : x <= k /\ k < y => a[k] \in Range(hier.kids[a[k + 1]])
  PROVE  a[x] \in Under(hier, a[y])
<1>1. PICK w : Reach(w, hier.kids, {a[y]}, MaxId) /\ Under(hier, a[y]) = w[MaxId]
  BY UnderIs
<1>2. PICK T : T = {k \in Nat : k <= MaxId => /\ k <= y - x => a[y - k] \in w[k]
                                              /\ k >= y - x => a[x] \in w[k]}
  OBVIOUS
<1>3. 0 \in T
  <2>1. w[0] = {a[y]}
    BY <1>1, MaxIdIsNat DEF Reach
  <2>2. y - 0 = y /\ (0 >= y - x => x = y)
    OBVIOUS
  <2> QED BY <1>2, <2>1, <2>2
<1>4. ASSUME NEW k \in Nat, k \in T PROVE k + 1 \in T
  <2> SUFFICES ASSUME k + 1 <= MaxId
               PROVE  /\ k + 1 <= y - x => a[y - (k + 1)] \in w[k + 1]
                      /\ k + 1 >= y - x => a[x] \in w[k + 1]
    BY <1>2
  <2>1. k + 1 \in 0..MaxId /\ k + 1 # 0 /\ (k + 1) - 1 = k /\ k <= MaxId
    BY MaxIdIsNat
  <2>2. w[k + 1] = Spread(hier.kids, w[k])
    BY <1>1, <2>1 DEF Reach
  <2>3. w[k] \subseteq w[k + 1] /\ \A j \in w[k] : Range(hier.kids[j]) \subseteq w[k + 1]
    BY <2>2 DEF Spread
  <2>4. /\ k <= y - x => a[y - k] \in w[k]
        /\ k >= y - x => a[x] \in w[k]
    BY <1>2, <1>4, <2>1
  <2>5. ASSUME k + 1 <= y - x PROVE a[y - (k + 1)] \in w[k + 1]
    <3>1. PICK l \in Nat : l = y - (k + 1) /\ x <= l /\ l < y /\ l + 1 = y - k /\ k <= y - x
      BY <2>5
    <3>2. a[l] \in Range(hier.kids[a[l + 1]]) /\ a[l + 1] \in w[k]
      BY <2>4, <3>1
    <3> QED BY <2>3, <3>1, <3>2
  <2>6. ASSUME k + 1 >= y - x PROVE a[x] \in w[k + 1]
    <3>1. CASE k + 1 = y - x
      <4>1. y - (k + 1) = x
        BY <3>1
      <4> QED BY <2>5, <3>1, <4>1
    <3>2. CASE k + 1 # y - x
      <4>1. k >= y - x
        BY <2>6, <3>2
      <4> QED BY <2>3, <2>4, <4>1
    <3> QED BY <3>1, <3>2
  <2> QED BY <2>5, <2>6
<1>5. MaxId \in T
  BY <1>3, <1>4, MaxIdIsNat, SetInduction
<1> QED BY <1>1, <1>2, <1>5, MaxIdIsNat

(* a lists i, its parent, the parent of that, and NoId after a root.       *)
Climb(a, parent, i, n) ==
    /\ a \in [0..n -> Ids \cup {NoId}]
    /\ a[0] = i
    /\ \A k \in Nat : k < n => a[k + 1] = IF a[k] = NoId THEN NoId ELSE parent[a[k]]

LEMMA ClimbExists ==
  ASSUME NEW parent \in [Ids -> Ids \cup {NoId}], NEW i \in Ids, NEW n \in Nat
  PROVE  \E a : Climb(a, parent, i, n)
<1>1. PICK T : T = {m \in Nat : \E a : Climb(a, parent, i, m)}
  OBVIOUS
<1>2. 0 \in T
  <2>1. PICK a : a = [k \in 0..0 |-> i]
    OBVIOUS
  <2>2. Climb(a, parent, i, 0)
    BY <2>1 DEF Climb
  <2> QED BY <1>1, <2>2
<1>3. ASSUME NEW m \in Nat, m \in T PROVE m + 1 \in T
  <2>1. PICK a : Climb(a, parent, i, m)
    BY <1>1, <1>3
  <2>2. PICK v \in Ids \cup {NoId} : v = IF a[m] = NoId THEN NoId ELSE parent[a[m]]
    BY <2>1 DEF Climb
  <2>3. PICK b : b = [k \in 0..(m + 1) |-> IF k = m + 1 THEN v ELSE a[k]]
    OBVIOUS
  <2>4. b \in [0..(m + 1) -> Ids \cup {NoId}]
    BY <2>1, <2>3 DEF Climb
  <2>5. b[m + 1] = v /\ \A k \in Nat : k < m + 1 => b[k] = a[k]
    BY <2>3
  <2>6. ASSUME NEW k \in Nat, k < m + 1
        PROVE  b[k + 1] = IF b[k] = NoId THEN NoId ELSE parent[b[k]]
    <3>1. CASE k = m
      BY <2>2, <2>5, <2>6, <3>1
    <3>2. CASE k # m
      BY <2>1, <2>5, <2>6, <3>2 DEF Climb
    <3> QED BY <3>1, <3>2
  <2>7. Climb(b, parent, i, m + 1)
    BY <2>1, <2>4, <2>5, <2>6 DEF Climb
  <2>8. \E c : Climb(c, parent, i, m + 1)
    BY <2>7
  <2> QED BY <1>1, <2>8
<1>4. n \in T
  BY <1>2, <1>3, SetInduction
<1> QED BY <1>1, <1>4

LEMMA ListedIn ==
  ASSUME NEW h \in HierarchyType, Tree(h), Rooted(h), NEW n \in Names, h.id[n] # NoId
  PROVE  \E top \in Ids : /\ h.id[n] \in Under(h, top)
                          /\ top \in Range(h.roots) \/ OnCycle(h, top)
<1>1. PICK i \in Ids : i = h.id[n]
  BY HierarchyIs
<1>2. h.parent \in [Ids -> Ids \cup {NoId}]
  BY HierarchyIs
<1>3. PICK a : Climb(a, h.parent, i, MaxId)
  BY <1>2, MaxIdIsNat, ClimbExists
<1>4. /\ a \in [0..MaxId -> Ids \cup {NoId}] /\ a[0] = i
      /\ \A k \in Nat : k < MaxId => a[k + 1] = IF a[k] = NoId THEN NoId ELSE h.parent[a[k]]
  BY <1>3 DEF Climb
<1>5. ASSUME NEW k \in Nat, k < MaxId, a[k + 1] # NoId
      PROVE  a[k] \in Ids /\ a[k + 1] \in Ids /\ a[k + 1] = h.parent[a[k]]
             /\ a[k] \in Range(h.kids[a[k + 1]])
  <2>1. k \in 0..MaxId /\ k + 1 \in 0..MaxId
    BY <1>5, MaxIdIsNat
  <2>2. a[k] # NoId /\ a[k + 1] = h.parent[a[k]]
    BY <1>4, <1>5
  <2>3. a[k] \in Ids /\ a[k + 1] \in Ids
    BY <1>4, <1>5, <2>1, <2>2
  <2> QED BY <2>2, <2>3 DEF Tree
<1>6. CASE \E k \in 0..MaxId : a[k] = NoId
  <2>1. PICK S : S = {k \in 0..MaxId : a[k] = NoId}
    OBVIOUS
  <2>2. S \subseteq Nat /\ S # {}
    BY <1>6, <2>1
  <2>3. PICK k \in S : \A l \in S : k <= l
    BY <2>2, LeastExists
  <2>4. k \in 0..MaxId /\ a[k] = NoId /\ k # 0
    <3>1. i # NoId
      BY DEF Ids, NoId
    <3> QED BY <1>4, <2>1, <2>3, <3>1
  <2>5. PICK y \in Nat : y + 1 = k /\ y < MaxId /\ y <= MaxId
    BY <2>4, MaxIdIsNat
  <2>6. \A l \in Nat : l <= y => a[l] # NoId /\ a[l] \in Ids
    <3> SUFFICES ASSUME NEW l \in Nat, l <= y PROVE a[l] # NoId /\ a[l] \in Ids
      OBVIOUS
    <3>1. l \in 0..MaxId /\ ~(k <= l)
      BY <2>4, <2>5, MaxIdIsNat
    <3>2. l \notin S
      BY <2>3, <3>1
    <3> QED BY <1>4, <2>1, <3>1, <3>2
  <2>7. a[y] \in Ids /\ h.parent[a[y]] = NoId
    BY <1>4, <2>4, <2>5, <2>6
  <2>8. a[0] \in Under(h, a[y])
    <3>1. \A l \in Nat : 0 <= l /\ l < y => a[l] \in Range(h.kids[a[l + 1]])
      <4> SUFFICES ASSUME NEW l \in Nat, l < y PROVE a[l] \in Range(h.kids[a[l + 1]])
        OBVIOUS
      <4>1. l + 1 \in Nat /\ l + 1 <= y /\ l < MaxId
        BY <2>5, MaxIdIsNat
      <4>2. a[l + 1] # NoId
        BY <2>6, <4>1
      <4> QED BY <1>5, <4>1, <4>2
    <3>2. 0 <= y /\ y - 0 <= MaxId
      BY <2>5
    <3> QED BY <3>1, <3>2, ChainUnder
  <2>9. a[y] \in Range(h.roots)
    <3>1. CASE y = 0
      BY <1>1, <1>4, <2>7, <3>1 DEF Rooted
    <3>2. CASE y # 0
      <4>1. PICK l \in Nat : l + 1 = y /\ l < MaxId
        BY <2>5, <3>2, MaxIdIsNat
      <4>2. a[l] \in Range(h.kids[a[y]])
        <5>1. a[l + 1] # NoId
          BY <2>7, <4>1 DEF Ids, NoId
        <5> QED BY <1>5, <4>1, <5>1
      <4>3. h.kids[a[y]] # <<>>
        BY <4>2, NoneIsList
      <4> QED BY <2>7, <4>3 DEF Rooted
    <3> QED BY <3>1, <3>2
  <2> QED BY <1>1, <1>4, <2>7, <2>8, <2>9
<1>7. CASE \A k \in 0..MaxId : a[k] # NoId
  <2>1. a \in [0..MaxId -> Ids]
    BY <1>4, <1>7
  <2>2. PICK x \in 0..MaxId, y \in 0..MaxId : x < y /\ a[x] = a[y]
    <3>1. /\ IsFiniteSet(0..MaxId) /\ Cardinality(0..MaxId) = MaxId + 1
          /\ IsFiniteSet(Ids) /\ Cardinality(Ids) = MaxId
      BY MaxIdIsNat, FS_Interval DEF Ids
    <3>2. Cardinality(Ids) < Cardinality(0..MaxId)
      BY <3>1, MaxIdIsNat
    <3>3. PICK u \in 0..MaxId, v \in 0..MaxId : u # v /\ a[u] = a[v]
      <4>1. PICK S, T : S = 0..MaxId /\ T = Ids
        OBVIOUS
      <4>2. IsFiniteSet(S) /\ IsFiniteSet(T) /\ Cardinality(T) < Cardinality(S) /\ a \in [S -> T]
        BY <2>1, <3>1, <3>2, <4>1
      <4>3. \E u, v \in S : u # v /\ a[u] = a[v]
        BY <4>2, FS_PigeonHole
      <4> QED BY <4>1, <4>3
    <3>4. u < v \/ v < u
      BY <3>3
    <3> QED BY <3>3, <3>4
  <2>3. \A k \in Nat : k < MaxId => a[k] \in Range(h.kids[a[k + 1]])
    <3> SUFFICES ASSUME NEW k \in Nat, k < MaxId PROVE a[k] \in Range(h.kids[a[k + 1]])
      OBVIOUS
    <3>1. k + 1 \in 0..MaxId
      BY MaxIdIsNat
    <3> QED BY <1>5, <1>7, <3>1
  <2>4. PICK z \in Nat : z + 1 = y /\ x <= z /\ z < MaxId
    BY <2>2, MaxIdIsNat
  <2>5. a[0] \in Under(h, a[x])
    <3>1. x \in Nat /\ 0 <= x /\ x - 0 <= MaxId
      BY <2>2
    <3>2. \A k \in Nat : 0 <= k /\ k < x => a[k] \in Range(h.kids[a[k + 1]])
      BY <2>2, <2>3, MaxIdIsNat
    <3> QED BY <3>1, <3>2, ChainUnder
  <2>6. a[x] \in Under(h, a[z])
    <3>1. x \in Nat /\ x <= z /\ z - x <= MaxId
      BY <2>2, <2>4, MaxIdIsNat
    <3>2. \A k \in Nat : x <= k /\ k < z => a[k] \in Range(h.kids[a[k + 1]])
      BY <2>3, <2>4, MaxIdIsNat
    <3> QED BY <3>1, <3>2, ChainUnder
  <2>7. a[z] \in Range(h.kids[a[x]])
    BY <2>2, <2>3, <2>4
  <2>8. OnCycle(h, a[x])
    BY <2>6, <2>7 DEF OnCycle
  <2>9. a[x] \in Ids
    BY <2>1, <2>2
  <2> QED BY <1>1, <1>4, <2>5, <2>8, <2>9
<1> QED BY <1>6, <1>7

(* No edit drops a member out of the listing while its name lives.         *)
THEOREM NoneIsLost == Spec => []MembersAreListed
<1>1. Inv => MembersAreListed
  <2> SUFFICES ASSUME Inv, NEW h \in DOMAIN dim.hier, NEW n \in Known(h), NEW hier, hier = dim.hier[h]
               PROVE  \E top \in Ids : /\ hier.id[n] \in Under(hier, top)
                                       /\ top \in Range(hier.roots) \/ OnCycle(hier, top)
    BY DEF MembersAreListed
  <2>1. hier \in HierarchyType /\ Tree(hier) /\ Rooted(hier)
    BY DEF Inv, DimInv, DimType, Forests
  <2>2. n \in Names /\ hier.id[n] # NoId
    BY DEF Known
  <2> QED BY <2>1, <2>2, ListedIn
<1> QED BY <1>1, InvAlways, PTL
-------------------------------------------------------------------------------
(* The catalogue.  A command folds an edit over the rows it is given: what *)
(* it leaves is the last of a chain of states.                             *)

(* The edit of each fold, told apart by its kind; a is what does not       *)
(* change from row to row, and y the row.                                  *)
Step(kind, x, a, y) ==
    IF kind = "insert" THEN InsertRow(x, a, y)
    ELSE IF kind = "import" THEN ImportRow(x, a[1], a[2], y)
    ELSE IF kind = "attribute" THEN AttributeRow(x, a, y)
    ELSE IF kind = "target" THEN Targets(x, a[1][y], a[2][y])
    ELSE IF kind = "leaf" THEN PutLeaf(x, a[1][y], a[2][y])
    ELSE IF kind = "component" THEN AddComponent(x, a, y[1], y[2])
    ELSE WithDimension(x, y)

Steps(w, kind, b, a, s, m) ==
    w = [S \in SUBSET (1..m) |-> IF S = {} THEN b
                                 ELSE Step(kind, w[S \ {Max(S)}], a, s[Max(S)])]

LEMMA TopIs ==
  ASSUME NEW m \in Nat, NEW S \in SUBSET (1..m), S # {}
  PROVE  Max(S) \in S /\ \A x \in S : x <= Max(S)
<1>1. PICK T : T = {n \in Nat : \A R \in SUBSET (1..n) : R # {} => \E x \in R : \A y \in R : x >= y}
  OBVIOUS
<1>2. 0 \in T
  <2>1. \A R \in SUBSET (1..0) : R = {}
    OBVIOUS
  <2> QED BY <1>1, <2>1
<1>3. ASSUME NEW n \in Nat, n \in T PROVE n + 1 \in T
  <2> SUFFICES ASSUME NEW R \in SUBSET (1..(n + 1)), R # {} PROVE \E x \in R : \A y \in R : x >= y
    BY <1>1
  <2>1. CASE n + 1 \in R
    BY <2>1
  <2>2. CASE n + 1 \notin R
    <3>1. R \in SUBSET (1..n)
      BY <2>2
    <3> QED BY <1>1, <1>3, <3>1
  <2> QED BY <2>1, <2>2
<1>4. m \in T
  BY <1>2, <1>3, SetInduction
<1>5. \E x \in S : \A y \in S : x >= y
  BY <1>1, <1>4
<1>6. Max(S) \in S /\ \A y \in S : Max(S) >= y
  BY <1>5 DEF Max
<1> QED BY <1>6

LEMMA StepsExist ==
  ASSUME NEW kind, NEW b, NEW a, NEW s, NEW n \in Nat
  PROVE  \E w : Steps(w, kind, b, a, s, n)
<1>1. PICK T : T = {m \in Nat : \E w : Steps(w, kind, b, a, s, m)}
  OBVIOUS
<1>2. 0 \in T
  <2>1. PICK w : w = [S \in SUBSET (1..0) |-> b]
    OBVIOUS
  <2>2. \A S \in SUBSET (1..0) : S = {}
    OBVIOUS
  <2>3. Steps(w, kind, b, a, s, 0)
    BY <2>1, <2>2 DEF Steps
  <2> QED BY <1>1, <2>3
<1>3. ASSUME NEW m \in Nat, m \in T PROVE m + 1 \in T
  <2>1. PICK w : Steps(w, kind, b, a, s, m)
    BY <1>1, <1>3
  <2>2. \A S \in SUBSET (1..m) :
            w[S] = IF S = {} THEN b ELSE Step(kind, w[S \ {Max(S)}], a, s[Max(S)])
    BY <2>1 DEF Steps
  <2>3. PICK x : x = [S \in SUBSET (1..(m + 1)) |->
                          IF m + 1 \in S THEN Step(kind, w[S \ {m + 1}], a, s[m + 1]) ELSE w[S]]
    OBVIOUS
  <2>4. ASSUME NEW S \in SUBSET (1..(m + 1))
        PROVE  x[S] = IF S = {} THEN b ELSE Step(kind, x[S \ {Max(S)}], a, s[Max(S)])
    <3>1. CASE m + 1 \in S
      <4>1. Max(S) = m + 1
        <5>1. m + 1 \in Nat /\ S # {}
          BY <3>1
        <5>2. Max(S) \in S /\ \A y \in S : y <= Max(S)
          BY <5>1, TopIs
        <5>3. PICK t : t = Max(S)
          OBVIOUS
        <5>4. t \in 1..(m + 1) /\ m + 1 <= t
          BY <3>1, <5>2, <5>3
        <5>5. t = m + 1
          BY <5>4
        <5> QED BY <5>3, <5>5
      <4>2. S \ {m + 1} \in SUBSET (1..m)
        OBVIOUS
      <4>3. x[S \ {m + 1}] = w[S \ {m + 1}]
        BY <2>3, <4>2
      <4> QED BY <2>3, <3>1, <4>1, <4>3
    <3>2. CASE m + 1 \notin S
      <4>1. S \in SUBSET (1..m) /\ x[S] = w[S]
        BY <2>3, <3>2
      <4>2. PICK R : R = S \ {Max(S)}
        OBVIOUS
      <4>3. R \in SUBSET (1..m)
        BY <4>1, <4>2
      <4>4. R \in SUBSET (1..(m + 1)) /\ m + 1 \notin R
        BY <4>3
      <4>5. x[R] = w[R]
        BY <2>3, <4>4
      <4> QED BY <2>2, <4>1, <4>2, <4>5
    <3> QED BY <3>1, <3>2
  <2>5. x = [S \in SUBSET (1..(m + 1)) |-> IF S = {} THEN b
                                           ELSE Step(kind, x[S \ {Max(S)}], a, s[Max(S)])]
    BY <2>3, <2>4
  <2>6. Steps(x, kind, b, a, s, m + 1)
    BY <2>5 DEF Steps
  <2> QED BY <1>1, <2>6
<1>4. n \in T
  BY <1>2, <1>3, SetInduction
<1> QED BY <1>1, <1>4

Chain(v, kind, b, a, s, n) ==
    /\ v[0] = b
    /\ \A k \in 0..(n - 1) : v[k + 1] = Step(kind, v[k], a, s[k + 1])

LEMMA StepsChain ==
  ASSUME NEW kind, NEW b, NEW a, NEW s, NEW n \in Nat, NEW w, Steps(w, kind, b, a, s, n)
  PROVE  \E v : Chain(v, kind, b, a, s, n) /\ v[n] = w[1..n]
<1>1. PICK v : v = [k \in 0..n |-> w[1..k]]
  OBVIOUS
<1>2. \A S \in SUBSET (1..n) :
          w[S] = IF S = {} THEN b ELSE Step(kind, w[S \ {Max(S)}], a, s[Max(S)])
  BY DEF Steps
<1>3. v[0] = b
  <2>1. PICK S \in SUBSET (1..n) : S = {}
    OBVIOUS
  <2>2. 1..0 = S /\ 0 \in 0..n
    BY <2>1
  <2>3. v[0] = w[S]
    BY <1>1, <2>2
  <2>4. w[S] = b
    BY <1>2, <2>1
  <2> QED BY <2>3, <2>4
<1>4. ASSUME NEW k \in 0..(n - 1) PROVE v[k + 1] = Step(kind, v[k], a, s[k + 1])
  <2>1. PICK S \in SUBSET (1..n) : S = 1..(k + 1) /\ S # {} /\ k + 1 \in S
    <3>1. 1..(k + 1) \in SUBSET (1..n) /\ k + 1 \in 1..(k + 1)
      OBVIOUS
    <3> QED BY <3>1
  <2>2. Max(S) = k + 1
    <3>1. Max(S) \in S /\ k + 1 <= Max(S)
      BY <2>1, TopIs
    <3> QED BY <2>1, <3>1
  <2>3. S \ {k + 1} = 1..k
    BY <2>1
  <2>4. v[k + 1] = w[S] /\ v[k] = w[1..k]
    BY <1>1, <2>1
  <2> QED BY <1>2, <2>1, <2>2, <2>3, <2>4
<1>5. v[n] = w[1..n]
  BY <1>1
<1> QED BY <1>3, <1>4, <1>5 DEF Chain

LEMMA InsertChain ==
  ASSUME NEW c \in DOMAIN cubes, NEW rows \in Files, Insert(c, rows)
  PROVE  \E v : Chain(v, "insert", At(c), cubes[c].axes, rows, Len(rows)) /\ Answer(c, v[Len(rows)])
<1>1. PICK n \in Nat : n = Len(rows) /\ DOMAIN rows = 1..n
  BY FilesAreWhole
<1>2. PICK a, b : a = cubes[c].axes /\ b = At(c)
  OBVIOUS
<1> DEFINE w == CHOOSE iter : iter =
        [S \in SUBSET (1..n) |-> IF S = {} THEN b ELSE InsertRow(iter[S \ {Max(S)}], a, rows[Max(S)])]
<1>3. Answer(c, w[1..n])
  BY <1>1, <1>2 DEF Insert, FoldLeft, MapThenFoldSet
<1>4. \E iter : iter =
        [S \in SUBSET (1..n) |-> IF S = {} THEN b ELSE InsertRow(iter[S \ {Max(S)}], a, rows[Max(S)])]
  <2>1. PICK u : Steps(u, "insert", b, a, rows, n)
    BY StepsExist
  <2>2. u = [S \in SUBSET (1..n) |-> IF S = {} THEN b ELSE InsertRow(u[S \ {Max(S)}], a, rows[Max(S)])]
    BY <2>1 DEF Steps, Step
  <2> QED BY <2>2
<1>5. Steps(w, "insert", b, a, rows, n)
  BY <1>4 DEF Steps, Step
<1> HIDE DEF w
<1> QED BY <1>1, <1>2, <1>3, <1>5, StepsChain

LEMMA ImportChain ==
  ASSUME NEW c \in DOMAIN cubes, NEW rows \in Files, Import(c, rows)
  PROVE  \E v : /\ Chain(v, "import", At(c), <<cubes[c].axes, cubes[c].aggregating>>, rows, Len(rows))
                /\ Answer(c, v[Len(rows)])
<1>1. PICK n \in Nat : n = Len(rows) /\ DOMAIN rows = 1..n
  BY FilesAreWhole
<1>2. PICK a, g, b : a = cubes[c].axes /\ g = cubes[c].aggregating /\ b = At(c)
  OBVIOUS
<1> DEFINE w == CHOOSE iter : iter =
        [S \in SUBSET (1..n) |-> IF S = {} THEN b ELSE ImportRow(iter[S \ {Max(S)}], a, g, rows[Max(S)])]
<1>3. Answer(c, w[1..n])
  BY <1>1, <1>2 DEF Import, FoldLeft, MapThenFoldSet
<1>4. \E iter : iter =
        [S \in SUBSET (1..n) |-> IF S = {} THEN b ELSE ImportRow(iter[S \ {Max(S)}], a, g, rows[Max(S)])]
  <2>1. PICK u : Steps(u, "import", b, <<a, g>>, rows, n)
    BY StepsExist
  <2>2. u = [S \in SUBSET (1..n) |-> IF S = {} THEN b ELSE ImportRow(u[S \ {Max(S)}], a, g, rows[Max(S)])]
    BY <2>1 DEF Steps, Step
  <2> QED BY <2>2
<1>5. Steps(w, "import", b, <<a, g>>, rows, n)
  BY <1>4 DEF Steps, Step
<1> HIDE DEF w
<1> QED BY <1>1, <1>2, <1>3, <1>5, StepsChain

LEMMA AttributeChain ==
  ASSUME NEW c \in DOMAIN cubes, NEW rows \in Files, ImportAttributes(c, rows)
  PROVE  \E v : Chain(v, "attribute", At(c), cubes[c].axes, rows, Len(rows)) /\ Answer(c, v[Len(rows)])
<1>1. PICK n \in Nat : n = Len(rows) /\ DOMAIN rows = 1..n
  BY FilesAreWhole
<1>2. PICK a, b : a = cubes[c].axes /\ b = At(c)
  OBVIOUS
<1> DEFINE w == CHOOSE iter : iter =
        [S \in SUBSET (1..n) |-> IF S = {} THEN b ELSE AttributeRow(iter[S \ {Max(S)}], a, rows[Max(S)])]
<1>3. Answer(c, w[1..n])
  BY <1>1, <1>2 DEF ImportAttributes, FoldLeft, MapThenFoldSet
<1>4. \E iter : iter =
        [S \in SUBSET (1..n) |-> IF S = {} THEN b ELSE AttributeRow(iter[S \ {Max(S)}], a, rows[Max(S)])]
  <2>1. PICK u : Steps(u, "attribute", b, a, rows, n)
    BY StepsExist
  <2>2. u = [S \in SUBSET (1..n) |-> IF S = {} THEN b ELSE AttributeRow(u[S \ {Max(S)}], a, rows[Max(S)])]
    BY <2>1 DEF Steps, Step
  <2> QED BY <2>2
<1>5. Steps(w, "attribute", b, a, rows, n)
  BY <1>4 DEF Steps, Step
<1> HIDE DEF w
<1> QED BY <1>1, <1>2, <1>3, <1>5, StepsChain

LEMMA CreateChain ==
  ASSUME NEW c, NEW shape, NEW n \in Nat, DOMAIN shape.axes = 1..n, CreateTable(c, shape)
  PROVE  \E v : /\ Chain(v, "dimension", dims, {}, shape.axes, n)
                /\ Leave(v[n], With(cubes, c, NewCube(shape)))
<1>1. PICK a : a = shape.axes
  OBVIOUS
<1> DEFINE w == CHOOSE iter : iter =
        [S \in SUBSET (1..n) |-> IF S = {} THEN dims ELSE WithDimension(iter[S \ {Max(S)}], a[Max(S)])]
<1>2. Leave(w[1..n], With(cubes, c, NewCube(shape)))
  BY <1>1 DEF CreateTable, FoldLeft, MapThenFoldSet
<1>3. \E iter : iter =
        [S \in SUBSET (1..n) |-> IF S = {} THEN dims ELSE WithDimension(iter[S \ {Max(S)}], a[Max(S)])]
  <2>1. PICK u : Steps(u, "dimension", dims, {}, a, n)
    BY StepsExist
  <2>2. u = [S \in SUBSET (1..n) |-> IF S = {} THEN dims ELSE WithDimension(u[S \ {Max(S)}], a[Max(S)])]
    BY <2>1 DEF Steps, Step
  <2> QED BY <2>2
<1>4. Steps(w, "dimension", dims, {}, a, n)
  BY <1>3 DEF Steps, Step
<1> HIDE DEF w
<1> QED BY <1>1, <1>2, <1>4, StepsChain

(* What a write leaves once the leaves are there, in ds.                   *)
Filing(s, axes, row, ds) ==
    [s EXCEPT !.dims = ds,
              !.cells = With(@, [i \in DOMAIN axes |-> ds[axes[i]].leaf[row.at[i]]], row.value)]

LEMMA WrittenChain ==
  ASSUME NEW s, NEW axes, NEW n \in Nat, DOMAIN axes = 1..n, NEW row
  PROVE  \E v : /\ Chain(v, "leaf", s.dims, <<axes, row.at>>, Indices(axes), n)
                /\ Written(s, axes, row) = Filing(s, axes, row, v[n])
<1>0. DOMAIN Indices(axes) = 1..n
  BY DEF Indices
<1>1. PICK b, at, is : b = s.dims /\ at = row.at /\ is = Indices(axes) /\ DOMAIN is = 1..n
  BY <1>0
<1> DEFINE w == CHOOSE iter : iter =
        [S \in SUBSET (1..n) |-> IF S = {} THEN b
            ELSE PutLeaf(iter[S \ {Max(S)}], axes[is[Max(S)]], at[is[Max(S)]])]
<1>2. Written(s, axes, row) = Filing(s, axes, row, w[1..n])
  BY <1>1 DEF Written, FoldLeft, MapThenFoldSet, Filing
<1>3. \E iter : iter =
        [S \in SUBSET (1..n) |-> IF S = {} THEN b
            ELSE PutLeaf(iter[S \ {Max(S)}], axes[is[Max(S)]], at[is[Max(S)]])]
  <2>1. PICK u : Steps(u, "leaf", b, <<axes, at>>, is, n)
    BY StepsExist
  <2>2. u = [S \in SUBSET (1..n) |-> IF S = {} THEN b
                ELSE PutLeaf(u[S \ {Max(S)}], axes[is[Max(S)]], at[is[Max(S)]])]
    <3>1. \A x, y : Step("leaf", x, <<axes, at>>, y) = PutLeaf(x, axes[y], at[y])
      BY DEF Step
    <3>2. \A S \in SUBSET (1..n) :
              u[S] = IF S = {} THEN b ELSE Step("leaf", u[S \ {Max(S)}], <<axes, at>>, is[Max(S)])
      BY <2>1 DEF Steps
    <3>3. \A S \in SUBSET (1..n) :
              u[S] = IF S = {} THEN b ELSE PutLeaf(u[S \ {Max(S)}], axes[is[Max(S)]], at[is[Max(S)]])
      BY <3>1, <3>2
    <3>4. u = [S \in SUBSET (1..n) |-> u[S]]
      BY <2>1 DEF Steps
    <3> QED BY <3>3, <3>4
  <2> QED BY <2>2
<1>4. Steps(w, "leaf", b, <<axes, at>>, is, n)
  BY <1>3 DEF Steps, Step
<1> HIDE DEF w
<1>5. PICK v : Chain(v, "leaf", b, <<axes, at>>, is, n) /\ v[n] = w[1..n]
  BY <1>4, StepsChain
<1> QED BY <1>1, <1>2, <1>5

(* What a splash leaves once t says which leaves each coordinate is for.   *)
Covered(t, axes) == {k \in [DOMAIN axes -> Ids] : \A i \in DOMAIN axes : k[i] \in t.to[i]}
Filling(s, axes, t) ==
    [dims |-> t.dims, ok |-> t.ok,
     cells |-> IF ~t.ok THEN s.cells
               ELSE [k \in DOMAIN s.cells \cup Covered(t, axes) |->
                        IF k \in Covered(t, axes) THEN "number" ELSE s.cells[k]]]

LEMMA SplashedChain ==
  ASSUME NEW s, NEW axes, NEW n \in Nat, DOMAIN axes = 1..n, NEW at
  PROVE  \E v : /\ Chain(v, "target", [dims |-> s.dims, ok |-> s.ok, to |-> <<>>], <<axes, at>>,
                         Indices(axes), n)
                /\ Splashed(s, axes, at) = Filling(s, axes, v[n])
<1>0. DOMAIN Indices(axes) = 1..n
  BY DEF Indices
<1>1. PICK b, is : /\ b = [dims |-> s.dims, ok |-> s.ok, to |-> <<>>]
                   /\ is = Indices(axes) /\ DOMAIN is = 1..n
  BY <1>0
<1> DEFINE w == CHOOSE iter : iter =
        [S \in SUBSET (1..n) |-> IF S = {} THEN b
            ELSE Targets(iter[S \ {Max(S)}], axes[is[Max(S)]], at[is[Max(S)]])]
<1>2. Splashed(s, axes, at) = Filling(s, axes, w[1..n])
  BY <1>1 DEF Splashed, FoldLeft, MapThenFoldSet, Filling, Covered
<1>3. \E iter : iter =
        [S \in SUBSET (1..n) |-> IF S = {} THEN b
            ELSE Targets(iter[S \ {Max(S)}], axes[is[Max(S)]], at[is[Max(S)]])]
  <2>1. PICK u : Steps(u, "target", b, <<axes, at>>, is, n)
    BY StepsExist
  <2>2. u = [S \in SUBSET (1..n) |-> IF S = {} THEN b
                ELSE Targets(u[S \ {Max(S)}], axes[is[Max(S)]], at[is[Max(S)]])]
    BY <2>1 DEF Steps, Step
  <2> QED BY <2>2
<1>4. Steps(w, "target", b, <<axes, at>>, is, n)
  BY <1>3 DEF Steps, Step
<1> HIDE DEF w
<1>5. PICK v : Chain(v, "target", b, <<axes, at>>, is, n) /\ v[n] = w[1..n]
  BY <1>4, StepsChain
<1> QED BY <1>1, <1>2, <1>5

LEMMA RelateChain ==
  ASSUME NEW ref, NEW pairs \in Trees, Relate(ref, pairs)
  PROVE  \E t \in Resolve(ref) : LET ds == WithDimension(dims, t[1]) IN
             \E v : /\ Chain(v, "component", ds[t[1]], t[2], pairs, Len(pairs))
                    /\ Leave([ds EXCEPT ![t[1]] = v[Len(pairs)]], cubes)
<1>1. PICK n \in Nat : n = Len(pairs) /\ DOMAIN pairs = 1..n
  BY TreesAreWhole
<1>2. PICK t \in Resolve(ref) :
          Leave([WithDimension(dims, t[1]) EXCEPT ![t[1]] =
                    FoldLeft(LAMBDA d, pair : AddComponent(d, t[2], pair[1], pair[2]), @, pairs)],
                cubes)
  BY DEF Relate
<1>3. PICK ds, d, h : ds = WithDimension(dims, t[1]) /\ d = t[1] /\ h = t[2]
  OBVIOUS
<1>4. PICK b : b = ds[d]
  OBVIOUS
<1> DEFINE w == CHOOSE iter : iter =
        [S \in SUBSET (1..n) |-> IF S = {} THEN b
            ELSE AddComponent(iter[S \ {Max(S)}], h, pairs[Max(S)][1], pairs[Max(S)][2])]
<1>5. Leave([ds EXCEPT ![d] = w[1..n]], cubes)
  BY <1>1, <1>2, <1>3, <1>4 DEF FoldLeft, MapThenFoldSet
<1>6. \E iter : iter =
        [S \in SUBSET (1..n) |-> IF S = {} THEN b
            ELSE AddComponent(iter[S \ {Max(S)}], h, pairs[Max(S)][1], pairs[Max(S)][2])]
  <2>1. PICK u : Steps(u, "component", b, h, pairs, n)
    BY StepsExist
  <2>2. u = [S \in SUBSET (1..n) |-> IF S = {} THEN b
                ELSE AddComponent(u[S \ {Max(S)}], h, pairs[Max(S)][1], pairs[Max(S)][2])]
    BY <2>1 DEF Steps, Step
  <2> QED BY <2>2
<1>7. Steps(w, "component", b, h, pairs, n)
  BY <1>6 DEF Steps, Step
<1> HIDE DEF w
<1>8. PICK v : Chain(v, "component", b, h, pairs, n) /\ v[n] = w[1..n]
  BY <1>7, StepsChain
<1> QED BY <1>1, <1>3, <1>4, <1>5, <1>8

-------------------------------------------------------------------------------
(* A dimension under the edits of a command.  A command only ends where    *)
(* the ids handed out stay within the bound; as edits never take an id     *)
(* back, that holds of every state on the way as well.                     *)
Sound(d) == Shape(d) /\ (d.next <= MaxId + 1 => DimInv(d) /\ CurrentBut(d, {}))

Goes(d, e) ==
    /\ Sound(e) /\ e.next >= d.next /\ DOMAIN e.hier = DOMAIN d.hier
    /\ e.next <= MaxId + 1 => Carries(d, e)

LEMMA GoesSelf ==
  ASSUME NEW d, Sound(d)
  PROVE  Goes(d, d)
  BY DEF Goes, Sound, Shape, Carries

LEMMA GoesOn ==
  ASSUME NEW d, NEW e, NEW f, Sound(d), Goes(d, e), Goes(e, f)
  PROVE  Goes(d, f)
<1>1. d.next \in Nat /\ e.next \in Nat /\ f.next \in Nat
  BY DEF Goes, Sound, Shape
<1>2. f.next >= d.next /\ (f.next <= MaxId + 1 => e.next <= MaxId + 1)
  BY <1>1, MaxIdIsNat DEF Goes
<1>3. f.next <= MaxId + 1 => Carries(d, f)
  BY <1>2, CarriesOn DEF Goes
<1> QED BY <1>2, <1>3 DEF Goes

LEMMA AddLeafGoes ==
  ASSUME NEW d, Sound(d), NEW n \in Names, NEW e, e = AddLeaf(d, n)
  PROVE  /\ Goes(d, e)
         /\ e.next <= MaxId + 1 => e.leaf[n] \in Ids /\ HasName(e, e.leaf[n])
<1>1. Shape(e) /\ e.next >= d.next /\ DOMAIN e.hier = DOMAIN d.hier
  BY AddLeafGrows DEF Sound, Grows
<1>2. d.next \in Nat /\ e.next \in Nat
  BY <1>1 DEF Sound, Shape
<1>3. ASSUME e.next <= MaxId + 1
      PROVE  /\ DimInv(e) /\ CurrentBut(e, {}) /\ Carries(d, e)
             /\ e.leaf[n] \in Ids /\ HasName(e, e.leaf[n])
  <2>1. DimInv(d) /\ CurrentBut(d, {})
    BY <1>1, <1>2, <1>3, MaxIdIsNat DEF Sound
  <2>2. d.leaf[n] = NoId => e.next = d.next + 1
    BY DEF AddLeaf, Sound, Shape
  <2>3. d.leaf[n] = NoId => d.next <= MaxId
    BY <1>2, <1>3, <2>2, MaxIdIsNat
  <2>4. DimInv(e) /\ CurrentBut(e, {}) /\ Carries(d, e) /\ e.leaf[n] \in Ids
    BY <2>1, <2>3, AddLeafIs
  <2>5. HasName(e, e.leaf[n])
    BY HasNameIs DEF IsLeaf
  <2> QED BY <2>4, <2>5
<1> QED BY <1>1, <1>3 DEF Goes, Sound

LEMMA AddLeafKeeps ==
  ASSUME NEW d, Sound(d), NEW n \in Names, NEW m \in Names \ {n}
  PROVE  AddLeaf(d, n).leaf[m] = d.leaf[m]
  BY DEF AddLeaf, Sound, Shape

LEMMA AddComponentGoes ==
  ASSUME NEW d, Sound(d), NEW h \in DOMAIN d.hier, NEW p \in Names, NEW c \in Names,
         NEW e, e = AddComponent(d, h, p, c)
  PROVE  Goes(d, e)
<1>1. Shape(e) /\ e.next >= d.next /\ DOMAIN e.hier = DOMAIN d.hier
  BY AddComponentGrows DEF Sound, Grows
<1>2. d.next \in Nat /\ e.next \in Nat
  BY <1>1 DEF Sound, Shape
<1>3. ASSUME e.next <= MaxId + 1 PROVE DimInv(e) /\ CurrentBut(e, {}) /\ Carries(d, e)
  <2>1. DimInv(d) /\ CurrentBut(d, {})
    BY <1>1, <1>2, <1>3, MaxIdIsNat DEF Sound
  <2>2. Roomy(d, h, p, c)
    BY <1>3, RoomLeft DEF Sound
  <2> QED BY <2>1, <2>2, AddComponentIs
<1> QED BY <1>1, <1>3 DEF Goes, Sound

LEMMA RemoveComponentGoes ==
  ASSUME NEW d, Sound(d), d.next <= MaxId + 1, NEW h \in DOMAIN d.hier,
         NEW p \in Names, NEW c \in Names, CanRemoveComponent(d, h, p, c),
         NEW e, e = RemoveComponent(d, h, p, c)
  PROVE  Goes(d, e)
<1>1. Shape(e) /\ e.next >= d.next
  BY RemoveComponentGrows DEF Sound, Grows
<1>2. DimInv(e) /\ CurrentBut(e, {}) /\ Carries(d, e)
  BY RemoveComponentIs DEF Sound
<1> QED BY <1>1, <1>2 DEF Goes, Sound, Carries

(* The dimensions of a catalogue, and the cells of a cube over them.       *)
AllSound(ds) == \A d \in DOMAIN ds : Sound(ds[d])
Bounded(ds)  == \A d \in DOMAIN ds : ds[d].next <= MaxId + 1
AllGo(ds, es) ==
    /\ DOMAIN ds \subseteq DOMAIN es /\ AllSound(es)
    /\ \A d \in DOMAIN ds : Goes(ds[d], es[d])

Filed(axes, ds, cells) ==
    \A k \in DOMAIN cells : \A i \in Leading(axes) : k[i] \in Ids /\ HasName(ds[axes[i]], k[i])

LEMMA LeadingAre ==
  ASSUME NEW axes
  PROVE  Leading(axes) \subseteq DOMAIN axes
  BY DEF Leading

LEMMA AllGoSelf ==
  ASSUME NEW ds, AllSound(ds)
  PROVE  AllGo(ds, ds)
  BY GoesSelf DEF AllGo, AllSound

LEMMA AllGoOn ==
  ASSUME NEW ds, NEW es, NEW fs, AllSound(ds), AllGo(ds, es), AllGo(es, fs)
  PROVE  AllGo(ds, fs)
<1>1. \A d \in DOMAIN ds : d \in DOMAIN es /\ d \in DOMAIN fs
  BY DEF AllGo
<1>2. \A d \in DOMAIN ds : Goes(ds[d], fs[d])
  BY <1>1, GoesOn DEF AllGo, AllSound
<1> QED BY <1>1, <1>2 DEF AllGo

LEMMA BoundedBefore ==
  ASSUME NEW ds, NEW es, AllSound(ds), AllGo(ds, es), Bounded(es)
  PROVE  Bounded(ds)
<1> SUFFICES ASSUME NEW d \in DOMAIN ds PROVE ds[d].next <= MaxId + 1
  BY DEF Bounded
<1>1. d \in DOMAIN es /\ Goes(ds[d], es[d]) /\ es[d].next <= MaxId + 1
  BY DEF AllGo, Bounded
<1>2. ds[d].next \in Nat /\ es[d].next \in Nat /\ ds[d].next <= es[d].next
  BY <1>1 DEF AllSound, Sound, Shape, Goes
<1> QED BY <1>1, <1>2, MaxIdIsNat

LEMMA FiledOn ==
  ASSUME NEW axes, NEW ds, NEW es, NEW cells, \A i \in DOMAIN axes : axes[i] \in DOMAIN ds,
         AllGo(ds, es), Bounded(es), Filed(axes, ds, cells)
  PROVE  Filed(axes, es, cells)
<1> SUFFICES ASSUME NEW k \in DOMAIN cells, NEW i \in Leading(axes)
             PROVE  k[i] \in Ids /\ HasName(es[axes[i]], k[i])
  BY DEF Filed
<1>1. PICK d : d = axes[i] /\ d \in DOMAIN ds /\ d \in DOMAIN es
  BY LeadingAre DEF AllGo
<1>2. Carries(ds[d], es[d])
  BY <1>1 DEF AllGo, Goes, Bounded
<1>3. k[i] \in Ids /\ HasName(ds[d], k[i])
  BY <1>1 DEF Filed
<1> QED BY <1>1, <1>2, <1>3 DEF Carries

LEMMA PutGoes ==
  ASSUME NEW ds, AllSound(ds), NEW d \in DOMAIN ds, NEW e, Goes(ds[d], e)
  PROVE  AllGo(ds, [ds EXCEPT ![d] = e])
<1>1. PICK es : es = [ds EXCEPT ![d] = e]
  OBVIOUS
<1>2. DOMAIN es = DOMAIN ds /\ es[d] = e /\ \A x \in DOMAIN ds \ {d} : es[x] = ds[x]
  BY <1>1
<1>3. \A x \in DOMAIN ds : Goes(ds[x], es[x])
  BY <1>2, GoesSelf DEF AllSound
<1>4. AllSound(es)
  BY <1>2, <1>3 DEF AllSound, Goes
<1> QED BY <1>1, <1>2, <1>3, <1>4 DEF AllGo

LEMMA WithDimensionGoes ==
  ASSUME NEW ds, AllSound(ds), NEW d, NEW es, es = WithDimension(ds, d)
  PROVE  /\ AllGo(ds, es) /\ DOMAIN es = DOMAIN ds \cup {d}
         /\ Bounded(ds) => Bounded(es)
<1>1. CASE d \in DOMAIN ds
  <2>1. es = ds
    BY <1>1 DEF WithDimension
  <2> QED BY <1>1, <2>1, AllGoSelf
<1>2. CASE d \notin DOMAIN ds
  <2>1. PICK x : x = EmptyDimension(d)
    OBVIOUS
  <2>2. es = [y \in DOMAIN ds \cup {d} |-> IF y = d THEN x ELSE ds[y]]
    BY <1>2, <2>1 DEF WithDimension, With
  <2>3. DOMAIN es = DOMAIN ds \cup {d} /\ es[d] = x /\ \A y \in DOMAIN ds : es[y] = ds[y]
    BY <1>2, <2>2
  <2>4. x.next = 1 /\ Shape(x)
    BY <2>1 DEF EmptyDimension, EmptyHierarchy, Shape, HierarchyShape, NoId
  <2>5. Sound(x) /\ x.next <= MaxId + 1
    BY <2>1, <2>4, EmptyDimensionIs, MaxIdIsNat DEF Sound
  <2>6. AllSound(es)
    BY <2>3, <2>5 DEF AllSound
  <2>7. \A y \in DOMAIN ds : Goes(ds[y], es[y])
    BY <2>3, GoesSelf DEF AllSound
  <2>8. Bounded(ds) => Bounded(es)
    BY <2>3, <2>5 DEF Bounded
  <2> QED BY <2>3, <2>6, <2>7, <2>8 DEF AllGo
<1> QED BY <1>1, <1>2

-------------------------------------------------------------------------------
(* Cells.  A row keeps the cells there are, and files new ones under ids   *)
(* that have names.                                                        *)
Ready(axes, s) ==
    /\ {"dims", "cells", "ok"} \subseteq DOMAIN s /\ AllSound(s.dims)
    /\ \A i \in DOMAIN axes : axes[i] \in DOMAIN s.dims

Proceeds(axes, s, t) ==
    /\ Ready(axes, t) /\ AllGo(s.dims, t.dims) /\ DOMAIN t.dims = DOMAIN s.dims
    /\ DOMAIN s.cells \subseteq DOMAIN t.cells
    /\ Bounded(t.dims) /\ Filed(axes, s.dims, s.cells) => Filed(axes, t.dims, t.cells)

LEMMA ProceedsSelf ==
  ASSUME NEW axes, NEW s, Ready(axes, s)
  PROVE  Proceeds(axes, s, s)
  BY AllGoSelf DEF Proceeds, Ready

LEMMA ProceedsOn ==
  ASSUME NEW axes, NEW s, NEW t, NEW u, Ready(axes, s), Proceeds(axes, s, t), Proceeds(axes, t, u)
  PROVE  Proceeds(axes, s, u)
<1>1. AllGo(s.dims, u.dims)
  BY AllGoOn DEF Ready, Proceeds
<1>2. Bounded(u.dims) => Bounded(t.dims)
  BY BoundedBefore DEF Ready, Proceeds
<1> QED BY <1>1, <1>2 DEF Proceeds

LEMMA NameGoes ==
  ASSUME NEW ds, NEW es, AllGo(ds, es), Bounded(es), NEW d \in DOMAIN ds, NEW x \in Ids,
         HasName(ds[d], x)
  PROVE  HasName(es[d], x)
<1>1. d \in DOMAIN es /\ Goes(ds[d], es[d]) /\ es[d].next <= MaxId + 1
  BY DEF AllGo, Bounded
<1> QED BY <1>1 DEF Goes, Carries

(* The leaves a write needs, made one dimension after the other.           *)
LEMMA LeavesAreThere ==
  ASSUME NEW ds, AllSound(ds), NEW axes, NEW n \in Nat, DOMAIN axes = 1..n,
         \A i \in 1..n : axes[i] \in DOMAIN ds,
         NEW at, \A i \in 1..n : at[i] \in Names,
         NEW v, Chain(v, "leaf", ds, <<axes, at>>, Indices(axes), n)
  PROVE  /\ AllGo(ds, v[n]) /\ DOMAIN v[n] = DOMAIN ds
         /\ Bounded(v[n]) => \A i \in 1..n : /\ v[n][axes[i]].leaf[at[i]] \in Ids
                                             /\ HasName(v[n][axes[i]], v[n][axes[i]].leaf[at[i]])
<1> DEFINE Held(m, i) == /\ v[m][axes[i]].leaf[at[i]] \in Ids
                         /\ HasName(v[m][axes[i]], v[m][axes[i]].leaf[at[i]])
           Fine(m) == /\ AllGo(ds, v[m]) /\ DOMAIN v[m] = DOMAIN ds
                      /\ Bounded(v[m]) => \A i \in 1..m : Held(m, i)
<1>1. PICK T : T = {m \in Nat : m <= n => Fine(m)}
  OBVIOUS
<1>2. 0 \in T
  <2>1. v[0] = ds
    BY DEF Chain
  <2> QED BY <1>1, <2>1, AllGoSelf
<1>3. ASSUME NEW m \in Nat, m \in T PROVE m + 1 \in T
  <2> SUFFICES ASSUME m + 1 <= n PROVE Fine(m + 1)
    BY <1>1
  <2>1. Fine(m)
    BY <1>1, <1>3
  <2>2. PICK k \in 1..n : k = m + 1
    OBVIOUS
  <2>3. PICK a : a = axes[k] /\ a \in DOMAIN v[m]
    BY <2>1
  <2>4. PICK e : e = AddLeaf(v[m][a], at[k])
    OBVIOUS
  <2>5. v[k] = [v[m] EXCEPT ![a] = e]
    <3>1. m \in 0..(n - 1)
      OBVIOUS
    <3>2. v[k] = Step("leaf", v[m], <<axes, at>>, Indices(axes)[k])
      BY <2>2, <3>1 DEF Chain
    <3>3. Indices(axes)[k] = k
      BY DEF Indices
    <3> QED BY <2>3, <2>4, <3>2, <3>3 DEF Step, PutLeaf
  <2>6. AllSound(v[m])
    BY <2>1 DEF AllGo
  <2>7. /\ Goes(v[m][a], e)
        /\ e.next <= MaxId + 1 => e.leaf[at[k]] \in Ids /\ HasName(e, e.leaf[at[k]])
    BY <2>3, <2>4, <2>6, AddLeafGoes DEF AllSound
  <2>8. AllGo(v[m], v[k])
    BY <2>3, <2>5, <2>6, <2>7, PutGoes
  <2>9. AllGo(ds, v[k]) /\ DOMAIN v[k] = DOMAIN ds
    BY <2>1, <2>5, <2>8, AllGoOn
  <2>10. ASSUME Bounded(v[k]), NEW i \in 1..k PROVE Held(k, i)
    <3>1. CASE i = k
      <4>1. v[k][a] = e /\ e.next <= MaxId + 1
        BY <2>3, <2>5, <2>9, <2>10 DEF Bounded
      <4> QED BY <2>3, <2>7, <3>1, <4>1
    <3>2. CASE i # k
      <4>1. i \in 1..m /\ i \in 1..n
        BY <2>2, <3>2
      <4>2. Bounded(v[m])
        BY <2>6, <2>8, <2>10, BoundedBefore
      <4>3. PICK z, x : z = axes[i] /\ z \in DOMAIN v[m] /\ x = v[m][z].leaf[at[i]]
        BY <2>1, <4>1
      <4>4. x \in Ids /\ HasName(v[m][z], x)
        BY <2>1, <4>1, <4>2, <4>3
      <4>5. HasName(v[k][z], x)
        BY <2>8, <2>10, <4>3, <4>4, NameGoes
      <4>6. CASE z = a /\ at[i] = at[k]
        <5>1. v[k][a] = e /\ e.next <= MaxId + 1
          BY <2>3, <2>5, <2>9, <2>10 DEF Bounded
        <5> QED BY <2>7, <4>3, <4>6, <5>1
      <4>7. CASE ~(z = a /\ at[i] = at[k])
        <5>1. v[k][z].leaf[at[i]] = x
          <6>1. CASE z # a
            BY <2>3, <2>5, <4>3, <6>1
          <6>2. CASE z = a
            <7>1. at[i] \in Names \ {at[k]} /\ at[k] \in Names
              BY <4>1, <4>7, <6>2
            <7>2. e.leaf[at[i]] = v[m][a].leaf[at[i]]
              BY <2>3, <2>4, <2>6, <7>1, AddLeafKeeps DEF AllSound
            <7> QED BY <2>3, <2>5, <4>3, <6>2, <7>2
          <6> QED BY <6>1, <6>2
        <5> QED BY <4>3, <4>4, <4>5, <5>1
      <4> QED BY <4>6, <4>7
    <3> QED BY <3>1, <3>2
  <2> QED BY <2>2, <2>9, <2>10
<1>4. n \in T
  BY <1>2, <1>3, SetInduction
<1> QED BY <1>1, <1>4

LEMMA WrittenProceeds ==
  ASSUME NEW axes, NEW n \in Nat, DOMAIN axes = 1..n, NEW s, Ready(axes, s),
         NEW row, \A i \in 1..n : row.at[i] \in Names
  PROVE  Proceeds(axes, s, Written(s, axes, row))
<1>1. PICK v : /\ Chain(v, "leaf", s.dims, <<axes, row.at>>, Indices(axes), n)
               /\ Written(s, axes, row) = Filing(s, axes, row, v[n])
  BY WrittenChain
<1>2. PICK ds, key, t : /\ ds = v[n] /\ key = [i \in 1..n |-> ds[axes[i]].leaf[row.at[i]]]
                        /\ t = Written(s, axes, row)
  OBVIOUS
<1>3. /\ AllGo(s.dims, ds) /\ DOMAIN ds = DOMAIN s.dims
      /\ Bounded(ds) => \A i \in 1..n : key[i] \in Ids /\ HasName(ds[axes[i]], key[i])
  <2>1. PICK at : at = row.at
    OBVIOUS
  <2>2. /\ AllGo(s.dims, ds) /\ DOMAIN ds = DOMAIN s.dims
        /\ Bounded(ds) => \A i \in 1..n : /\ ds[axes[i]].leaf[at[i]] \in Ids
                                          /\ HasName(ds[axes[i]], ds[axes[i]].leaf[at[i]])
    <3>1. AllSound(s.dims) /\ \A i \in 1..n : axes[i] \in DOMAIN s.dims
      BY DEF Ready
    <3>2. Chain(v, "leaf", s.dims, <<axes, at>>, Indices(axes), n) /\ \A i \in 1..n : at[i] \in Names
      BY <1>1, <2>1
    <3>3. /\ AllGo(s.dims, v[n]) /\ DOMAIN v[n] = DOMAIN s.dims
          /\ Bounded(v[n]) => \A i \in 1..n : /\ v[n][axes[i]].leaf[at[i]] \in Ids
                                              /\ HasName(v[n][axes[i]], v[n][axes[i]].leaf[at[i]])
      BY <3>1, <3>2, LeavesAreThere
    <3> QED BY <1>2, <3>3
  <2> QED BY <1>2, <2>1, <2>2
<1>4. t.dims = ds /\ DOMAIN t.cells = DOMAIN s.cells \cup {key} /\ DOMAIN t = DOMAIN s
  <2>1. t = [s EXCEPT !.dims = ds, !.cells = With(@, key, row.value)]
    BY <1>1, <1>2 DEF Filing
  <2>2. t.dims = ds /\ t.cells = With(s.cells, key, row.value) /\ DOMAIN t = DOMAIN s
    BY <2>1 DEF Ready
  <2> QED BY <2>2 DEF With
<1>5. Ready(axes, t)
  BY <1>3, <1>4 DEF Ready, AllGo
<1>6. ASSUME Bounded(ds), Filed(axes, s.dims, s.cells) PROVE Filed(axes, ds, t.cells)
  <2>1. Filed(axes, ds, s.cells)
    BY <1>3, <1>6, FiledOn DEF Ready
  <2>2. Leading(axes) \subseteq 1..n
    BY LeadingAre
  <2> QED BY <1>3, <1>4, <1>6, <2>1, <2>2 DEF Filed
<1> QED BY <1>2, <1>3, <1>4, <1>5, <1>6 DEF Proceeds

(* One coordinate of a splash: the leaves found or made for it have names. *)
Aimed(s, ds, under) == [s EXCEPT !.dims = ds, !.to = Append(@, under), !.ok = under # {}]

LEMMA TargetIs ==
  ASSUME NEW s, {"dims", "ok", "to"} \subseteq DOMAIN s, s.ok, AllSound(s.dims), NEW d \in DOMAIN s.dims,
         NEW n \in Names
  PROVE  \E ds, under :
             /\ Targets(s, d, n) = Aimed(s, ds, under)
             /\ AllGo(s.dims, ds) /\ DOMAIN ds = DOMAIN s.dims
             /\ Bounded(ds) => \A x \in under : x \in Ids => HasName(ds[d], x)
<1>1. PICK known, ds, under :
          /\ known = HomeId(s.dims[d], n)
          /\ ds = IF known # NoId THEN s.dims ELSE PutLeaf(s.dims, d, n)
          /\ under = IF IsConsolidated(ds[d], known) THEN LeafDescendants(ds[d], ds[d].home, n)
                     ELSE {IF known # NoId THEN known ELSE ds[d].leaf[n]}
  OBVIOUS
<1>2. Targets(s, d, n) = Aimed(s, ds, under)
  BY <1>1 DEF Targets, Aimed
<1>3. PICK e : e = ds[d]
  OBVIOUS
<1>4. CASE known # NoId
  <2>1. ds = s.dims
    BY <1>1, <1>4
  <2>2. AllGo(s.dims, ds)
    BY <2>1, AllGoSelf
  <2>3. ASSUME Bounded(ds), NEW x \in under, x \in Ids PROVE HasName(e, x)
    <3>1. DimInv(e)
      BY <1>3, <2>1, <2>3 DEF AllSound, Sound, Bounded
    <3>2. CASE IsConsolidated(e, known)
      <4>1. x \in LeafDescendants(e, e.home, n)
        BY <1>1, <1>3, <3>2
      <4>2. IsLeaf(e, x)
        BY <4>1 DEF LeafDescendants
      <4> QED BY <4>2, HasNameIs
    <3>3. CASE ~IsConsolidated(e, known)
      <4>1. x = known /\ known = e.hier[e.home].id[n] /\ e.home \in DOMAIN e.hier
        BY <1>1, <1>3, <1>4, <2>1, <3>1, <3>3 DEF HomeId, DimInv, DimType
      <4>2. IsLeaf(e, x) \/ e.hier[e.home].title[x] # NoName
        BY <1>4, <3>1, <4>1 DEF DimInv, Titled
      <4> QED BY <4>1, <4>2, HasNameIs
    <3> QED BY <3>2, <3>3
  <2> QED BY <1>2, <1>3, <2>1, <2>2, <2>3
<1>5. CASE known = NoId
  <2>1. PICK f : f = AddLeaf(s.dims[d], n)
    OBVIOUS
  <2>2. ds = [s.dims EXCEPT ![d] = f]
    BY <1>1, <1>5, <2>1 DEF PutLeaf
  <2>3. DOMAIN ds = DOMAIN s.dims /\ e = f
    BY <1>3, <2>2
  <2>4. /\ Goes(s.dims[d], f)
        /\ f.next <= MaxId + 1 => f.leaf[n] \in Ids /\ HasName(f, f.leaf[n])
    BY <2>1, AddLeafGoes DEF AllSound
  <2>5. AllGo(s.dims, ds)
    BY <2>2, <2>4, PutGoes
  <2>6. under = {f.leaf[n]}
    BY <1>1, <1>3, <1>5, <2>3 DEF IsConsolidated
  <2>7. ASSUME Bounded(ds) PROVE HasName(e, f.leaf[n])
    <3>1. e.next <= MaxId + 1
      BY <1>3, <2>3, <2>7 DEF Bounded
    <3> QED BY <2>3, <2>4, <3>1
  <2>8. Bounded(ds) => \A x \in under : x \in Ids => HasName(ds[d], x)
    <3>1. \A x \in under : x = f.leaf[n]
      BY <2>6
    <3> QED BY <1>3, <2>7, <3>1
  <2> QED BY <1>2, <2>3, <2>5, <2>8
<1> QED BY <1>4, <1>5

LEMMA TargetsAreNamed ==
  ASSUME NEW s, AllSound(s.dims), NEW axes, NEW n \in Nat, DOMAIN axes = 1..n,
         \A i \in 1..n : axes[i] \in DOMAIN s.dims, NEW at, \A i \in 1..n : at[i] \in Names,
         NEW v, Chain(v, "target", [dims |-> s.dims, ok |-> s.ok, to |-> <<>>], <<axes, at>>,
                      Indices(axes), n)
  PROVE  /\ AllGo(s.dims, v[n].dims) /\ DOMAIN v[n].dims = DOMAIN s.dims
         /\ v[n].ok /\ Bounded(v[n].dims) =>
                \A i \in 1..n : \A x \in v[n].to[i] : x \in Ids => HasName(v[n].dims[axes[i]], x)
<1> DEFINE Named(m) == \A i \in 1..m : \A x \in v[m].to[i] : x \in Ids => HasName(v[m].dims[axes[i]], x)
           Fine(m) == /\ {"dims", "ok", "to"} \subseteq DOMAIN v[m]
                      /\ AllGo(s.dims, v[m].dims) /\ DOMAIN v[m].dims = DOMAIN s.dims
                      /\ v[m].ok => (\E X : v[m].to \in Seq(X)) /\ Len(v[m].to) = m
                      /\ v[m].ok /\ Bounded(v[m].dims) => Named(m)
<1>1. PICK T : T = {m \in Nat : m <= n => Fine(m)}
  OBVIOUS
<1>2. 0 \in T
  <2>1. v[0] = [dims |-> s.dims, ok |-> s.ok, to |-> <<>>]
    BY DEF Chain
  <2>2. <<>> \in Seq({}) /\ Len(<<>>) = 0
    BY EmptySeq
  <2>3. (\E X : v[0].to \in Seq(X)) /\ Len(v[0].to) = 0
    BY <2>1, <2>2
  <2>4. /\ {"dims", "ok", "to"} \subseteq DOMAIN v[0]
        /\ AllGo(s.dims, v[0].dims) /\ DOMAIN v[0].dims = DOMAIN s.dims
    BY <2>1, AllGoSelf
  <2>5. Named(0)
    OBVIOUS
  <2> QED BY <1>1, <2>3, <2>4, <2>5
<1>3. ASSUME NEW m \in Nat, m \in T PROVE m + 1 \in T
  <2> SUFFICES ASSUME m + 1 <= n PROVE Fine(m + 1)
    BY <1>1
  <2>1. Fine(m)
    BY <1>1, <1>3
  <2>2. PICK k \in 1..n : k = m + 1
    OBVIOUS
  <2>3. PICK a : a = axes[k] /\ a \in DOMAIN v[m].dims
    BY <2>1
  <2>4. v[k] = Targets(v[m], a, at[k])
    <3>1. m \in 0..(n - 1)
      OBVIOUS
    <3>2. v[k] = Step("target", v[m], <<axes, at>>, Indices(axes)[k])
      BY <2>2, <3>1 DEF Chain
    <3>3. Indices(axes)[k] = k
      BY DEF Indices
    <3> QED BY <2>3, <3>2, <3>3 DEF Step
  <2>5. AllSound(v[m].dims)
    BY <2>1 DEF AllGo
  <2>6. CASE ~v[m].ok
    <3>1. v[k] = v[m]
      BY <2>4, <2>6 DEF Targets
    <3> QED BY <2>1, <2>2, <2>6, <3>1
  <2>7. CASE v[m].ok
    <3>1. PICK ds, under :
              /\ Targets(v[m], a, at[k]) = Aimed(v[m], ds, under)
              /\ AllGo(v[m].dims, ds) /\ DOMAIN ds = DOMAIN v[m].dims
              /\ Bounded(ds) => \A x \in under : x \in Ids => HasName(ds[a], x)
      BY <2>1, <2>3, <2>5, <2>7, TargetIs
    <3>2. /\ v[k].dims = ds /\ v[k].to = Append(v[m].to, under) /\ DOMAIN v[k] = DOMAIN v[m]
      BY <2>1, <2>4, <3>1 DEF Aimed
    <3>3. AllGo(s.dims, ds) /\ DOMAIN ds = DOMAIN s.dims
      BY <2>1, <3>1, AllGoOn
    <3>4. PICK X : v[m].to \in Seq(X)
      BY <2>1, <2>7
    <3>5. PICK Y, to : Y = X \cup {under} /\ to = v[m].to /\ to \in Seq(Y) /\ under \in Y
      <4>1. Seq(X) \subseteq Seq(X \cup {under})
        BY SeqMonotonic
      <4> QED BY <3>4, <4>1
    <3>6. /\ Append(to, under) \in Seq(Y) /\ Len(Append(to, under)) = k
          /\ Append(to, under)[k] = under /\ \A i \in 1..m : Append(to, under)[i] = to[i]
      BY <2>1, <2>2, <2>7, <3>5, AppendProperties
    <3>7. ASSUME Bounded(ds), NEW i \in 1..k, NEW x \in v[k].to[i], x \in Ids
          PROVE  HasName(ds[axes[i]], x)
      <4>1. CASE i = k
        BY <2>3, <3>1, <3>2, <3>5, <3>6, <3>7, <4>1
      <4>2. CASE i # k
        <5>1. i \in 1..m /\ i \in 1..n
          BY <2>2, <4>2
        <5>2. Bounded(v[m].dims)
          BY <2>5, <3>1, <3>7, BoundedBefore
        <5>3. x \in v[m].to[i]
          BY <3>2, <3>5, <3>6, <3>7, <5>1
        <5>4. HasName(v[m].dims[axes[i]], x)
          BY <2>1, <2>7, <3>7, <5>1, <5>2, <5>3
        <5>5. axes[i] \in DOMAIN v[m].dims
          BY <2>1, <5>1
        <5> QED BY <3>1, <3>7, <5>4, <5>5, NameGoes
      <4> QED BY <4>1, <4>2
    <3>8. /\ {"dims", "ok", "to"} \subseteq DOMAIN v[k]
          /\ AllGo(s.dims, v[k].dims) /\ DOMAIN v[k].dims = DOMAIN s.dims
          /\ (\E Z : v[k].to \in Seq(Z)) /\ Len(v[k].to) = k
      BY <2>1, <3>2, <3>3, <3>5, <3>6
    <3>9. Bounded(v[k].dims) => Named(k)
      BY <3>2, <3>7
    <3> QED BY <2>2, <3>8, <3>9
  <2> QED BY <2>6, <2>7
<1>4. n \in T
  BY <1>2, <1>3, SetInduction
<1> QED BY <1>1, <1>4

LEMMA SplashedProceeds ==
  ASSUME NEW axes, NEW n \in Nat, DOMAIN axes = 1..n, NEW s, Ready(axes, s),
         NEW at, \A i \in 1..n : at[i] \in Names
  PROVE  Proceeds(axes, s, Splashed(s, axes, at))
<1>1. PICK v : /\ Chain(v, "target", [dims |-> s.dims, ok |-> s.ok, to |-> <<>>], <<axes, at>>,
                        Indices(axes), n)
               /\ Splashed(s, axes, at) = Filling(s, axes, v[n])
  BY SplashedChain
<1>2. PICK t, u : t = v[n] /\ u = Splashed(s, axes, at)
  OBVIOUS
<1>3. /\ AllGo(s.dims, t.dims) /\ DOMAIN t.dims = DOMAIN s.dims
      /\ t.ok /\ Bounded(t.dims) =>
             \A i \in 1..n : \A x \in t.to[i] : x \in Ids => HasName(t.dims[axes[i]], x)
  <2>1. AllSound(s.dims) /\ \A i \in 1..n : axes[i] \in DOMAIN s.dims
    BY DEF Ready
  <2>2. PICK r : /\ r = [dims |-> s.dims, ok |-> s.ok, to |-> <<>>]
                 /\ Chain(v, "target", r, <<axes, at>>, Indices(axes), n)
    BY <1>1
  <2>3. /\ AllGo(s.dims, v[n].dims) /\ DOMAIN v[n].dims = DOMAIN s.dims
        /\ v[n].ok /\ Bounded(v[n].dims) =>
               \A i \in 1..n : \A x \in v[n].to[i] : x \in Ids => HasName(v[n].dims[axes[i]], x)
    BY <2>1, <2>2, TargetsAreNamed
  <2> QED BY <1>2, <2>3
<1>4. /\ u.dims = t.dims /\ DOMAIN u = {"dims", "ok", "cells"}
      /\ u.cells = IF ~t.ok THEN s.cells
                   ELSE [k \in DOMAIN s.cells \cup Covered(t, axes) |->
                            IF k \in Covered(t, axes) THEN "number" ELSE s.cells[k]]
  BY <1>1, <1>2 DEF Filling
<1>5. Ready(axes, u)
  BY <1>3, <1>4 DEF Ready, AllGo
<1>6. DOMAIN u.cells = IF ~t.ok THEN DOMAIN s.cells ELSE DOMAIN s.cells \cup Covered(t, axes)
  BY <1>4
<1>7. ASSUME Bounded(t.dims), Filed(axes, s.dims, s.cells) PROVE Filed(axes, t.dims, u.cells)
  <2>1. Filed(axes, t.dims, s.cells)
    BY <1>3, <1>7, FiledOn DEF Ready
  <2>2. ASSUME t.ok, NEW k \in Covered(t, axes), NEW i \in DOMAIN axes
        PROVE  k[i] \in Ids /\ HasName(t.dims[axes[i]], k[i])
    <3>1. k[i] \in Ids /\ k[i] \in t.to[i]
      BY DEF Covered
    <3> QED BY <1>3, <1>7, <2>2, <3>1
  <2>3. Leading(axes) \subseteq DOMAIN axes
    BY LeadingAre
  <2> QED BY <1>6, <2>1, <2>2, <2>3 DEF Filed
<1> QED BY <1>2, <1>3, <1>4, <1>5, <1>6, <1>7 DEF Proceeds

Whole(axes) == axes \in Seq(Refs)

LEMMA WholeIs ==
  ASSUME NEW axes, Whole(axes)
  PROVE  Len(axes) \in Nat /\ DOMAIN axes = 1..Len(axes)
  BY DEF Whole

LEMMA StopsProceeds ==
  ASSUME NEW axes, NEW s, Ready(axes, s)
  PROVE  Proceeds(axes, s, [s EXCEPT !.ok = FALSE])
<1>1. PICK t : t = [s EXCEPT !.ok = FALSE]
  OBVIOUS
<1>2. t.dims = s.dims /\ t.cells = s.cells /\ DOMAIN t = DOMAIN s
  BY <1>1 DEF Ready
<1>3. Ready(axes, t) /\ AllGo(s.dims, t.dims)
  BY <1>2, AllGoSelf DEF Ready
<1> QED BY <1>1, <1>2, <1>3 DEF Proceeds

LEMMA RowIs ==
  ASSUME NEW rows \in Files, NEW k \in 1..Len(rows)
  PROVE  rows[k].at \in Seq(Names)
<1>1. PICK R : R = [at : Seq(Names), value : {"number", "text"}]
  OBVIOUS
<1>2. rows \in Seq(R)
  BY <1>1, FilesAreWhole
<1>3. rows[k] \in R
  BY <1>2
<1> QED BY <1>1, <1>3

LEMMA InsertRowProceeds ==
  ASSUME NEW axes, Whole(axes), NEW s, Ready(axes, s), NEW row, row.at \in Seq(Names)
  PROVE  Proceeds(axes, s, InsertRow(s, axes, row))
<1>1. PICK n \in Nat : n = Len(axes) /\ DOMAIN axes = 1..n
  BY WholeIs
<1>2. PICK t : t = InsertRow(s, axes, row)
  OBVIOUS
<1>3. CASE t = s
  BY <1>2, <1>3, ProceedsSelf
<1>4. CASE t = [s EXCEPT !.ok = FALSE]
  BY <1>2, <1>4, StopsProceeds
<1>5. CASE Len(row.at) = n /\ t \in {Splashed(s, axes, row.at), Written(s, axes, row)}
  <2>1. \A i \in 1..n : row.at[i] \in Names
    BY <1>5
  <2>2. Proceeds(axes, s, Splashed(s, axes, row.at))
    BY <1>1, <2>1, SplashedProceeds
  <2>3. Proceeds(axes, s, Written(s, axes, row))
    BY <1>1, <2>1, WrittenProceeds
  <2> QED BY <1>2, <1>5, <2>2, <2>3
<1> QED BY <1>1, <1>2, <1>3, <1>4, <1>5 DEF InsertRow

LEMMA RecordIs ==
  ASSUME NEW row, row.at \in Seq(Names), NEW n \in Nat, Len(row.at) >= n, NEW i \in 1..n
  PROVE  Record(row, n).at[i] \in Names
<1>1. PICK at : at = row.at /\ at \in Seq(Names) /\ Len(at) \in Nat /\ Len(at) >= n
  OBVIOUS
<1>2. Record(row, n).at = SubSeq(at, 1, n)
  BY <1>1 DEF Record
<1>3. SubSeq(at, 1, n)[i] = at[i] /\ at[i] \in Names
  BY <1>1
<1> QED BY <1>2, <1>3

LEMMA ImportRowProceeds ==
  ASSUME NEW axes, Whole(axes), NEW s, Ready(axes, s), NEW row, row.at \in Seq(Names), NEW g
  PROVE  Proceeds(axes, s, ImportRow(s, axes, g, row))
<1>1. PICK n \in Nat : n = Len(axes) /\ DOMAIN axes = 1..n
  BY WholeIs
<1>2. PICK t, r : t = ImportRow(s, axes, g, row) /\ r = Record(row, n)
  OBVIOUS
<1>3. CASE t = s
  BY <1>2, <1>3, ProceedsSelf
<1>4. CASE t = [s EXCEPT !.ok = FALSE]
  BY <1>2, <1>4, StopsProceeds
<1>5. CASE Len(row.at) >= n /\ t = Written(s, axes, r)
  <2>1. \A i \in 1..n : r.at[i] \in Names
    BY <1>2, <1>5, RecordIs
  <2> QED BY <1>1, <1>2, <1>5, <2>1, WrittenProceeds
<1>6. Len(row.at) \in Nat
  OBVIOUS
<1> QED BY <1>1, <1>2, <1>3, <1>4, <1>5, <1>6 DEF ImportRow

LEMMA AttributeRowProceeds ==
  ASSUME NEW axes, Whole(axes), NEW s, Ready(axes, s), NEW row, row.at \in Seq(Names)
  PROVE  Proceeds(axes, s, AttributeRow(s, axes, row))
<1>1. PICK n \in Nat : n = Len(axes) /\ DOMAIN axes = 1..n
  BY WholeIs
<1>2. PICK t, r : t = AttributeRow(s, axes, row) /\ r = [Record(row, n) EXCEPT !.value = "text"]
  OBVIOUS
<1>3. CASE t = s
  BY <1>2, <1>3, ProceedsSelf
<1>4. CASE t = [s EXCEPT !.ok = FALSE]
  BY <1>2, <1>4, StopsProceeds
<1>5. CASE Len(row.at) >= n /\ t = Written(s, axes, r)
  <2>1. PICK z : z = Record(row, n)
    OBVIOUS
  <2>2. \A i \in 1..n : Record(row, n).at[i] \in Names
    BY <1>5, RecordIs
  <2>3. r.at = z.at
    <3>1. z = [at |-> z.at, value |-> z.value]
      BY <2>1 DEF Record
    <3> QED BY <1>2, <2>1, <3>1
  <2>4. \A i \in 1..n : r.at[i] \in Names
    BY <2>1, <2>2, <2>3
  <2>5. Proceeds(axes, s, Written(s, axes, r))
    BY <1>1, <2>4, WrittenProceeds
  <2> QED BY <1>2, <1>5, <2>5
<1>6. Len(row.at) \in Nat
  OBVIOUS
<1> QED BY <1>1, <1>2, <1>3, <1>4, <1>5, <1>6 DEF AttributeRow

(* A command of rows proceeds as each of its rows does.                    *)
LEMMA RowsProceed ==
  ASSUME NEW kind \in {"insert", "import", "attribute"}, NEW axes, Whole(axes), NEW g,
         NEW a, a = IF kind = "import" THEN <<axes, g>> ELSE axes,
         NEW s, Ready(axes, s), NEW rows \in Files,
         NEW v, Chain(v, kind, s, a, rows, Len(rows))
  PROVE  Proceeds(axes, s, v[Len(rows)])
<1>1. PICK n \in Nat : n = Len(rows)
  BY FilesAreWhole
<1>2. PICK T : T = {m \in Nat : m <= n => Proceeds(axes, s, v[m])}
  OBVIOUS
<1>3. 0 \in T
  <2>1. v[0] = s
    BY DEF Chain
  <2> QED BY <1>2, <2>1, ProceedsSelf
<1>4. ASSUME NEW m \in Nat, m \in T PROVE m + 1 \in T
  <2> SUFFICES ASSUME m + 1 <= n PROVE Proceeds(axes, s, v[m + 1])
    BY <1>2
  <2>1. Proceeds(axes, s, v[m])
    BY <1>2, <1>4
  <2>2. PICK k \in 1..n : k = m + 1
    OBVIOUS
  <2>3. PICK t, row : t = v[m] /\ row = rows[k]
    OBVIOUS
  <2>4. v[k] = Step(kind, t, a, row)
    <3>1. m \in 0..(n - 1)
      OBVIOUS
    <3> QED BY <1>1, <2>2, <2>3, <3>1 DEF Chain
  <2>5. row.at \in Seq(Names)
    BY <1>1, <2>3, RowIs
  <2>6. Ready(axes, t)
    BY <2>1, <2>3 DEF Proceeds
  <2>7. Proceeds(axes, t, v[k])
    <3>1. CASE kind = "insert"
      <4>1. v[k] = InsertRow(t, axes, row)
        BY <2>4, <3>1 DEF Step
      <4> QED BY <2>5, <2>6, <4>1, InsertRowProceeds
    <3>2. CASE kind = "import"
      <4>1. v[k] = ImportRow(t, axes, g, row)
        BY <2>4, <3>2 DEF Step
      <4> QED BY <2>5, <2>6, <4>1, ImportRowProceeds
    <3>3. CASE kind = "attribute"
      <4>1. v[k] = AttributeRow(t, axes, row)
        BY <2>4, <3>3 DEF Step
      <4> QED BY <2>5, <2>6, <4>1, AttributeRowProceeds
    <3> QED BY <3>1, <3>2, <3>3
  <2> QED BY <2>1, <2>2, <2>3, <2>7, ProceedsOn
<1>5. n \in T
  BY <1>3, <1>4, SetInduction
<1> QED BY <1>1, <1>2, <1>5

-------------------------------------------------------------------------------
(* The catalogue's invariant.                                              *)
CatInv ==
    /\ AllSound(dims) /\ Bounded(dims)
    /\ \A c \in DOMAIN cubes :
           /\ {"axes", "cells"} \subseteq DOMAIN cubes[c] /\ Whole(cubes[c].axes)
           /\ \A i \in Axes(c) : cubes[c].axes[i] \in DOMAIN dims
           /\ Filed(cubes[c].axes, dims, cubes[c].cells)

Kept ==
    \A c \in DOMAIN cubes : \A k \in DOMAIN cubes[c].cells :
        \/ k \in DOMAIN cubes'[c].cells
        \/ \E i \in Axes(c) : NamesOf(dims'[cubes[c].axes[i]], k[i]) = {}

LEMMA LeaveMeans ==
  ASSUME NEW ds, NEW cs, Leave(ds, cs)
  PROVE  dims' = ds /\ cubes' = cs /\ Bounded(ds)
  BY DEF Leave, CommandFits, Bounded

(* A command on dimensions alone.                                          *)
LEMMA DimensionsMove ==
  ASSUME CatInv, NEW ds, AllSound(ds), DOMAIN dims \subseteq DOMAIN ds,
         \A d \in DOMAIN dims : \A i \in Ids : HasName(dims[d], i) => HasName(ds[d], i),
         Leave(ds, cubes)
  PROVE  CatInv' /\ Kept
<1>1. dims' = ds /\ cubes' = cubes /\ Bounded(ds)
  BY LeaveMeans
<1>2. ASSUME NEW c \in DOMAIN cubes
      PROVE  /\ \A i \in Axes(c) : cubes[c].axes[i] \in DOMAIN ds
             /\ Filed(cubes[c].axes, ds, cubes[c].cells)
  <2>1. \A i \in Axes(c) : cubes[c].axes[i] \in DOMAIN dims
    BY DEF CatInv
  <2>2. Filed(cubes[c].axes, dims, cubes[c].cells)
    BY DEF CatInv
  <2>3. Leading(cubes[c].axes) \subseteq Axes(c)
    BY LeadingAre DEF Axes
  <2> QED BY <2>1, <2>2, <2>3 DEF Filed
<1>3. CatInv'
  BY <1>1, <1>2 DEF CatInv, Axes
<1>4. Kept
  BY <1>1 DEF Kept
<1> QED BY <1>3, <1>4

LEMMA EditsMove ==
  ASSUME CatInv, NEW ds, AllGo(dims, ds), Leave(ds, cubes)
  PROVE  CatInv' /\ Kept
<1>1. Bounded(ds)
  BY LeaveMeans
<1>2. ASSUME NEW d \in DOMAIN dims, NEW i \in Ids, HasName(dims[d], i) PROVE HasName(ds[d], i)
  BY <1>1, <1>2, NameGoes
<1> QED BY <1>2, DimensionsMove DEF AllGo

(* A command on the cells of one cube.                                     *)
LEMMA CellsMove ==
  ASSUME CatInv, NEW c \in DOMAIN cubes, NEW s, Proceeds(cubes[c].axes, At(c), s), Answer(c, s)
  PROVE  CatInv' /\ Kept
<1>1. PICK ds, old, a : ds = s.dims /\ old = cubes[c].cells /\ a = cubes[c].axes
  OBVIOUS
<1>2. dims' = ds /\ cubes' = [cubes EXCEPT ![c].cells = s.cells] /\ Bounded(ds)
  BY <1>1, LeaveMeans DEF Answer
<1>3. /\ AllGo(dims, ds) /\ DOMAIN ds = DOMAIN dims /\ DOMAIN old \subseteq DOMAIN s.cells
      /\ Filed(a, dims, old) => Filed(a, ds, s.cells)
  <2>1. At(c).dims = dims /\ At(c).cells = old
    BY <1>1 DEF At
  <2> QED BY <1>1, <1>2, <2>1 DEF Proceeds
<1>4. /\ DOMAIN cubes' = DOMAIN cubes
      /\ \A b \in DOMAIN cubes \ {c} : cubes'[b] = cubes[b]
      /\ DOMAIN cubes'[c] = DOMAIN cubes[c] /\ cubes'[c].axes = a /\ cubes'[c].cells = s.cells
  <2>1. {"axes", "cells"} \subseteq DOMAIN cubes[c]
    BY DEF CatInv
  <2> QED BY <1>1, <1>2, <2>1
<1>5. AllSound(ds)
  BY <1>3 DEF AllGo
<1>6. ASSUME NEW b \in DOMAIN cubes
      PROVE  /\ {"axes", "cells"} \subseteq DOMAIN cubes'[b] /\ Whole(cubes'[b].axes)
             /\ \A i \in DOMAIN cubes'[b].axes : cubes'[b].axes[i] \in DOMAIN ds
             /\ Filed(cubes'[b].axes, ds, cubes'[b].cells)
  <2>1. PICK r, x : r = cubes'[b] /\ x = cubes[b]
    OBVIOUS
  <2>2. /\ {"axes", "cells"} \subseteq DOMAIN x /\ Whole(x.axes)
        /\ \A i \in DOMAIN x.axes : x.axes[i] \in DOMAIN dims
        /\ Filed(x.axes, dims, x.cells)
    BY <2>1 DEF CatInv, Axes
  <2>3. CASE b = c
    BY <1>1, <1>3, <1>4, <2>1, <2>2, <2>3
  <2>4. CASE b # c
    <3>1. r = x
      BY <1>4, <2>1, <2>4
    <3>2. Filed(x.axes, ds, x.cells)
      BY <1>2, <1>3, <2>2, FiledOn
    <3> QED BY <1>3, <2>1, <2>2, <3>1, <3>2
  <2> QED BY <2>3, <2>4
<1>7. CatInv'
  BY <1>2, <1>4, <1>5, <1>6 DEF CatInv, Axes
<1>8. Kept
  BY <1>1, <1>3, <1>4 DEF Kept
<1> QED BY <1>7, <1>8

LEMMA StartsReady ==
  ASSUME CatInv, NEW c \in DOMAIN cubes
  PROVE  Whole(cubes[c].axes) /\ Ready(cubes[c].axes, At(c))
  BY DEF CatInv, Ready, At, Axes

LEMMA RowCommandsMove ==
  ASSUME CatInv, NEW c \in DOMAIN cubes, NEW rows \in Files,
         Insert(c, rows) \/ Import(c, rows) \/ ImportAttributes(c, rows)
  PROVE  CatInv' /\ Kept
<1>1. PICK a, g, b : /\ a = cubes[c].axes /\ g = cubes[c].aggregating /\ b = At(c)
                     /\ Whole(a) /\ Ready(a, b)
  BY StartsReady
<1>2. PICK n : n = Len(rows)
  OBVIOUS
<1>3. CASE Insert(c, rows)
  <2>1. PICK v : Chain(v, "insert", b, a, rows, n) /\ Answer(c, v[n])
    BY <1>1, <1>2, <1>3, InsertChain
  <2>2. Proceeds(a, b, v[n])
    BY <1>1, <1>2, <2>1, RowsProceed
  <2> QED BY <1>1, <2>1, <2>2, CellsMove
<1>4. CASE Import(c, rows)
  <2>1. PICK v : Chain(v, "import", b, <<a, g>>, rows, n) /\ Answer(c, v[n])
    BY <1>1, <1>2, <1>4, ImportChain
  <2>2. Proceeds(a, b, v[n])
    BY <1>1, <1>2, <2>1, RowsProceed
  <2> QED BY <1>1, <2>1, <2>2, CellsMove
<1>5. CASE ImportAttributes(c, rows)
  <2>1. PICK v : Chain(v, "attribute", b, a, rows, n) /\ Answer(c, v[n])
    BY <1>1, <1>2, <1>5, AttributeChain
  <2>2. Proceeds(a, b, v[n])
    BY <1>1, <1>2, <2>1, RowsProceed
  <2> QED BY <1>1, <2>1, <2>2, CellsMove
<1> QED BY <1>3, <1>4, <1>5

LEMMA SplashMoves ==
  ASSUME CatInv, NEW c \in DOMAIN cubes, NEW at, Splash(c, at)
  PROVE  CatInv' /\ Kept
<1>1. PICK a, b : a = cubes[c].axes /\ b = At(c) /\ Whole(a) /\ Ready(a, b)
  BY StartsReady
<1>2. PICK n \in Nat : n = Len(a) /\ DOMAIN a = 1..n
  BY <1>1, WholeIs
<1>3. PICK full \in [1..n -> Names] : Answer(c, Splashed(b, a, full))
  BY <1>1, <1>2 DEF Splash, Axes
<1>4. \A i \in 1..n : full[i] \in Names
  OBVIOUS
<1>5. Proceeds(a, b, Splashed(b, a, full))
  BY <1>1, <1>2, <1>4, SplashedProceeds
<1> QED BY <1>1, <1>3, <1>5, CellsMove

LEMMA CreateDimensionMoves ==
  ASSUME CatInv, NEW d, CreateDimension(d)
  PROVE  CatInv' /\ Kept
<1>1. AllGo(dims, WithDimension(dims, d))
  BY WithDimensionGoes DEF CatInv
<1> QED BY <1>1, EditsMove DEF CreateDimension

LEMMA CreateHierarchyMoves ==
  ASSUME CatInv, NEW d, NEW h, CreateHierarchyIn(d, h)
  PROVE  CatInv' /\ Kept
<1>1. PICK ds : ds = WithDimension(dims, d)
  OBVIOUS
<1>2. AllGo(dims, ds) /\ DOMAIN ds = DOMAIN dims \cup {d} /\ Bounded(ds)
  BY <1>1, WithDimensionGoes DEF CatInv
<1>3. CASE Leave(ds, cubes)
  BY <1>2, <1>3, EditsMove
<1>4. CASE /\ h \notin DOMAIN ds[d].hier
           /\ \E leaves \in SetToSeqs({ds[d].leaf[n] : n \in Names} \ {NoId}) :
                  Leave([ds EXCEPT ![d] = CreateHierarchy(@, h, leaves)], cubes)
  <2>1. PICK x : x = ds[d]
    OBVIOUS
  <2>2. PICK leaves \in SetToSeqs({x.leaf[n] : n \in Names} \ {NoId}) :
            Leave([ds EXCEPT ![d] = CreateHierarchy(x, h, leaves)], cubes)
    BY <1>2, <1>4, <2>1
  <2>3. PICK e : e = CreateHierarchy(x, h, leaves)
    OBVIOUS
  <2>4. Sound(x) /\ DimInv(x) /\ CurrentBut(x, {})
    BY <1>2, <2>1 DEF AllGo, AllSound, Sound, Bounded
  <2>5. DimInv(e) /\ CurrentBut(e, {}) /\ \A i \in Ids : HasName(x, i) => HasName(e, i)
    BY <1>4, <2>1, <2>3, <2>4, CreateHierarchyIs
  <2>6. Shape(e)
    BY <2>3, <2>4, CreateHierarchyGrows DEF Sound, Grows
  <2>7. Sound(e)
    BY <2>5, <2>6 DEF Sound
  <2>8. PICK es : es = [ds EXCEPT ![d] = e]
    OBVIOUS
  <2>9. DOMAIN es = DOMAIN ds /\ es[d] = e /\ \A y \in DOMAIN ds \ {d} : es[y] = ds[y]
    BY <1>2, <2>8
  <2>10. AllSound(es)
    BY <1>2, <2>7, <2>9 DEF AllSound, AllGo
  <2>11. ASSUME NEW y \in DOMAIN dims, NEW i \in Ids, HasName(dims[y], i) PROVE HasName(es[y], i)
    <3>1. HasName(ds[y], i)
      BY <1>2, <2>11, NameGoes
    <3>2. y \in DOMAIN ds
      BY <1>2
    <3> QED BY <2>1, <2>5, <2>9, <3>1, <3>2
  <2>12. DOMAIN dims \subseteq DOMAIN es /\ Leave(es, cubes)
    BY <1>2, <2>2, <2>3, <2>8, <2>9
  <2> QED BY <2>10, <2>11, <2>12, DimensionsMove
<1> QED BY <1>1, <1>3, <1>4 DEF CreateHierarchyIn

LEMMA CreateTableMoves ==
  ASSUME CatInv, NEW c \in Cubes, NEW shape \in Shapes[c], CreateTable(c, shape)
  PROVE  CatInv' /\ Kept
<1>1. PICK a : a = shape.axes /\ Whole(a)
  BY CubesAreWhole DEF Whole
<1>2. PICK n \in Nat : n = Len(a) /\ DOMAIN a = 1..n
  BY <1>1, WholeIs
<1>3. PICK v : Chain(v, "dimension", dims, {}, a, n) /\ Leave(v[n], With(cubes, c, NewCube(shape)))
  BY <1>1, <1>2, CreateChain
<1>4. PICK T : T = {m \in Nat : m <= n => AllGo(dims, v[m]) /\ \A i \in 1..m : a[i] \in DOMAIN v[m]}
  OBVIOUS
<1>5. 0 \in T
  <2>1. v[0] = dims
    BY <1>3 DEF Chain
  <2> QED BY <1>4, <2>1, AllGoSelf DEF CatInv
<1>6. ASSUME NEW m \in Nat, m \in T PROVE m + 1 \in T
  <2> SUFFICES ASSUME m + 1 <= n
               PROVE  AllGo(dims, v[m + 1]) /\ \A i \in 1..(m + 1) : a[i] \in DOMAIN v[m + 1]
    BY <1>4
  <2>1. AllGo(dims, v[m]) /\ \A i \in 1..m : a[i] \in DOMAIN v[m]
    BY <1>4, <1>6
  <2>2. PICK k \in 1..n : k = m + 1
    OBVIOUS
  <2>3. PICK es : es = v[k] /\ es = WithDimension(v[m], a[k])
    <3>1. m \in 0..(n - 1)
      OBVIOUS
    <3> QED BY <1>3, <2>2, <3>1 DEF Chain, Step
  <2>4. AllGo(v[m], es) /\ DOMAIN es = DOMAIN v[m] \cup {a[k]}
    BY <2>1, <2>3, WithDimensionGoes DEF AllGo
  <2>5. AllGo(dims, es)
    BY <2>1, <2>4, AllGoOn DEF CatInv
  <2>6. \A i \in 1..k : a[i] \in DOMAIN es
    BY <2>1, <2>2, <2>4
  <2> QED BY <2>2, <2>3, <2>5, <2>6
<1>7. n \in T
  BY <1>5, <1>6, SetInduction
<1>8. PICK ds : ds = v[n] /\ AllGo(dims, ds) /\ \A i \in 1..n : a[i] \in DOMAIN ds
  BY <1>4, <1>7
<1>9. PICK x, cs : x = NewCube(shape) /\ cs = With(cubes, c, x)
  OBVIOUS
<1>10. dims' = ds /\ cubes' = cs /\ Bounded(ds) /\ c \notin DOMAIN cubes
  BY <1>3, <1>8, <1>9, LeaveMeans DEF CreateTable
<1>11. /\ DOMAIN cs = DOMAIN cubes \cup {c} /\ cs[c] = x
       /\ \A b \in DOMAIN cubes : cs[b] = cubes[b]
  BY <1>9, <1>10 DEF With
<1>12. {"axes", "cells"} \subseteq DOMAIN x /\ x.axes = a /\ DOMAIN x.cells = {}
  BY <1>1, <1>9 DEF NewCube
<1>13. ASSUME NEW b \in DOMAIN cs
       PROVE  /\ {"axes", "cells"} \subseteq DOMAIN cs[b] /\ Whole(cs[b].axes)
              /\ \A i \in DOMAIN cs[b].axes : cs[b].axes[i] \in DOMAIN ds
              /\ Filed(cs[b].axes, ds, cs[b].cells)
  <2>1. CASE b \in DOMAIN cubes
    <3>1. PICK y : y = cubes[b] /\ y = cs[b]
      BY <1>11, <2>1
    <3>2. /\ {"axes", "cells"} \subseteq DOMAIN y /\ Whole(y.axes)
          /\ \A i \in DOMAIN y.axes : y.axes[i] \in DOMAIN dims
          /\ Filed(y.axes, dims, y.cells)
      BY <2>1, <3>1 DEF CatInv, Axes
    <3>3. Filed(y.axes, ds, y.cells)
      BY <1>8, <1>10, <3>2, FiledOn
    <3> QED BY <1>8, <3>1, <3>2, <3>3 DEF AllGo
  <2>2. CASE b = c
    <3>1. Filed(a, ds, x.cells)
      BY <1>12 DEF Filed
    <3> QED BY <1>1, <1>2, <1>8, <1>11, <1>12, <2>2, <3>1
  <2> QED BY <1>11, <2>1, <2>2
<1>14. CatInv'
  BY <1>8, <1>10, <1>13 DEF CatInv, Axes, AllGo
<1>15. Kept
  BY <1>10, <1>11 DEF Kept
<1> QED BY <1>14, <1>15

LEMMA ResolveIs ==
  ASSUME CatInv, NEW ref, NEW t \in Resolve(ref), NEW ds, ds = WithDimension(dims, t[1])
  PROVE  AllGo(dims, ds) /\ Bounded(ds) /\ t[1] \in DOMAIN ds /\ t[2] \in DOMAIN ds[t[1]].hier
<1>1. AllGo(dims, ds) /\ DOMAIN ds = DOMAIN dims \cup {t[1]} /\ Bounded(ds)
  BY WithDimensionGoes DEF CatInv
<1>2. CASE \E d \in Owners(ref) : t = <<d, ref>>
  <2>1. PICK d \in DOMAIN dims : ref \in DOMAIN dims[d].hier /\ t = <<d, ref>>
    BY <1>2 DEF Owners
  <2>2. ds = dims
    BY <2>1 DEF WithDimension
  <2> QED BY <1>1, <2>1, <2>2
<1>3. CASE t = <<ref, WithDimension(dims, ref)[ref].home>>
  <2>1. t[1] = ref /\ t[2] = ds[ref].home
    BY <1>3
  <2>2. DimInv(ds[ref])
    BY <1>1, <2>1 DEF AllGo, AllSound, Sound, Bounded
  <2>3. ds[ref].home \in DOMAIN ds[ref].hier
    BY <2>2 DEF DimInv, DimType
  <2> QED BY <1>1, <2>1, <2>3
<1> QED BY <1>2, <1>3 DEF Resolve

LEMMA RelateMoves ==
  ASSUME CatInv, NEW ref, NEW pairs \in Trees, Relate(ref, pairs)
  PROVE  CatInv' /\ Kept
<1>1. PICK t \in Resolve(ref) : LET ds == WithDimension(dims, t[1]) IN
          \E v : /\ Chain(v, "component", ds[t[1]], t[2], pairs, Len(pairs))
                 /\ Leave([ds EXCEPT ![t[1]] = v[Len(pairs)]], cubes)
  BY RelateChain
<1>2. PICK ds, d, h, n : ds = WithDimension(dims, t[1]) /\ d = t[1] /\ h = t[2] /\ n = Len(pairs)
  OBVIOUS
<1>3. PICK v : Chain(v, "component", ds[d], h, pairs, n) /\ Leave([ds EXCEPT ![d] = v[n]], cubes)
  BY <1>1, <1>2
<1>4. AllGo(dims, ds) /\ Bounded(ds) /\ d \in DOMAIN ds /\ h \in DOMAIN ds[d].hier
  BY <1>2, ResolveIs
<1>5. PICK x : x = ds[d] /\ Sound(x)
  BY <1>4 DEF AllGo, AllSound
<1>6. n \in Nat /\ \A k \in 1..n : pairs[k][1] \in Names /\ pairs[k][2] \in Names
  <2>1. PICK P : P = Names \X Names /\ pairs \in Seq(P)
    BY TreesAreWhole
  <2>2. \A k \in 1..n : pairs[k] \in P
    BY <1>2, <2>1
  <2> QED BY <1>2, <2>1, <2>2
<1>7. PICK T : T = {m \in Nat : m <= n => Goes(x, v[m])}
  OBVIOUS
<1>8. 0 \in T
  <2>1. v[0] = x
    BY <1>3, <1>5 DEF Chain
  <2> QED BY <1>5, <1>7, <2>1, GoesSelf
<1>9. ASSUME NEW m \in Nat, m \in T PROVE m + 1 \in T
  <2> SUFFICES ASSUME m + 1 <= n PROVE Goes(x, v[m + 1])
    BY <1>7
  <2>1. Goes(x, v[m])
    <3>1. m <= n
      BY <1>6
    <3> QED BY <1>7, <1>9, <3>1
  <2>2. PICK k \in 1..n : k = m + 1
    BY <1>6
  <2>3. PICK y, p, c : y = v[m] /\ p = pairs[k][1] /\ c = pairs[k][2]
    OBVIOUS
  <2>4. v[k] = AddComponent(y, h, p, c)
    <3>1. m \in 0..(n - 1)
      BY <1>6
    <3>2. v[k] = Step("component", y, h, pairs[k])
      BY <1>3, <2>2, <2>3, <3>1 DEF Chain
    <3> QED BY <2>3, <3>2 DEF Step
  <2>5. Sound(y) /\ h \in DOMAIN y.hier /\ p \in Names /\ c \in Names
    BY <1>4, <1>5, <1>6, <2>1, <2>3 DEF Goes
  <2>6. Goes(y, v[k])
    BY <2>4, <2>5, AddComponentGoes
  <2> QED BY <1>5, <2>1, <2>2, <2>3, <2>6, GoesOn
<1>10. n \in T
  BY <1>6, <1>8, <1>9, SetInduction
<1>11. PICK e : e = v[n] /\ Goes(x, e)
  BY <1>6, <1>7, <1>10
<1>12. AllSound(ds)
  BY <1>4 DEF AllGo
<1>13. AllGo(ds, [ds EXCEPT ![d] = e])
  BY <1>4, <1>5, <1>11, <1>12, PutGoes
<1>14. AllGo(dims, [ds EXCEPT ![d] = e])
  BY <1>4, <1>13, AllGoOn DEF CatInv
<1> QED BY <1>3, <1>11, <1>14, EditsMove

LEMMA UnrelateMoves ==
  ASSUME CatInv, NEW ref, NEW p \in Names, NEW c \in Names, Unrelate(ref, p, c)
  PROVE  CatInv' /\ Kept
<1>1. PICK t \in Resolve(ref) : LET ds == WithDimension(dims, t[1]) IN
          Leave(IF CanRemoveComponent(ds[t[1]], t[2], p, c)
                THEN [ds EXCEPT ![t[1]] = RemoveComponent(@, t[2], p, c)] ELSE ds, cubes)
  BY DEF Unrelate
<1>2. PICK ds, d, h : ds = WithDimension(dims, t[1]) /\ d = t[1] /\ h = t[2]
  OBVIOUS
<1>3. AllGo(dims, ds) /\ Bounded(ds) /\ d \in DOMAIN ds /\ h \in DOMAIN ds[d].hier
  BY <1>2, ResolveIs
<1>4. PICK x : x = ds[d] /\ Sound(x) /\ x.next <= MaxId + 1
  BY <1>3 DEF AllGo, AllSound, Bounded
<1>5. CASE ~CanRemoveComponent(x, h, p, c)
  <2>1. Leave(ds, cubes)
    BY <1>1, <1>2, <1>4, <1>5
  <2> QED BY <1>3, <2>1, EditsMove
<1>6. CASE CanRemoveComponent(x, h, p, c)
  <2>1. PICK e : e = RemoveComponent(x, h, p, c)
    OBVIOUS
  <2>2. Leave([ds EXCEPT ![d] = e], cubes)
    BY <1>1, <1>2, <1>3, <1>4, <1>6, <2>1
  <2>3. Goes(x, e)
    BY <1>3, <1>4, <1>6, <2>1, RemoveComponentGoes
  <2>4. AllSound(ds)
    BY <1>3 DEF AllGo
  <2>5. AllGo(ds, [ds EXCEPT ![d] = e])
    BY <1>3, <1>4, <2>3, <2>4, PutGoes
  <2>6. AllGo(dims, [ds EXCEPT ![d] = e])
    BY <1>3, <2>5, AllGoOn DEF CatInv
  <2> QED BY <2>2, <2>6, EditsMove
<1> QED BY <1>5, <1>6

(* The sweep of a deletion looks where the dimension is.                   *)
First(axes, d) == SelectInSeq(axes, LAMBDA a : a = d)

LEMMA FirstIs ==
  ASSUME NEW axes, Whole(axes), NEW d, NEW f, f = First(axes, d)
  PROVE  \/ f = 0 /\ \A i \in DOMAIN axes : axes[i] # d
         \/ f \in DOMAIN axes /\ axes[f] = d /\ f # 0 /\ \A i \in Leading(axes) : axes[i] = d => i = f
<1>1. PICK n \in Nat : n = Len(axes) /\ DOMAIN axes = 1..n
  BY WholeIs
<1>2. PICK I : I = {i \in 1..n : axes[i] = d}
  OBVIOUS
<1>3. f = IF I # {} THEN Min(I) ELSE 0
  BY <1>1, <1>2 DEF First, SelectInSeq
<1>4. CASE I = {}
  BY <1>1, <1>2, <1>3, <1>4
<1>5. CASE I # {}
  <2>1. I \subseteq Nat
    BY <1>2
  <2>2. \E x \in I : \A y \in I : x <= y
    BY <1>5, <2>1, LeastExists
  <2>3. f \in I /\ \A y \in I : f <= y
    BY <1>3, <1>5, <2>2 DEF Min
  <2>4. ASSUME NEW i \in Leading(axes), axes[i] = d PROVE i = f
    <3>1. i \in I /\ f <= i
      BY <1>1, <1>2, <2>3, <2>4, LeadingAre
    <3>2. CASE f < i
      <4>1. f \in 1..(i - 1)
        BY <1>2, <2>3, <3>1, <3>2
      <4>2. axes[f] # axes[i]
        BY <4>1 DEF Leading
      <4> QED BY <1>2, <2>3, <2>4, <4>2
    <3> QED BY <1>2, <2>3, <3>1, <3>2
  <2> QED BY <1>1, <1>2, <2>3, <2>4
<1> QED BY <1>4, <1>5

LEMMA SweptIs ==
  ASSUME NEW x, {"axes", "cells"} \subseteq DOMAIN x, Whole(x.axes), NEW d, NEW i,
         NEW y, y = Swept(x, d, i)
  PROVE  /\ {"axes", "cells"} \subseteq DOMAIN y /\ y.axes = x.axes
         /\ DOMAIN y.cells \subseteq DOMAIN x.cells
         /\ \A k \in DOMAIN y.cells : \A j \in Leading(x.axes) : x.axes[j] = d => k[j] # i
         /\ \A k \in DOMAIN x.cells \ DOMAIN y.cells :
                \E j \in DOMAIN x.axes : x.axes[j] = d /\ k[j] = i
<1>1. PICK a, f : a = x.axes /\ f = First(a, d)
  OBVIOUS
<1>2. PICK K : K = {k \in DOMAIN x.cells : f = 0 \/ k[f] # i}
  OBVIOUS
<1>3. y = [x EXCEPT !.cells = Restrict(x.cells, K)]
  BY <1>1, <1>2 DEF Swept, First, SelectInSeq
<1>4. DOMAIN y = DOMAIN x /\ y.axes = a /\ y.cells = Restrict(x.cells, K)
  BY <1>1, <1>3
<1>5. DOMAIN y.cells = K
  BY <1>4 DEF Restrict
<1>6. \/ f = 0 /\ \A j \in DOMAIN a : a[j] # d
      \/ f \in DOMAIN a /\ a[f] = d /\ f # 0 /\ \A j \in Leading(a) : a[j] = d => j = f
  BY <1>1, FirstIs
<1>7. Leading(a) \subseteq DOMAIN a
  BY LeadingAre
<1> QED BY <1>1, <1>2, <1>4, <1>5, <1>6, <1>7

LEMMA DeletionIs ==
  ASSUME NEW d, DimInv(d), CurrentBut(d, {}), NEW n \in Names, NEW del \in Deletions(d, n)
  PROVE  /\ DimInv(del[2]) /\ CurrentBut(del[2], {}) /\ Drops(d, del[2], del[1])
<1>1. CASE d.leaf[n] # NoId
  <2>1. del = <<d.leaf[n], DeleteLeaf(d, n)>>
    BY <1>1 DEF Deletions
  <2> QED BY <1>1, <2>1, DeleteLeafIs
<1>2. CASE d.leaf[n] = NoId
  <2>1. PICK h \in DOMAIN d.hier : d.hier[h].id[n] # NoId /\ del = <<d.hier[h].id[n], DeleteAggregate(d, h, n)>>
    BY <1>2 DEF Deletions
  <2> QED BY <1>2, <2>1, DeleteAggregateIs
<1> QED BY <1>1, <1>2

LEMMA DropMoves ==
  ASSUME CatInv, NEW d \in DOMAIN dims, NEW n \in Names, DropMember(d, n)
  PROVE  CatInv' /\ Kept
<1>1. PICK x : x = dims[d] /\ Sound(x) /\ DimInv(x) /\ CurrentBut(x, {})
  BY DEF CatInv, AllSound, Bounded, Sound
<1>2. PICK del \in Deletions(x, n) :
          Leave([dims EXCEPT ![d] = del[2]], [c \in DOMAIN cubes |-> Swept(cubes[c], d, del[1])])
  BY <1>1 DEF DropMember
<1>3. PICK i, e : i = del[1] /\ e = del[2]
  OBVIOUS
<1>4. DimInv(e) /\ CurrentBut(e, {}) /\ Drops(x, e, i)
  BY <1>1, <1>2, <1>3, DeletionIs
<1>5. Sound(e)
  BY <1>1, <1>2, <1>3, <1>4, DeletionGrows DEF Sound, Grows
<1>6. PICK es, cs : es = dims' /\ cs = cubes'
  OBVIOUS
<1>7. /\ es = [dims EXCEPT ![d] = e] /\ Bounded(es)
      /\ cs = [c \in DOMAIN cubes |-> Swept(cubes[c], d, i)]
  BY <1>2, <1>3, <1>6, LeaveMeans
<1>8. DOMAIN es = DOMAIN dims /\ es[d] = e /\ \A y \in DOMAIN dims \ {d} : es[y] = dims[y]
  BY <1>7
<1>9. AllSound(es)
  BY <1>5, <1>8 DEF CatInv, AllSound
<1>10. ASSUME NEW c \in DOMAIN cubes
       PROVE  /\ {"axes", "cells"} \subseteq DOMAIN cs[c] /\ Whole(cs[c].axes)
              /\ \A j \in DOMAIN cs[c].axes : cs[c].axes[j] \in DOMAIN es
              /\ Filed(cs[c].axes, es, cs[c].cells)
              /\ \A k \in DOMAIN cubes[c].cells :
                     \/ k \in DOMAIN cs[c].cells
                     \/ \E j \in Axes(c) : NamesOf(es[cubes[c].axes[j]], k[j]) = {}
  <2>1. PICK q, r, a : q = cubes[c] /\ r = cs[c] /\ a = q.axes
    OBVIOUS
  <2>2. /\ {"axes", "cells"} \subseteq DOMAIN q /\ Whole(a)
        /\ \A j \in DOMAIN a : a[j] \in DOMAIN dims
        /\ Filed(a, dims, q.cells)
    BY <2>1 DEF CatInv, Axes
  <2>3. /\ {"axes", "cells"} \subseteq DOMAIN r /\ r.axes = a
        /\ DOMAIN r.cells \subseteq DOMAIN q.cells
        /\ \A k \in DOMAIN r.cells : \A j \in Leading(a) : a[j] = d => k[j] # i
        /\ \A k \in DOMAIN q.cells \ DOMAIN r.cells : \E j \in DOMAIN a : a[j] = d /\ k[j] = i
    BY <1>7, <2>1, <2>2, SweptIs
  <2>4. ASSUME NEW k \in DOMAIN r.cells, NEW j \in Leading(a)
        PROVE  k[j] \in Ids /\ HasName(es[a[j]], k[j])
    <3>1. k[j] \in Ids /\ HasName(dims[a[j]], k[j]) /\ a[j] \in DOMAIN dims
      BY <2>2, <2>3, <2>4, LeadingAre DEF Filed
    <3>2. CASE a[j] = d
      <4>1. k[j] # i
        BY <2>3, <2>4, <3>2
      <4> QED BY <1>1, <1>4, <1>8, <3>1, <3>2, <4>1 DEF Drops
    <3>3. CASE a[j] # d
      BY <1>8, <3>1, <3>3
    <3> QED BY <3>2, <3>3
  <2>5. Filed(a, es, r.cells)
    BY <2>4 DEF Filed
  <2>6. ASSUME NEW k \in DOMAIN q.cells, k \notin DOMAIN r.cells
        PROVE  \E j \in DOMAIN a : NamesOf(es[a[j]], k[j]) = {}
    <3>1. PICK j \in DOMAIN a : a[j] = d /\ k[j] = i
      BY <2>3, <2>6
    <3>2. ~HasName(e, i)
      BY <1>4 DEF Drops
    <3> QED BY <1>8, <3>1, <3>2 DEF HasName
  <2> QED BY <1>8, <2>1, <2>2, <2>3, <2>5, <2>6 DEF Axes
<1>11. DOMAIN cs = DOMAIN cubes
  BY <1>7
<1>12. CatInv'
  <2>1. AllSound(dims') /\ Bounded(dims')
    BY <1>6, <1>7, <1>9
  <2>2. ASSUME NEW c \in DOMAIN cubes'
        PROVE  /\ {"axes", "cells"} \subseteq DOMAIN cubes'[c] /\ Whole(cubes'[c].axes)
               /\ \A j \in DOMAIN cubes'[c].axes : cubes'[c].axes[j] \in DOMAIN dims'
               /\ Filed(cubes'[c].axes, dims', cubes'[c].cells)
    <3>1. c \in DOMAIN cubes
      BY <1>6, <1>11
    <3> QED BY <1>6, <1>10, <3>1
  <2> QED BY <2>1, <2>2 DEF CatInv, Axes
<1>13. Kept
  BY <1>6, <1>10 DEF Kept
<1> QED BY <1>12, <1>13

LEMMA CatalogueStarts == CatalogueInit => CatInv
  BY DEF CatalogueInit, CatInv, AllSound, Bounded

LEMMA CatalogueMoves == CatInv /\ [CatalogueNext]_catalogueVars => CatInv' /\ Kept
<1> SUFFICES ASSUME CatInv, [CatalogueNext]_catalogueVars PROVE CatInv' /\ Kept
  OBVIOUS
<1>1. ASSUME NEW d \in Refs, NEW h \in Refs, CreateDimension(d) \/ CreateHierarchyIn(d, h)
      PROVE  CatInv' /\ Kept
  BY <1>1, CreateDimensionMoves, CreateHierarchyMoves
<1>2. ASSUME NEW c \in Cubes, NEW shape \in Shapes[c], CreateTable(c, shape) PROVE CatInv' /\ Kept
  BY <1>2, CreateTableMoves
<1>3. ASSUME NEW c \in DOMAIN cubes, NEW rows \in Files,
             Insert(c, rows) \/ Import(c, rows) \/ ImportAttributes(c, rows)
      PROVE  CatInv' /\ Kept
  BY <1>3, RowCommandsMove
<1>4. ASSUME NEW c \in DOMAIN cubes, NEW at \in Spots, Splash(c, at) PROVE CatInv' /\ Kept
  BY <1>4, SplashMoves
<1>5. ASSUME NEW ref \in Refs, NEW pairs \in Trees, Relate(ref, pairs) PROVE CatInv' /\ Kept
  BY <1>5, RelateMoves
<1>6. ASSUME NEW ref \in Refs, NEW p \in Names, NEW c \in Names, Unrelate(ref, p, c)
      PROVE  CatInv' /\ Kept
  BY <1>6, UnrelateMoves
<1>7. ASSUME NEW d \in DOMAIN dims, NEW n \in Names, DropMember(d, n) PROVE CatInv' /\ Kept
  BY <1>7, DropMoves
<1>8. CASE UNCHANGED catalogueVars
  <2>1. dims' = dims /\ cubes' = cubes
    BY <1>8 DEF catalogueVars
  <2>2. CatInv'
    BY <2>1 DEF CatInv, Axes
  <2>3. Kept
    BY <2>1 DEF Kept
  <2> QED BY <2>2, <2>3
<1> QED BY <1>1, <1>2, <1>3, <1>4, <1>5, <1>6, <1>7, <1>8 DEF CatalogueNext

(* Every command of the catalogue keeps its invariant.                     *)
THEOREM CatInvAlways == CatalogueSpec => []CatInv
BY CatalogueStarts, CatalogueMoves, PTL DEF CatalogueSpec

(* get_name never has to answer "Unknown" for a stored cell, in any cube   *)
(* over any shared dimensions, after any sequence of commands, wherever a  *)
(* dimension is first in its cube.                                         *)
THEOREM NamesHold == CatalogueSpec => []CellsHaveNames
<1>1. CatInv => CellsHaveNames
  <2> SUFFICES ASSUME CatInv, NEW c \in DOMAIN cubes, NEW k \in DOMAIN cubes[c].cells, 
                      NEW i \in Leading(cubes[c].axes)
               PROVE  NamesOf(dims[cubes[c].axes[i]], k[i]) # {}
    BY DEF CellsHaveNames
  <2>1. Filed(cubes[c].axes, dims, cubes[c].cells)
    BY DEF CatInv
  <2> QED BY <2>1 DEF Filed, HasName
<1> QED BY <1>1, CatInvAlways, PTL

(* No command takes a stored cell away, a failing one included, but the    *)
(* deletion of a member that the cell names.                               *)
THEOREM CellsStay == CatalogueSpec => NoCellIsLost
<1>1. CatInv /\ [CatalogueNext]_catalogueVars => [Kept]_catalogueVars
  BY CatalogueMoves
<1>2. CatalogueSpec => [][Kept]_catalogueVars
  BY <1>1, CatInvAlways, PTL DEF CatalogueSpec
<1> QED BY <1>2 DEF NoCellIsLost, Kept
===============================================================================
