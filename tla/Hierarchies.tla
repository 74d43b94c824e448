----------------------------- MODULE Hierarchies -----------------------------
(***************************************************************************)
(* What an edit does to a dimension: the shared bank of leaves, and the    *)
(* hierarchies that aggregate them.                                        *)
(*                                                                         *)
(* A dimension is a record, and an edit is an operator on records: the     *)
(* operations of dimension.rs are built from each other and from those of  *)
(* hierarchy.rs the way the code builds them.  Names are compared in lower *)
(* case by the code, so a name here is a lower-case name.  Weights and     *)
(* warning texts are left out.                                             *)
(***************************************************************************)
EXTENDS Naturals, Sequences, FiniteSets, SequencesExt

CONSTANTS Names,      \* member names
          MaxId,      \* bound: ids handed out
          NoName

ASSUME MaxIdIsNat == MaxId \in Nat
ASSUME NamesAreFinite == IsFiniteSet(Names)
ASSUME NoNameIsNoName == NoName \notin Names

Ids  == 1..MaxId
NoId == 0

-------------------------------------------------------------------------------
(* hierarchy.rs: one hierarchy h.                                          *)

EmptyHierarchy ==
    [id     |-> [n \in Names |-> NoId],    \* member_to_id
     title  |-> [i \in Ids |-> NoName],    \* display_names: aggregates only
     kids   |-> [i \in Ids |-> <<>>],      \* consolidations
     parent |-> [i \in Ids |-> NoId],      \* child_to_parent
     roots  |-> <<>>,                      \* root_order
     order  |-> <<>>,                      \* display_order
     dirty  |-> FALSE]                     \* display_order_dirty

(* What of a list is in a set, in the list's order.                        *)
AppendIf(s, x, S) == IF x \in S THEN Append(s, x) ELSE s
Only(s, S) ==
    LET kept[k \in 0..Len(s)] ==
            IF k = 0 THEN <<>> ELSE AppendIf(kept[k - 1], s[k], S)
    IN  kept[Len(s)]

Without(s, x) == Only(s, Ids \ {x})
NewTo(s, is) == Only(is, Ids \ Range(s))

(* push_root_if_new, for each of a sequence of distinct ids.               *)
PushRoots(h, is) == [h EXCEPT !.roots = @ \o NewTo(@, is)]

RegisterAggregate(h, n, i) ==
    PushRoots([h EXCEPT !.id[n] = i, !.title[i] = n], <<i>>)

RegisterAlias(h, n, i) ==
    IF h.id[n] # NoId THEN h
    ELSE PushRoots([h EXCEPT !.id[n] = i, !.dirty = TRUE], <<i>>)

Unname(id, i) == [n \in Names |-> IF id[n] = i THEN NoId ELSE id[n]]

ForgetAlias(h, i) ==
    IF h.title[i] # NoName THEN h
    ELSE [h EXCEPT !.id = Unname(@, i), !.roots = Without(@, i), !.dirty = TRUE]

Forget(h, i) ==
    LET orphans == Without(h.kids[i], i)
    IN  PushRoots([h EXCEPT !.id = Unname(@, i),
                            !.title[i] = NoName,
                            !.kids = [j \in Ids |-> IF j = i THEN <<>>
                                                 ELSE IF j = h.parent[i] THEN Without(@[j], i)
                                                 ELSE @[j]],
                            !.parent = [j \in Ids |-> IF j \in {i} \cup Range(orphans)
                                                      THEN NoId ELSE @[j]],
                            !.roots = Without(@, i),
                            !.dirty = TRUE],
                  orphans)

(* Mutant: the old parent keeps the child it lost.                         *)
Link_TwoParents(h, p, c) ==
    [h EXCEPT !.kids[p] = IF h.parent[c] = p THEN @ ELSE Append(@, c),
              !.parent[c] = p,
              !.roots = Without(@, c),
              !.dirty = TRUE]

(* Mutant: the cached display order is not marked stale.                   *)
Link_StaysClean(h, p, c) ==
    LET old == h.parent[c]
    IN  [h EXCEPT !.kids = IF old = p THEN @
                           ELSE [j \in Ids |-> IF j = old THEN Without(@[j], c)
                                           ELSE IF j = p THEN Append(@[j], c)
                                           ELSE @[j]],
                  !.parent[c] = p,
                  !.roots = Without(@, c)]

(* One parent per child: linking moves.  Linking to the same parent again  *)
(* only sets the weight.                                                   *)
Link(h, p, c) ==
    LET old == h.parent[c]
    IN  [h EXCEPT !.kids = IF old = p THEN @
                           ELSE [j \in Ids |-> IF j = old THEN Without(@[j], c)
                                           ELSE IF j = p THEN Append(@[j], c)
                                           ELSE @[j]],
                  !.parent[c] = p,
                  !.roots = Without(@, c),
                  !.dirty = TRUE]

(* Mutant: the detached child is not put back among the roots.             *)
Unlink_LosesRoot(h, p, c) ==
    [h EXCEPT !.kids[p] = Without(@, c), !.parent[c] = NoId, !.dirty = TRUE]

(* remove_component_in's edit of the lists, and detach_child.              *)
Unlink(h, p, c) ==
    PushRoots([h EXCEPT !.kids[p] = Without(@, c), !.parent[c] = NoId, !.dirty = TRUE], <<c>>)

(* x moved before ref, or to the end when ref is not there.                *)
MoveBefore(s, x, ref) ==
    LET rest == Without(s, x)
    IN  IF ref \notin Range(rest) THEN Append(rest, x)
        ELSE InsertAt(rest, CHOOSE k \in DOMAIN rest : rest[k] = ref, x)

(* The list an id is ordered in: its parent's children, or the roots.       *)
Siblings(h, i) == IF h.parent[i] # NoId THEN h.kids[h.parent[i]] ELSE h.roots

Reorder(h, i, siblings) ==
    IF h.parent[i] # NoId
    THEN [h EXCEPT !.kids[h.parent[i]] = siblings, !.dirty = TRUE]
    ELSE [h EXCEPT !.roots = siblings, !.dirty = TRUE]

(* rebuild_display_order: depth first from the roots.  The code's guard    *)
(* against cycles stops at a depth of the number of names plus one.        *)
Level(kids, below) ==
    [i \in Ids |-> <<i>> \o FlattenSeq([k \in DOMAIN kids[i] |-> below[kids[i][k]]])]
DepthFirst(id, kids, roots) ==
    LET limit == Cardinality({n \in Names : id[n] # NoId}) + 2
        below[fuel \in 0..limit] ==
            IF fuel = 0 THEN [i \in Ids |-> <<>>] ELSE Level(kids, below[fuel - 1])
    IN  FlattenSeq([k \in DOMAIN roots |-> below[limit][roots[k]]])
Flatten(h) == DepthFirst(h.id, h.kids, h.roots)

Refreshed(h) == [h EXCEPT !.order = Flatten(h), !.dirty = FALSE]

-------------------------------------------------------------------------------
(* dimension.rs: the dimension d.                                          *)

IsConsolidated(d, i) == i # NoId /\ d.type[i] = "Consolidated"
IsLeaf(d, i) == \E n \in Names : d.leaf[n] = i

EmptyDimension(home) ==
    [leaf    |-> [n \in Names |-> NoId],     \* leaf_name_to_id, leaf_id_to_name
     type    |-> [i \in Ids |-> "none"],     \* member_types
     home    |-> home,                       \* default_hierarchy
     hier    |-> [h \in {home} |-> EmptyHierarchy],
     next    |-> 1,                          \* next_id
     default |-> NoId]                       \* default_member_id

(* Whether an id has a name.                                               *)
Bound(d, i) == i \in {d.leaf[n] : n \in Names} \cup
                     UNION {{d.hier[h].id[n] : n \in Names} : h \in DOMAIN d.hier}

NamesInUse(d) ==
    {n \in Names : d.leaf[n] # NoId \/ \E h \in DOMAIN d.hier : d.hier[h].id[n] # NoId}

(* Mutant: the id handed out is not counted.                               *)
AddLeaf_SameNext(d, n) ==
    IF d.leaf[n] # NoId THEN d
    ELSE [d EXCEPT !.leaf[n] = d.next,
                   !.type[d.next] = "Leaf",
                   !.hier = [h \in DOMAIN @ |-> RegisterAlias(@[h], n, d.next)],
                   !.default = IF @ = NoId THEN d.next ELSE @]

(* Mutant: a new leaf takes the lowest id that has no type.                *)
AddLeaf_ReusesIds(d, n) ==
    LET free == {i \in Ids : d.type[i] = "none"}
        i    == CHOOSE j \in free : \A k \in free : j <= k
    IN  IF d.leaf[n] # NoId THEN d
        ELSE [d EXCEPT !.leaf[n] = i,
                       !.type[i] = "Leaf",
                       !.next = IF i = @ THEN @ + 1 ELSE @,
                       !.hier = [h \in DOMAIN @ |-> RegisterAlias(@[h], n, i)],
                       !.default = IF @ = NoId THEN i ELSE @]

AddLeaf(d, n) ==
    IF d.leaf[n] # NoId THEN d
    ELSE [d EXCEPT !.leaf[n] = d.next,
                   !.type[d.next] = "Leaf",
                   !.next = @ + 1,
                   !.hier = [h \in DOMAIN @ |-> RegisterAlias(@[h], n, d.next)],
                   !.default = IF @ = NoId THEN d.next ELSE @]

(* Mutant: the other hierarchies keep the alias of what was a leaf.        *)
Promote_KeepsAliases(d, h, n) ==
    LET i == d.leaf[n]
    IN  [d EXCEPT !.leaf[n] = NoId,
                  !.type[i] = "Consolidated",
                  !.hier[h] = RegisterAggregate(@, n, i)]

(* A leaf that becomes an aggregate of h keeps its id.                     *)
Promote(d, h, n) ==
    LET i == d.leaf[n]
        unaliased == [g \in DOMAIN d.hier |-> ForgetAlias(d.hier[g], i)]
    IN  [d EXCEPT !.leaf[n] = NoId,
                  !.type[i] = "Consolidated",
                  !.hier = [unaliased EXCEPT ![h] = RegisterAggregate(@, n, i)]]

AddConsolidated(d, h, n) ==
    IF IsConsolidated(d, d.hier[h].id[n]) THEN d
    ELSE IF d.leaf[n] # NoId THEN Promote(d, h, n)
    ELSE [d EXCEPT !.type[d.next] = "Consolidated",
                   !.next = @ + 1,
                   !.hier[h] = RegisterAggregate(@, n, d.next)]

(* A parent that lost its last child reads as a leaf from then on.         *)
Downgraded(d, h, i) ==
    IF i # NoId /\ d.hier[h].kids[i] = <<>> THEN [d EXCEPT !.type[i] = "Leaf"] ELSE d

AddComponent(d, h, p, c) ==
    LET withParent == AddConsolidated(d, h, p)
        pid        == withParent.hier[h].id[p]
        known      == withParent.hier[h].id[c]
        nested     == IsConsolidated(withParent, known)
        withChild  == IF nested THEN withParent ELSE AddLeaf(withParent, c)
        cid        == IF nested THEN known ELSE withChild.leaf[c]
        old        == withChild.hier[h].parent[cid]
    IN  Downgraded([withChild EXCEPT !.hier[h] = Link(@, pid, cid)], h,
                   IF old = pid THEN NoId ELSE old)

CanRemoveComponent(d, h, p, c) ==
    LET hier == d.hier[h]
    IN  /\ hier.id[p] # NoId /\ hier.id[c] # NoId
        /\ IsConsolidated(d, hier.id[p])
        /\ hier.id[c] \in Range(hier.kids[hier.id[p]])

RemoveComponent(d, h, p, c) ==
    LET hier == d.hier[h]
    IN  Downgraded([d EXCEPT !.hier[h] = Unlink(@, hier.id[p], hier.id[c])], h, hier.id[p])

(* fix_default: the lowest leaf left, if the default was deleted.          *)
FixDefault(d, i) ==
    LET leaves == {d.leaf[n] : n \in Names} \ {NoId}
    IN  IF d.default # i THEN d
        ELSE [d EXCEPT !.default = IF leaves = {} THEN NoId ELSE Min(leaves)]

DeleteLeaf(d, n) ==
    LET i == d.leaf[n]
    IN  FixDefault([d EXCEPT !.leaf[n] = NoId,
                             !.type[i] = "none",
                             !.hier = [h \in DOMAIN @ |-> Forget(@[h], i)]], i)

(* recompute_types_in, after an aggregate of h was forgotten.              *)
DeleteAggregate(d, h, n) ==
    LET i    == d.hier[h].id[n]
        hier == Forget(d.hier[h], i)
        registered == {hier.id[m] : m \in Names} \ {NoId}
    IN  FixDefault([d EXCEPT !.hier[h] = hier,
                             !.type = [j \in Ids |->
                                 IF j \notin registered THEN IF j = i THEN "none" ELSE @[j]
                                 ELSE IF hier.kids[j] = <<>> THEN "Leaf"
                                 ELSE "Consolidated"]], i)

(* delete_member: the id, and the dimension without it.  The bank first;   *)
(* else any hierarchy that knows the name, for a HashMap has no order.     *)
Deletions(d, n) ==
    IF d.leaf[n] # NoId THEN {<<d.leaf[n], DeleteLeaf(d, n)>>}
    ELSE {<<d.hier[h].id[n], DeleteAggregate(d, h, n)>> :
             h \in {g \in DOMAIN d.hier : d.hier[g].id[n] # NoId}}

(* create_hierarchy, given the order in which the leaf bank was iterated.  *)
CreateHierarchy(d, h, leaves) ==
    LET born == [EmptyHierarchy EXCEPT !.id = d.leaf, !.roots = leaves]
    IN  [d EXCEPT !.hier = [g \in DOMAIN @ \cup {h} |-> IF g = h THEN Refreshed(born) ELSE @[g]]]

(* The ids under i, i included, and whether a cycle of edits made i its    *)
(* own ancestor (the code bounds its recursion because one can).           *)
Under(hier, i) ==
    LET grow[k \in 0..MaxId] ==
            IF k = 0 THEN {i}
            ELSE grow[k - 1] \cup UNION {Range(hier.kids[j]) : j \in grow[k - 1]}
    IN  grow[MaxId]
OnCycle(hier, i) == \E j \in Range(hier.kids[i]) : i \in Under(hier, j)

(* get_leaf_descendants_in: the leaves a member of h stands for, their     *)
(* weights left out; nothing if h does not know the name.  (A leaf of the  *)
(* bank has no children.)                                                  *)
LeafDescendants(d, h, n) ==
    LET i == d.hier[h].id[n]
    IN  IF i = NoId THEN {} ELSE {j \in Under(d.hier[h], i) : IsLeaf(d, j)}

(* get_name: a leaf's name, or the name an aggregate has in a hierarchy.   *)
NamesOf(d, i) ==
    IF IsLeaf(d, i) THEN {n \in Names : d.leaf[n] = i}
    ELSE {d.hier[h].title[i] : h \in DOMAIN d.hier} \ {NoName}

(* Mutant: the default member is not looked up in the default hierarchy.   *)
DefaultNames_Anywhere(d) ==
    IF d.default = NoId THEN {} ELSE NamesOf(d, d.default)

(* get_default_member_name: the default if the default hierarchy knows its *)
(* name, else the name of the lowest id registered there.                  *)
DefaultNames(d) ==
    LET home  == d.hier[d.home]
        named == IF d.default = NoId THEN {}
                 ELSE {n \in NamesOf(d, d.default) : home.id[n] # NoId}
        known == {n \in Names : home.id[n] # NoId}
    IN  IF named # {} THEN named
        ELSE {n \in known : \A m \in known : home.id[n] <= home.id[m]}
===============================================================================
