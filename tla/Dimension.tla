------------------------------ MODULE Dimension ------------------------------
(***************************************************************************)
(* A dimension and every structural edit a script, an import or a cell     *)
(* write makes to it.  Edits hold the dimension's write lock, so each is   *)
(* one step.                                                               *)
(***************************************************************************)
EXTENDS Hierarchies

CONSTANTS Default,    \* the hierarchy the dimension is born with
          Others,     \* hierarchies that may be created later
          MaxSize     \* bound: names in use plus hierarchies

ASSUME DefaultIsNotOther == Default \notin Others

VARIABLE dim   \* the Dimension

vars == <<dim>>

Init == dim = EmptyDimension(Default)

Known(h) == {n \in Names : dim.hier[h].id[n] # NoId}

(* Bound: with another hierarchy, fewer names.                             *)
Fits(d) == Cardinality(NamesInUse(d)) + Cardinality(DOMAIN d.hier) <= MaxSize

(* Bound: the names an edit of h makes members get ids up to MaxId.        *)
HasRoom(h, ns) ==
    dim.next + Cardinality({n \in ns : /\ dim.leaf[n] = NoId
                                       /\ ~IsConsolidated(dim, dim.hier[h].id[n])}) <= MaxId + 1

(* A cell write or an import names a leaf.                                 *)
AddLeafMember(n) ==
    /\ dim.leaf[n] = NoId => dim.next <= MaxId
    /\ dim' = AddLeaf(dim, n) /\ Fits(dim')

RollUp(h, p, c) ==
    /\ HasRoom(h, {p, c})
    /\ dim' = AddComponent(dim, h, p, c) /\ Fits(dim')

Detach(h, p, c) ==
    /\ CanRemoveComponent(dim, h, p, c)
    /\ dim' = RemoveComponent(dim, h, p, c)

DeleteMember(n) == \E del \in Deletions(dim, n) : dim' = del[2]

AddHierarchy(h) ==
    /\ h \notin DOMAIN dim.hier
    /\ \E leaves \in SetToSeqs({dim.leaf[n] : n \in Names} \ {NoId}) :
           dim' = CreateHierarchy(dim, h, leaves) /\ Fits(dim')

MoveMemberBefore(h, n, ref) ==
    LET hier == dim.hier[h] IN
    /\ {n, ref} \subseteq Known(h)
    /\ n # ref
    /\ hier.parent[hier.id[n]] = hier.parent[hier.id[ref]]
    /\ dim' = [dim EXCEPT !.hier[h] =
                  Reorder(hier, hier.id[n],
                          MoveBefore(Siblings(hier, hier.id[n]), hier.id[n], hier.id[ref]))]

MoveMemberToFront(h, n) ==
    LET hier == dim.hier[h] IN
    /\ n \in Known(h)
    /\ dim' = [dim EXCEPT !.hier[h] =
                  Reorder(hier, hier.id[n],
                          <<hier.id[n]>> \o Without(Siblings(hier, hier.id[n]), hier.id[n]))]

(* A query or a listing that needs the order of every hierarchy.           *)
EnsureDisplayOrder ==
    dim' = [dim EXCEPT !.hier = [h \in DOMAIN @ |->
                                    IF @[h].dirty THEN Refreshed(@[h]) ELSE @[h]]]

(* Saved and loaded again: the staleness mark is not saved, so the load    *)
(* rebuilds every order.                                                   *)
Reload == dim' = [dim EXCEPT !.hier = [h \in DOMAIN @ |-> Refreshed(@[h])]]

Next ==
    \/ \E n \in Names : AddLeafMember(n) \/ DeleteMember(n)
    \/ \E h \in DOMAIN dim.hier, p, c \in Names : RollUp(h, p, c) \/ Detach(h, p, c)
    \/ \E h \in DOMAIN dim.hier, n, m \in Names : MoveMemberBefore(h, n, m)
    \/ \E h \in DOMAIN dim.hier, n \in Names : MoveMemberToFront(h, n)
    \/ \E h \in Others : AddHierarchy(h)
    \/ EnsureDisplayOrder
    \/ Reload

Spec == Init /\ [][Next]_vars

-------------------------------------------------------------------------------
(* The properties.                                                         *)

HierarchyType ==
    [id : [Names -> Ids \cup {NoId}], title : [Ids -> Names \cup {NoName}],
     kids : [Ids -> Seq(Ids)], parent : [Ids -> Ids \cup {NoId}],
     roots : Seq(Ids), order : Seq(Ids), dirty : BOOLEAN]

TypeOK ==
    /\ dim.leaf \in [Names -> Ids \cup {NoId}]
    /\ dim.type \in [Ids -> {"Leaf", "Consolidated", "none"}]
    /\ {Default} \subseteq DOMAIN dim.hier /\ DOMAIN dim.hier \subseteq {Default} \cup Others
    /\ dim.home = Default
    /\ \A h \in DOMAIN dim.hier : dim.hier[h] \in HierarchyType
    /\ dim.next \in 1..(MaxId + 1)
    /\ \A i \in Ids : i >= dim.next => dim.type[i] = "none"
    /\ dim.default \in Ids \cup {NoId}

(* Every hierarchy is a forest as both of its indexes tell it: a child is  *)
(* listed once, under the parent the reverse index names (the one-parent   *)
(* rule of link), whatever was promoted, moved, detached or deleted.       *)
OneParent ==
    \A h \in DOMAIN dim.hier : LET hier == dim.hier[h] IN
        \A p \in Ids :
            /\ Range(hier.kids[p]) = {c \in Ids : hier.parent[c] = p}
            /\ IsInjective(hier.kids[p])

(* A member of a hierarchy is a root of it, or is under one, or is under a *)
(* cycle: no edit drops a member out of the listing while its name lives.  *)
MembersAreListed ==
    \A h \in DOMAIN dim.hier : LET hier == dim.hier[h] IN
        \A n \in Known(h) :
            \E top \in Ids : /\ hier.id[n] \in Under(hier, top)
                             /\ top \in Range(hier.roots) \/ OnCycle(hier, top)

(* An order that is not marked stale is the order of the tree as it is.    *)
DisplayOrderIsCurrent ==
    \A h \in DOMAIN dim.hier :
        LET hier == dim.hier[h] IN hier.dirty \/ hier.order = Flatten(hier)

(* A member a query leaves unnamed has a default that the default          *)
(* hierarchy can resolve, as long as it has members, and the default is    *)
(* never a deleted member.                                                 *)
DefaultIsUsable ==
    /\ DefaultNames(dim) \subseteq Known(Default)
    /\ Known(Default) # {} => DefaultNames(dim) # {}
    /\ dim.default # NoId => dim.type[dim.default] # "none"

(* The cells of a deleted member are purged once: no later edit gives its  *)
(* id to a name again.                                                     *)
DeletedIdsStayDead ==
    [][\A i \in 1..(dim.next - 1) : ~Bound(dim, i) => ~Bound(dim', i)]_vars

(* Cached totals are filed under ids: a coordinate two hierarchies both    *)
(* know under one id stands for the same leaves in both.                   *)
SharedIdsShareLeaves ==
    \A g, h \in DOMAIN dim.hier : \A n \in Known(g), m \in Known(h) :
        dim.hier[g].id[n] = dim.hier[h].id[m] =>
            LeafDescendants(dim, g, n) = LeafDescendants(dim, h, m)
===============================================================================
