------------------------------ MODULE Catalogue -------------------------------
(***************************************************************************)
(* The catalogue under the commands of the command line: the dimensions    *)
(* that its cubes share, and the cells of the cubes, filed under ids that  *)
(* the dimensions hand out.  One command runs at a time, and a command     *)
(* that fails half way keeps what it did before.                           *)
(*                                                                         *)
(* What an edit does to a dimension is Hierarchies, so dimension names are *)
(* lower-case names here too.  A value is a number or a text, for how much *)
(* a splash gives each leaf is WriteApi; .order and the listings, which    *)
(* touch no member, are Dimension; the cached totals are VersionStore and  *)
(* the system cubes SystemCubes.  Coordinates qualified by a hierarchy are *)
(* left out.                                                               *)
(***************************************************************************)
EXTENDS Hierarchies, FiniteSetsExt, Functions

CONSTANTS Refs,       \* names of dimensions and of hierarchies
          Cubes,      \* names of cubes
          Shapes,     \* cube -> what it may be created as
          Files,      \* the rows of a file or an INSERT: coordinates and a value
          Trees,      \* the pairs of parent and child of a file or a .rollup
          Spots,      \* the coordinates of a .splash, as far as they are given
          MaxNamed,   \* bound: member names in use plus hierarchies
          MaxUsed,    \* bound: ids handed out, of all dimensions
          MaxCells    \* bound: cells of a cube

(* What is typed: columns, rows and pairs.                                 *)
ASSUME CubesAreWhole == \A c \in Cubes : \A shape \in Shapes[c] : shape.axes \in Seq(Refs)
ASSUME FilesAreWhole == Files \subseteq Seq([at : Seq(Names), value : {"number", "text"}])
ASSUME TreesAreWhole == Trees \subseteq Seq(Names \X Names)

VARIABLES dims,    \* dimension -> the Dimension
          cubes    \* cube -> its dimensions, whether it aggregates, its cells

catalogueVars == <<dims, cubes>>

CatalogueInit == dims = <<>> /\ cubes = <<>>

Axes(c) == DOMAIN cubes[c].axes

With(f, x, v) == [y \in DOMAIN f \cup {x} |-> IF y = x THEN v ELSE f[y]]

(* Bound, on what a command leaves.                                        *)
CommandFits(ds, cs) ==
    /\ \A d \in DOMAIN ds : ds[d].next <= MaxId + 1
    /\ MapThenSumSet(LAMBDA d : Cardinality(NamesInUse(ds[d])) + Cardinality(DOMAIN ds[d].hier),
                     DOMAIN ds) <= MaxNamed
    /\ MapThenSumSet(LAMBDA d : ds[d].next - 1, DOMAIN ds) <= MaxUsed
    /\ \A c \in DOMAIN cs : Cardinality(DOMAIN cs[c].cells) <= MaxCells

Leave(ds, cs) == CommandFits(ds, cs) /\ dims' = ds /\ cubes' = cs

-------------------------------------------------------------------------------
(* Names.                                                                  *)

(* get_or_create_dimension.                                                *)
WithDimension(ds, d) == IF d \in DOMAIN ds THEN ds ELSE With(ds, d, EmptyDimension(d))

(* find_hierarchy_owner, resolve_hierarchy: a HashMap has no order.        *)
Owners(h) == {d \in DOMAIN dims : h \in DOMAIN dims[d].hier}

(* resolve_reference: the dimension and the hierarchy that a name means.   *)
Resolve(ref) ==
    IF Owners(ref) # {} THEN {<<d, ref>> : d \in Owners(ref)}
    ELSE {<<ref, WithDimension(dims, ref)[ref].home>>}

CreateDimension(d) == Leave(WithDimension(dims, d), cubes)

(* The dimension is there even when its hierarchy is refused.              *)
CreateHierarchyIn(d, h) ==
    LET ds == WithDimension(dims, d) IN
    IF Owners(h) \ {d} # {} \/ h \in DOMAIN ds[d].hier THEN Leave(ds, cubes)
    ELSE \E leaves \in SetToSeqs({ds[d].leaf[n] : n \in Names} \ {NoId}) :
             Leave([ds EXCEPT ![d] = CreateHierarchy(@, h, leaves)], cubes)

NewCube(shape) == [axes |-> shape.axes, aggregating |-> shape.aggregating, cells |-> <<>>]

(* Mutant: a table of that name is replaced.                               *)
CreateTable_Replaces(c, shape) ==
    Leave(FoldLeft(WithDimension, dims, shape.axes), With(cubes, c, NewCube(shape)))

CreateTable(c, shape) ==
    /\ c \notin DOMAIN cubes
    /\ Leave(FoldLeft(WithDimension, dims, shape.axes), With(cubes, c, NewCube(shape)))

-------------------------------------------------------------------------------
(* Cells.  s is what a command has done so far to the dimensions and to    *)
(* the cells of its cube; it stops when s is no longer ok.                 *)

At(c) == [dims |-> dims, cells |-> cubes[c].cells, ok |-> TRUE]

PutLeaf(ds, d, n) == [ds EXCEPT ![d] = AddLeaf(@, n)]

Indices(axes) == [i \in DOMAIN axes |-> i]

(* Cube::write: every coordinate is a leaf, made if it has to be.          *)
Written(s, axes, row) ==
    LET ds == FoldLeft(LAMBDA acc, i : PutLeaf(acc, axes[i], row.at[i]), s.dims, Indices(axes))
    IN  [s EXCEPT !.dims = ds,
                  !.cells = With(@, [i \in DOMAIN axes |-> ds[axes[i]].leaf[row.at[i]]], row.value)]

HomeId(d, n) == d.hier[d.home].id[n]

(* write_splashed, one coordinate: the leaves it stands for.               *)
Targets(s, d, n) ==
    LET known == HomeId(s.dims[d], n)
        ds    == IF known # NoId THEN s.dims ELSE PutLeaf(s.dims, d, n)
        under == IF IsConsolidated(ds[d], known) THEN LeafDescendants(ds[d], ds[d].home, n)
                 ELSE {IF known # NoId THEN known ELSE ds[d].leaf[n]}
    IN  IF ~s.ok THEN s
        ELSE [s EXCEPT !.dims = ds, !.to = Append(@, under), !.ok = under # {}]

Splashed(s, axes, at) ==
    LET t == FoldLeft(LAMBDA acc, i : Targets(acc, axes[i], at[i]),
                      [dims |-> s.dims, ok |-> s.ok, to |-> <<>>], Indices(axes))
        leaves == {k \in [DOMAIN axes -> Ids] : \A i \in DOMAIN axes : k[i] \in t.to[i]}
    IN  [dims |-> t.dims, ok |-> t.ok,
         cells |-> IF ~t.ok THEN s.cells
                   ELSE [k \in DOMAIN s.cells \cup leaves |->
                            IF k \in leaves THEN "number" ELSE s.cells[k]]]

(* A row of INSERT: a number at a consolidated coordinate is splashed.     *)
InsertRow(s, axes, row) ==
    IF ~s.ok THEN s
    ELSE IF Len(row.at) # Len(axes) THEN [s EXCEPT !.ok = FALSE]
    ELSE IF /\ row.value = "number"
            /\ \E i \in DOMAIN axes : LET d == s.dims[axes[i]] IN IsConsolidated(d, HomeId(d, row.at[i]))
         THEN Splashed(s, axes, row.at)
         ELSE Written(s, axes, row)

(* A record of a file as a row of n coordinates: the field after them is   *)
(* the value, and a member's name is a text.                               *)
Record(row, n) ==
    [at |-> SubSeq(row.at, 1, n), value |-> IF Len(row.at) > n THEN "text" ELSE row.value]

(* A row of .import: short rows are skipped, text is refused.              *)
ImportRow(s, axes, aggregating, row) ==
    IF ~s.ok \/ Len(row.at) < Len(axes) THEN s
    ELSE IF aggregating /\ Record(row, Len(axes)).value = "text" THEN [s EXCEPT !.ok = FALSE]
    ELSE Written(s, axes, Record(row, Len(axes)))

(* A row of .import_attr: every value is a text.                           *)
AttributeRow(s, axes, row) ==
    IF ~s.ok THEN s
    ELSE IF Len(row.at) < Len(axes) THEN [s EXCEPT !.ok = FALSE]
    ELSE Written(s, axes, [Record(row, Len(axes)) EXCEPT !.value = "text"])

Answer(c, s) == Leave(s.dims, [cubes EXCEPT ![c].cells = s.cells])

Insert(c, rows) ==
    Answer(c, FoldLeft(LAMBDA s, row : InsertRow(s, cubes[c].axes, row), At(c), rows))

Import(c, rows) ==
    Answer(c, FoldLeft(LAMBDA s, row : ImportRow(s, cubes[c].axes, cubes[c].aggregating, row),
                       At(c), rows))

ImportAttributes(c, rows) ==
    /\ ~cubes[c].aggregating
    /\ Answer(c, FoldLeft(LAMBDA s, row : AttributeRow(s, cubes[c].axes, row), At(c), rows))

(* .splash: a coordinate left out is the default member of its dimension,  *)
(* and without one there is nothing to do.                                 *)
Splash(c, at) ==
    \E full \in [Axes(c) -> Names] :
        /\ \A i \in Axes(c) : IF i \in DOMAIN at THEN full[i] = at[i]
                               ELSE full[i] \in DefaultNames(dims[cubes[c].axes[i]])
        /\ Answer(c, Splashed(At(c), cubes[c].axes, full))

-------------------------------------------------------------------------------
(* Structure.                                                              *)

(* .import_pc, .import_lvl and .rollup, up to the row that stops them.     *)
Relate(ref, pairs) ==
    \E t \in Resolve(ref) :
        Leave([WithDimension(dims, t[1]) EXCEPT ![t[1]] =
                  FoldLeft(LAMBDA d, pair : AddComponent(d, t[2], pair[1], pair[2]), @, pairs)],
              cubes)

Unrelate(ref, p, c) ==
    \E t \in Resolve(ref) :
        LET ds == WithDimension(dims, t[1]) IN
        Leave(IF CanRemoveComponent(ds[t[1]], t[2], p, c)
              THEN [ds EXCEPT ![t[1]] = RemoveComponent(@, t[2], p, c)] ELSE ds,
              cubes)

(* Mutant: the cells of the first dimension go.                            *)
Swept_FirstAxis(cube, d, id) ==
    [cube EXCEPT !.cells = Restrict(@, {k \in DOMAIN @ : cube.axes[1] = d => k[1] # id})]

(* Mutant: whatever dimension the id is of, its cells go.                  *)
Swept_AnyAxis(cube, d, id) ==
    [cube EXCEPT !.cells = Restrict(@, {k \in DOMAIN @ : id \notin Range(k)})]

(* A cube without the cells of a deleted member, at the first position the *)
(* dimension has there.                                                    *)
Swept(cube, d, id) ==
    LET first == SelectInSeq(cube.axes, LAMBDA a : a = d)
    IN  [cube EXCEPT !.cells = Restrict(@, {k \in DOMAIN @ : first = 0 \/ k[first] # id})]

DropMember(d, n) ==
    \E del \in Deletions(dims[d], n) :
        Leave([dims EXCEPT ![d] = del[2]], [c \in DOMAIN cubes |-> Swept(cubes[c], d, del[1])])

CatalogueNext ==
    \/ \E d, h \in Refs : CreateDimension(d) \/ CreateHierarchyIn(d, h)
    \/ \E c \in Cubes : \E shape \in Shapes[c] : CreateTable(c, shape)
    \/ \E c \in DOMAIN cubes, rows \in Files :
           Insert(c, rows) \/ Import(c, rows) \/ ImportAttributes(c, rows)
    \/ \E c \in DOMAIN cubes, at \in Spots : Splash(c, at)
    \/ \E ref \in Refs, pairs \in Trees : Relate(ref, pairs)
    \/ \E ref \in Refs, p, c \in Names : Unrelate(ref, p, c)
    \/ \E d \in DOMAIN dims, n \in Names : DropMember(d, n)

CatalogueSpec == CatalogueInit /\ [][CatalogueNext]_catalogueVars

-------------------------------------------------------------------------------
(* The properties.                                                         *)

(* Where a dimension is first among those of a cube: a table may be made   *)
(* with a column twice.                                                    *)
Leading(axes) == {i \in DOMAIN axes : \A j \in 1..(i - 1) : axes[j] # axes[i]}

(* get_name never has to answer "Unknown" for a stored cell: whatever is   *)
(* written, promoted, moved and deleted, a cell is at members that have    *)
(* names, in every cube that shares their dimensions, wherever a dimension *)
(* is first in it.                                                         *)
CellsHaveNames ==
    \A c \in DOMAIN cubes : \A k \in DOMAIN cubes[c].cells :
        \A i \in Leading(cubes[c].axes) : NamesOf(dims[cubes[c].axes[i]], k[i]) # {}

(* No command takes a cell away, a failing one included, but the deletion  *)
(* of a member that the cell names.                                        *)
NoCellIsLost ==
    [][\A c \in DOMAIN cubes : \A k \in DOMAIN cubes[c].cells :
           \/ k \in DOMAIN cubes'[c].cells
           \/ \E i \in Axes(c) : NamesOf(dims'[cubes[c].axes[i]], k[i]) = {}]_catalogueVars
===============================================================================
