# Verification of the OLAP engine

TLA+ models of the engine's stateful core, the TLC configurations that check
them, and TLAPS proofs about them. Paths are relative to the repository's
crate (`src/src/`).

## 1. The system

An in-memory OLAP engine: sparse cubes over shared dimensions, read through
aggregates, written cell by cell, saved to one file when asked.

| Component | State it keeps | Operations | What makes it correct |
| --- | --- | --- | --- |
| Version store (`storage/version_store.rs`) | cells behind an `RwLock`, a version counter, a cache of totals tagged with a version | write, remove, snapshot, `cache_get`, `cache_put`, `bump_version` | a cached total is never older than its tag; no reader sees a stale total |
| Sparse store (`storage/sparse_store.rs`) | a persistent trie of cells | write, prune, exact query, scan | a snapshot never changes; it is the map of the last writes |
| Cube (`cube/*.rs`) | a version store, its dimensions | write, splash, exact and consolidated queries, slices | a total is the weighted sum of the leaves; a splash reads back |
| Dimension and hierarchy (`dimension/*.rs`) | leaf bank, hierarchies (tree, reverse index, roots, cached order), types, default | rollup, detach, delete, create hierarchy, reorder, promotion of leaves | one parent per hierarchy; both indexes agree; ids are never reused; no member disappears |
| Catalogue (`catalog/catalog.rs`) | cubes, dimensions | name resolution, deletion sweep, save, load | the file is whole, self-contained and not older than what was acknowledged |
| System cubes (`catalog/system_cubes.rs`) | derived cubes that list the model | rebuild, refresh after a write | they agree with the model when nothing is in flight |
| Write API (`engine/write.rs`) | none of its own | validate a batch, apply it | refused batches write nothing, accepted ones everything |
| Query pipeline (`engine/{sql,plan,wire,calc,attribute_join}.rs`) | none | parse, plan, group, calculate, order, limit | the answer is the one the plan denotes |
| Sessions and the security file (`security/{session,store,hash}.rs`) | the table of tokens, the users, their file | login, validate, revoke; add a user, save, load | a dead token stays dead; no user is lost |
| Access policy (`security/access.rs`) | none: it is folded from two control cubes | the level of a role set for a cube, a dimension, a member | the strictest rule of a role held wins, and nothing else restricts |
| Server and CLI (`bin/serve.rs`, `main.rs`) | the shared catalogue | the gate and the routes, a thread per connection; commands one by one | every request is answered; every route applies the same rules; a command that fails loses no cell |

How they interact: the server holds one `Arc<Catalog>` and starts a thread per
connection. The threads share it with no lock over the whole: a dimension has a
lock, a cube's store has a lock, its cache has another, and the version is an
atomic. A request therefore consists of many short critical sections, and every
interleaving of them is possible. The command line is single-threaded and has
`&mut Catalog`; structural edits (rollup, detach, delete, reorder, new
hierarchies) exist only there. Writes are in memory until a save, which any
number of threads may run while others write.

The hard behaviours: the lazy invalidation of the cache (a check, a lock and an
atomic that are not one step), a save next to writes and other saves, batches
that fail half way, splashes that read and write a leaf in two steps, long
sequences of structural edits (promotion of a leaf that has a parent elsewhere,
cycles, deletions), crashes during a save, the same rules applied to every shape
of answer. `PROJECT.json` lists each hazard at
its line.

## 2. The models

`PROJECT.json` maps every definition to the lines it models.

### VersionStore (and FreshReads)

Writers run `write`/`remove_cells_with_id_at`, readers run `query_consolidated`
with one action for every lock or atomic: `StoreWrite` and `Publish`; `Call`,
`Resolve`, `LoadVersion`, `Lookup`, `TakeVersion`, `TakeSnapshot`,
`CheckVersion`, `Insert`. A structural edit is `Edit`, and its announcement
`ClearCache`. Cells are abstracted to the number of writes absorbed, the
hierarchy to the number of edits: a total is the pair it was computed from.
`horizon` is a history variable: what each version vouches for.

* `clear_cache` takes `&mut self`, so the compiler rules out calls in flight;
  `ClearCache` has that as its guard. `Edit` has no such guard (a dimension is
  behind its own lock).
* A query that names an unknown member leaves at `Resolve` without an answer.
* A query whose coordinate is unknown to the hierarchy it is qualified by, but is
  some other member's name, runs under that member's key with no leaves at all
  (`cube.rs:585`): it is `stray`, and so is the total it computes and caches. At
  `Resolve` any query may be one. `strays` is a history variable, the keys for which
  a stray total was computed since the version last moved.
* Interleavings are sequentially consistent. The orderings the code uses
  (Acquire and AcqRel on the version; the relaxed tag under the cache lock) make
  the version coherent with itself; that a load may lag behind another thread's
  increment, with nothing else ordering the two, is not modelled.
* The version is a `u64`; its wrap, and the sentinel `u64::MAX`, are out of reach.

`FreshReads` is the specification without a cache: a query is answered from one
state of cells and hierarchy, not older than what had been published when it
was asked, or with a stray total. `ImplementsFreshReads` is the refinement.

What is exact is therefore the age of an answer, always. That a quiescent cache
holds the total of the member its key names is so only until a stray query fills
the key (`QuiescentCacheIsExact`): then it answers that query's 0 for the member,
until the version moves.

### Hierarchies and Dimension

`Hierarchies` has a `Dimension` as one record, and one operator for each function
of `hierarchy.rs` and `dimension.rs`, built from each other like the code;
`Dimension` is the state machine of one of them. An edit
holds the dimension's write lock and is one action. Names are lower case (the
code compares them so), weights and warnings are left out, and absent map
entries are `NoId`, `NoName` or the empty sequence. Iteration of hash maps is
nondeterministic where the result depends on it (`DeleteMember`,
`AddHierarchy`). `set_default_member` and `add_consolidated`, which nothing in
the program calls, are left out. `MaxSize` bounds the names in use plus the
hierarchies, so that one run has three names in one hierarchy and two in two.

### Catalogue

The dimensions that cubes share (each a record of `Hierarchies`) and the cells of
the cubes, under the commands of the command line: creation of dimensions,
hierarchies and tables, `INSERT`, `.import`, `.import_attr`, `.splash`,
`.import_pc`, `.import_lvl`, `.rollup`, `.detach` and the deletion of a member with its
sweep. A command is one action, for nothing runs beside it, and keeps what it did
before the row it fails at. A file is a sequence of rows, a cell's key the
sequence of its ids, a value a number or a text. References go through `Resolve`,
so a hierarchy's name leads to its dimension. A table may have a column twice, which
nothing in the code refuses; `Leading` are the positions where a dimension is first.
Dimension names that differ in case only and coordinates qualified by a
hierarchy are left out.

### SparseStore (and PointInTime)

The trie, node by node. A node's name is the change that made it with its place
in the trie, and stands for the address of an `Arc`; `heap` has every node ever
made. `Write` and `RemoveCellsWithIdAt` make the nodes that `write_path` and
`prune_path` copy (under the store's write lock: one action) and a new root.
`ScanSubcube` takes a snapshot and `ScanRecursive` visits one node of it, so that
any number of changes fall between two visits; siblings are visited in any order,
like those of a hash map. `PointInTime` is the specification without a trie:
cells are a map, and a scan is answered from the map at the moment it was asked.
`ImplementsPointInTime` is the refinement.

### WriteApi

A batch is a thread: `Submit`, then `Validate` cell by cell, then `Apply` and
the writes, each cell or leaf a step of its own, for that is how long the code
holds a lock. A coordinate stands for a tuple of members; a consolidated one has
its leaves and weights from `Expansion`. Amounts are integers chosen so that
shares are integers; rounding of `f64` is not modelled. Requests are checked
against the hierarchies the batch started with: the server never edits them.

### Queries

One query of one cube, from the request to the page, while writes add members
and cells. `Ask` refuses what no later step could answer; `TakeMeasures`,
`AddFilter` and `EndFilters` build the slice query, for a plan (`execute_plan`)
and for a SELECT (`execute_sql`), where these differ; `EnsureDisplayOrder` and
`Resolve` visit one dimension at a time, `Scan` takes the snapshot, `Fold` adds
one cell to its group, in any order, `Emit` gives the next row by the ranks of
the moment, and `OrderAndLimit` sorts and cuts. Queries share nothing but the
cached display orders, so one is enough: `RefreshOrder` stands for the others.
A calculated field is refused when its measures are taken (`Slots`, `Evaluable`)
and worth what `Evaluate` makes of its tree once every row is there
(`Calculate`); a join reads the attribute cells (`tags`) at that moment and adds
them to the rows, or drops the row (`Join`); an inner join that asks for no
attributes drops none, as in the code. The attribute cube has one key
dimension, `Conformed`, and that of its attributes.
Hierarchies are fixed, one for a dimension; members, measures and texts are
model values with an alphabetical position (`Spelling`) where a sort needs one;
numbers are fractions. `asked`, `snapshot` and `joined` are history.

What an answer means is said once more in `AnswersMeanTheirRequest`, of sets of
cells (`Visible`, `MeaningOf`) and not of accumulators. It claims nothing of
requests that have no one meaning (`Plain`): two filters of one dimension (see
`query_filters`), filters whose members overlap, a measure dimension without
measures, and cells of members added after the request came in; nor of the
column (`Own`) of a measure added since, or of one whose name an attribute has
too: the later column wins. The worth of a formula is
there `Evaluate` of the meanings of its measures; `NoNumberFromNothing` says of
formulas what does not depend on it: no measure, no number.

### Persistence

Threads of writes and threads of saves, over an abstract file system. A save
clones the cubes one by one, then the dimensions, creates, writes and syncs a
temporary file, and renames it; each step may fail, and a crash may happen
between any two. A cell is named by the member it introduces. Assumed of the
file system: rename is atomic and durable, synced bytes survive a crash,
unsynced ones may be lost, removing a temporary file succeeds. `asked` and
`promised` are history: the catalogue when a save was asked for, and what the
answered saves have promised. `windows` selects the `cfg(windows)` branch, for the
`Builds` a run considers, and
`spoiled` remembers that two saves overlapped or that the branch removed the
live file: what was promised survives as long as neither happened
(`UnspoiledSavesSurvive`), and `persistence_race` shows what happens otherwise.

### SystemCubes

Threads of batches that create members, each followed by `refresh_after_write`:
`Scan`, then for every dimension `LockDimension`, `NameRow` and `PutRow` for each row that
was not seen, and `UnlockDimension`, then `CountMembers`, `CompareCount` and
`OverwriteCount` for every column. A dimension's lock is held for the whole of its
listing (`held`); the system dimensions' locks are taken inside it for one step
each, and no code holds one of those while it waits for a user dimension.
Members are found by `Key` (lower case) and listed under the name the
dictionary had first. A batch may fail after it has added members
(`FailBatch`) and is then not refreshed. `Rebuild` needs `&mut Catalog`. Rows of
all hierarchies are one row, for a leaf is in every hierarchy.

### Access and Routes

`Access` is the fold, as operators: the rows of the roles a session holds
(`Binding`), the strictest of their levels for each cube (`TableRules`), each
dimension and each member (`DimensionRules`), and the questions the routes ask of
the result. A text that is no level forbids; a cube is hidden with any of its
dimensions; a member's rule stands before its dimension's.

`Routes` follows one request: the gate (`Ask`: a token is the roles of its
session, or stale), the rules folded from the control cubes (`ReadRules`), and one
action for the route it asks for, while other connections write cells
(`WriteElsewhere`). A behaviour has its own control cubes, because no route writes
one. `Visible` is what the denied members leave of a cube; a route answers with
the cells it may show, a page of them, their number, the members of a domain, or
the code it refuses with. What a query computes is `Queries`, how a batch is
applied `WriteApi`: here they are the cells they read or write. Writes to
consolidated coordinates, and how the SQL of a request is parsed, are left out.
`Facts` are the numbers of `describe`: the count of the cells, whether they are
numbers, the least and the greatest, the size of each dimension and the count of
distinct values. A row of a query is a cell; a join (`Partners`, `Attached`, `Kept`)
gives it the cells of the joined cube that have its key and an attribute asked for,
on one key dimension (`Keys`).

`AnswersObeyTheRules` says once more, of the texts in the control cubes
(`TableRows`, `MemberRows`) and not of levels, what a session may see (`Closed`,
`Concealed`) and write (`Writable`). No answer is about a closed cube, and rows,
samples and domains are of what is not concealed, all of it and nothing else. It
states three things as the code has them, against what the documents want (section
3): `describe`'s numbers are of the whole cube, a join's attributes are all that a
visible row's key has, and a member is barred from writing by its own rule or its
dimension's, not by one of a total above it. `RefusalsHaveARule` is the other half, default
accept.

### Sessions

The security file and its users, `--add-user` commands that save it step by step
and may be killed between any two, servers that load it, and their tables of
tokens. Tokens are numbers, never issued twice. `clock` may be set to any second.
A power failure leaves any part of a file that the system has not written back
yet (`settled`); `known` (the users there were, and those a command has answered
for), `dead` and `lost` (the power failed too early) are history. One command
runs at a time. `Verifies` is the password check: a record that cannot be read
matches nothing.

## 3. The runs

| Run | Instance | Shows |
| --- | --- | --- |
| `version_store` | 2 writers, 2 readers, 2 keys, 2 writes, 1 edit, stray queries or not, symmetric | answers are never stale and entries are worth their tag; a quiescent cache is exact but for the totals of strays; refinement of `FreshReads` |
| `dimension` | up to 3 names in 1 hierarchy, or 2 in 2; 3 ids; symmetric | one parent, both indexes agree, nothing disappears, orders are current, the default is usable, shared ids share leaves, ids stay dead |
| `sparse_store` | 3 axes, 2 ids, 2 values, 3 changes, 1 reader, symmetric | no dead branches, writes share what they do not change, refinement of `PointInTime` |
| `write_api` | 2 batches of up to 2 cells of 5 sorts, 3 modes, strict or not, racing splashes and deltas over used and unused leaves, fair threads | refused batches write nothing, accepted ones all; a splash alone reads back; every batch is answered |
| `system_cubes` | 2 batches of 2 and 3 members of 2 dimensions, in 2 spellings, fair threads | answered members are listed, counts are right unless refreshes overlap, everyone gets through the locks |
| `queries` | 66 requests, plans with and without formulas and joins, and SELECTs, of 3 sorts of cube with 3 dimensions, 3 writes of which 1 happens, 2 new members, one a measure | answers mean their request, rows follow the display order, pages are the right part, no formula gives a number for want of data |
| `persistence` | 2 savers, 2 cubes, 2 one-cell batches, Windows or not | the file is whole and self-contained; no debris; what saves that do not overlap promise survives |
| `sessions` | 2 users, 3 commands, 3 first files, 2 logins, a clock of 4 seconds | a dead token never comes back; no user is lost |
| `routes` | 5 cubes with 2 control cubes among them, 348 combinations of rules, 2 roles, 79 requests, joins with and without attributes among them, 1 write of another connection | rows, samples and names are what the rules let a session see, all of it and nothing else; joins and `describe` as said above; only a rule turns a request away |
| `catalogue` | 2 cubes that share a dimension or have it twice, 2 names, 3 ids, 2 cells a cube | cells keep their names, wherever a dimension is first, and go only with a member they name |

The bounds: two readers are the fewest for one to move the cache's tag under
another, two writes for a version to be two behind, two keys for entries of one
query to survive another's lookup. Two names and three ids let a name be
created, promoted, deleted and created again; three names make a chain and a
cycle; two cubes that have a dimension at different places are the fewest that a
sweep can confuse. Two roles let a rule of one meet a rule of the other, two leaves
under one member let it deny more than itself, and a page of one of two cells has
an edge. Two users let a command lose another's record, and two logins let a
token outlive another's server. Two batches are the fewest that race, two cells the fewest that can be
half done. Three axes are the fewest with a deletion that prunes above the
member's axis and copies below the root, and three changes make a branch, empty
it and write again; a second reader would share nothing with the first but the
nodes, which neither changes. The cells of `queries` put two members under weights
other than 1, a text next to a number, a tie at the cut and a group without the
measure asked for; the new members are in no cached order; of the members that
a join looks for one has an attribute, one is given one, and one has none. Two
savers are the fewest whose snapshots and renames can cross.
`CHECK_DEADLOCK FALSE` is given for `WriteApi`, `SystemCubes` and `Routes` only, where
requests are finite in number and the system stops when all are answered.

Runs that show a violation. Each states what a comment or a document of the
repository says, and finds a behaviour of the code that differs:

| Run | Statement | What happens |
| --- | --- | --- |
| `query_filters` | a filter prunes rows like a WHERE (`plan.rs:177`), `notEquals` is the negation of `equals` (`plan_tests.rs:225`) | the values of two filters of one dimension are put together: each of two `notEquals` lets the other's member in |
| `persistence_race` | a crash after the response is safe (`WRITE-API-DESIGN.md:130`) | two saves at once, no crash and no Windows fallback (`Builds = {FALSE}`): an older snapshot is renamed over a newer one, and a member that an answered save had promised is gone |

Where the models had to follow the code against one of its comments, and no run
is kept for it:

* A coordinate its hierarchy does not know is cached, as 0, under the id another
  hierarchy's aggregate of that name has, and that aggregate is then answered with
  0 until the version moves (`cube.rs:585`, against "the resolved ids fully determine
  the answer", `cube.rs:577`). The model has it (`stray`), and
  `QuiescentCacheIsExact`, `FreshReads` and `Quiescence` except it.
* An inner join drops rows by the attributes it asks for: if it asks for none it
  keeps every row (`attribute_join.rs:173`), and a key that has only others is
  dropped (`attribute_join.rs:250`). "Only keys present in BOTH cubes survive" is true
  of neither (`attribute_join.rs:159`; also `sql.rs:205` and `JOIN-HANDOVER.md:169`).
  `Matched`, and with it `AnswersMeanTheirRequest` and `AnswersAreMeant`, follow the code.
* A join attaches the attributes of a key whatever is denied of the joined cube's
  other dimension (`attribute_join.rs:245`), though a forbidden attribute in a join
  should be absent (`SECURITY-DESIGN.md:128`). So does the model, and
  `AnswersObeyTheRules` says so.
* `describe` tells every session the least, the greatest and the number of all values,
  hidden ones included (`wire.rs:466`, `wire.rs:555`), where `SECURITY-DESIGN.md:309`
  grants that a cardinality can reveal hidden members, "not their names or values".
* The check before a write looks at a member's own rule or, failing that, its
  dimension's (`serve.rs:952`): a leaf that is hidden only because its total is
  denied may be written, although "a member the role may not see cannot be written
  either" (`serve.rs:950`, `WRITE-API-DESIGN.md:111`). `Writable` follows the code.
* A name that is denied but is no member yet is ignored (`cube.rs:399`); one that
  becomes a member while the query runs is not looked at in `Queries`, whose
  requests deny only what was a member when they came in.
* Two deltas at once to one total lose one: a leaf is read and written under two
  locks (`cube.rs:549`, against `WRITE-API-DESIGN.md:73`).
* Of two SQL filters of one dimension the last wins (`sql.rs:789`), and of two
  aggregations of one measure too, although `sql.rs:345` wants no silent one;
  a plan refuses those.
* A plan that groups by a later dimension than the measures and names none has
  the measure's id in its key but not among its columns, so the key's first
  member is shown in the wrong column (`cube.rs:886`, against `cube.rs:884`).
* Of filter values that overlap, the last one's weight counts (`cube.rs:791`).
* Among texts and numbers in one group the result depends on the order of a
  hash map: a text after a number replaces it (`cube.rs:192`, against `cube.rs:183`).
* `register_aggregate` pushes a promoted leaf among the roots even when it has a
  parent (`hierarchy.rs:109`, against `hierarchy.rs:41`), so the display order
  lists it twice; `MembersAreListed` therefore asks for a root above a member,
  not for roots without parents.
* `forget_alias` leaves the tree edges of the other hierarchies
  (`hierarchy.rs:127`), which still reach a promoted id as a child, although
  they no longer know its name (`dimension.rs:277`).
* `add_leaf` looks in the leaf bank only: a cell write that names an aggregate
  creates a leaf of that name with a second id (`dimension.rs:200`, against
  `dimension.rs:230`).
* A splash reads back exactly (`cube.rs:457`) only when the weights are 1 and
  -1: a share is `v |w| / sum |w|` and is weighted by `w` again when read. The
  weights of `MCWriteApi` are units for that reason.
* A batch whose cell names a consolidated member without leaves passes
  validation and is refused in the second pass, after earlier cells were
  written (`write.rs:253`, against `write.rs:14`); `RefusedBatchWroteNothing` is
  about refusals by validation. On the server such a batch is not followed by a
  refresh either (`serve.rs:974`), and members it created stay unlisted.
* A batch holds no lock across its cells, so a file saved in between has half of
  it (`catalog.rs:329`, against `catalog.rs:323`).
* `refresh_members` compares names with their spelling, but a row is read back
  under the spelling the dictionary had first: a member spelt differently in
  two dimensions is written again by every refresh (`system_cubes.rs:602`, against
  `system_cubes.rs:558`).
* Of two refreshes at once the older count of a column may be written last, and
  stays until another batch creates members (`system_cubes.rs:632`, against
  `system_cubes.rs:544`); `CountsAreCurrent` is therefore about refreshes that do
  not overlap.
* The Windows fallback removes the live file before it renames again
  (`catalog.rs:395`, against `catalog.rs:388`), and it `spoiled` what was promised.
* A leaf that was promoted and then lost its only child has the type of a leaf
  and is not in the leaf bank (`dimension.rs:388`), so its next promotion gives
  its name a new id and no name leads to the cells at the old one
  (`dimension.rs:303`, against `dimension.rs:228`). `CellsHaveNames` therefore
  asks that a cell's id has a name, not that the name leads back.
* `CREATE TABLE` takes a column twice (`sql.rs:684`), and the sweep of a deletion stops at
  the first position of its dimension (`catalog.rs:304`, against `catalog.rs:283` and
  `catalog.rs:299`): a cell with the member at the second stays, under an id without a
  name. `CellsHaveNames` is therefore about the positions where a dimension is first;
  at every position TLC finds it violated on `MCCatalogue`, in five states.
* A dimension can be created with the name of another one's hierarchy
  (`catalog.rs:127`, against `catalog.rs:142` and `Architecture.md:10`); which of
  the two a reference means then depends on the order of a hash map (`Resolve`).
* SQL `INSERT` stores a text in an aggregating cube (`sql.rs:759`), where
  `.import` refuses it (`cube.rs:713`).

Fairness: `write_api` and `system_cubes` need it, weak fairness of each
connection's thread. The code justifies it: a request has a thread of its own, which waits
for nothing but short locks. A refresh may still fail to be scheduled for a
lock, but only as long as others keep taking it, and batches are finite.

Every property has a mutant, an operator next to the definition it replaces,
which is a plausible bug that TLC must catch with that property.

## 4. The proofs

`VersionStoreProofs`, for any sets of threads and keys and any bounds
(assumption: `BoundsAreNat`, that the bounds are natural numbers):

* `TypeCorrect`, `Freshness`, `TagSoundness`: the type invariant,
  `AnswersAreFresh` and `EntriesMatchTheirTag`.
* `Refinement`: the store implements `FreshReads`.
* `Quiescence`: `QuiescentCacheIsExact`, from two more invariants: the newest write is
  vouched for by the version, or its writer has yet to move it
  (`NewestIsAnnounced`); and a stray total, cached under the current version or in the
  hands of a query that took it, has its key among `strays`
  (`StraysAreKnown`).

The argument is the invariant `IInv`. `EntriesMatchTheirTag` alone is not
inductive: `Insert` files a total under the version `at` that was read long
before, and nothing in the property says the total is worth it. `QueryInv` adds
it: the snapshot is taken after the version is read, so from `check` on the root
is at least what that version vouches for; the resolution is at least as new as
the last announced edit, because `clear_cache` cannot run during a query; and a
query's floor is below what any version it reads later vouches for. `HorizonInv`
says that what versions vouch for only grows. Each action has a lemma; the
temporal steps are at the end.

`PersistenceProofs`, for any cubes, members, batches, savers and builds (assumptions:
`BatchesNameCubes`, that a batch is a cube and a sequence of members, and
`BuildsAreBoolean`):

* `TypeCorrect`, `WholeFile`, `Addressable`, `NoDebris`: the type invariant,
  `LiveFileIsWhole`, `SavedCellsAreAddressable` and `AnsweredSavesLeaveNoTemp`.
* `Durability`: `UnspoiledSavesSurvive`, that what answered saves promised survives
  as long as saves do not overlap and the live file is not removed to be
  replaced. `persistence_race` shows that it needs the first of these.

What is wrong with a file was decided many steps before the rename, so the
invariant `IInv` follows it backwards (`SaverInv`): what is renamed is synced, what
is synced is the snapshot, and the snapshot's cells are at members of memory
when they are cloned (`MemoryInv`), whose dimension is cloned last. `DurableInv` adds
the order promised, live file, asked, snapshot, memory: each has all the one
before it has, while no save is `spoiled`. A crash sets memory to the live file and so keeps the order.

`SparseStoreProofs`, for any axes, ids, values, filters and readers (assumptions:
`DimsIsPositive`, that a filter has an entry per axis, and that the markers `None`
and `Pending` are no value, no name and no answer):

* `NodesNeverChange`, `TypeCorrect`: every step only adds nodes, and no node refers
  to one that is not in the heap.
* `BranchesLive` (`NoDeadBranches`), `WritesShare` (`WritesShareTheRest`).
* `ScansSeeOneMoment` (`ImplementsPointInTime`): trie and scans implement the map of
  `PointInTime`. `Init` maps to its `Init`, and each step to a write, a deletion, a
  question, an answer or a stutter.

A place of the trie is a sequence of ids, so what a walk reaches is shown by
induction over places (`SetInduction`, from the library's well-foundedness of `<` on
the naturals: the property is a set of numbers, for the provers cannot
instantiate an operator). A deletion is computed from the member's axis upwards
and needs an induction the other way (`KeptExists`). `TrieInv` is what makes a heap
a trie: a child's name has the child's place, and only nodes below the last axis
have values; without it a new node could be one that an old walk meets. Since
names are new at every change, what a snapshot reaches stays what it was
(`SnapshotStays`). `ReadInv` says of a scan in progress that the nodes to visit and
the cells found are all of the snapshot's, and leave out nothing the filter asks
for (`LeavesOutNothing`), which is what an answer needs when nothing is left to visit.

`SystemCubesProofs`, for any dimensions, columns, spellings and batches
(assumptions: every name has a key, columns count dimensions, batches name
members): `AnsweredIsListed` (`AnsweredMembersAreListed`) and `CountsSettle`
(`CountsAreCurrent`). That a member of an answered batch is listed was decided when its
thread looked at the dimension under its lock, so `ListedInv` follows a member
through the refresh: it is listed, or its dimension is still to do, or it is
among the rows missing from the dimension at hand. A count may be written from a
number that is out of date, so `CountInv` says of a column that its count is right
or some refresh has yet to write it (`Due`), once nothing can come
and no refreshes crossed.

`SecurityProofs` has three parts. Of the rules alone, for any control cube and any
roles (assumption: `LevelTextsDiffer`, that the three texts of a level are
different): `DefaultAccept`, `FailClosed`, `MoreRolesAllowNoMore` and `DeniedStaysDenied`.
The lemmas say of each question the routes ask which level the texts of the rows
give (`Follows`), so that nobody who cites them needs to look at the fold, whose
least level is a `CHOOSE` (`LowestIs`, `StrictestIs`). Of the routes, for any cubes,
rules, requests and writes (assumptions: the control cubes are cubes, and every
first state gives each cube its cells; a request names the table its route needs; other
connections write no control cube, which is what `Guarded` and this very theorem
make sure of for each of them): `Obedience` (`AnswersObeyTheRules`, with
the exceptions it states for joins, `describe` and writes) and
`DefaultAcceptance` (`RefusalsHaveARule`). Hidden, denied and vetoed are shown to be
what the rows say (`HiddenIsClosed`, `DeniedIsConcealed`, `VetoedIsNotWritable`) as
long as the rules a request holds are those its control cubes have now. That is
the strengthening (`RulesAreCurrent` in `IInv`): the rules are folded in one step and
used in the next, and between the two no write may reach a control cube.
Of the sessions, for any users, passwords, roles, commands and bounds
(assumptions: `BoundsAreNat`, that a typed password is no unreadable record, that
commands and first files name users): `TypeCorrect`, `Revocation`
(`DeadTokensStayDead`) and `Survival` (`NobodyIsLockedOut`). A token that is not live
could become live when the clock is set back, so the invariant is that a dead
one is not in the table at all (`DeadTokensAreGone`); and what a command will
rename is what it will answer for (`CommandInHand`), because nothing changes
the file while it runs.

`WriteApiProofs`, for any batches, requests, starting cells and trees of members
(assumptions: `ExpansionsAreLeaves` and `ExpansionsAreWeighted`, that a total has finitely
many leaves, which exist, with integer weights; `RequestsAreBatches` and
`InitialsAreCells`, their types; `CoordinatesDiffer`; `OthersAreNoNumbers`; and `SharesAreWhole`,
that the amounts asked for divide):

* `RefusalsWriteNothing` (`RefusedBatchWroteNothing`) and `OkWritesItAll` (`OkBatchWroteItAll`).
  The invariant says at every control point what has been written so far: the
  cells before the one at hand and, of a splash, the leaves that are no longer to
  do (`BatchInv`). A step of one thread leaves the others' entries alone
  (`OthersKeepBatchInv`).
* `TypeCorrect` (`TypeOK`), which needs that a total in the second pass is no text:
  validation looked at it, and the request has not changed since (`Sound`).
* `SplashesReadBack` (`SplashReadsBack`), under the hypothesis `UnitWeights` that a weight is
  1, -1 or 0, without which it is false (section 3). `SplashInv` says which leaves
  of a lone splash have their amount and which still have what they had, and
  that the old value an Add has in hand is the leaf's. That the amounts then add
  up is a fact about sums: `SumIs` shows that `SumFunction`, which adds in the order
  of some choice, is the same in whatever order the leaves are taken,
  by induction over finite sets (`FiniteInduction`), and `SumIsLinear` splits it.

`StructureProofs` is about `Dimension` first, for any names, hierarchies and bounds (assumptions: `MaxIdIsNat`,
`NamesAreFinite`, `NoNameIsNoName`, `DefaultIsNotOther`):

* `IdsAreNotReused` (`DeletedIdsStayDead`). Every operation of `Hierarchies` is shown to
  grow a dimension (`Grows`): what has an id afterwards had it before, or the id
  was not handed out yet. Growing is transitive, so an `add_component` that promotes
  a leaf, adds another and links the two is the sum of its parts.
* `TypeCorrect`, `OneParentHolds`, `OrdersAreCurrent`, `DefaultHolds`: `TypeOK`, `OneParent`,
  `DisplayOrderIsCurrent`, `DefaultIsUsable`.
* `SharedHolds` (`SharedIdsShareLeaves`), `NoneIsLost` (`MembersAreListed`).

All but the first follow from `Inv`, which is `DimInv` and that every order is
current. None of them is inductive alone. The parts of `DimInv`:

| part | says | without it |
| --- | --- | --- |
| `Forests` | child lists and parents agree (`Tree`); what has a child or a name and no parent is a root (`Rooted`) | a link could leave a child under two parents, a removal a member nowhere |
| `GivenIds` | ids in use are below `next`; those above have no type | a new member could take over another's children |
| `OneNameEach` | a leaf id has one name, the same in every hierarchy | deleting a leaf could take another's name |
| `LeavesAreTyped` | the bank's ids have the type of a leaf | the fallback of the default could be a deleted member |
| `BareIds` | leaves, and ids to come, have no title and no children anywhere | a leaf would stand for more than itself in another hierarchy |
| `SharedAreLeaves` | two hierarchies share ids of leaves only | an aggregate's total could be read in a hierarchy with other children |
| `DefaultLives` | the default has a type | (a part of `DefaultIsUsable` itself) |
| `Titled` | an id a hierarchy knows is a leaf's or has a title there | a cell at an aggregate could be at no name (used by the catalogue) |
| `OneTitle` | an id has a title in one hierarchy at most | a deletion in one hierarchy would leave the id a name in another (used by the catalogue) |

Each operation of `hierarchy.rs` has a lemma that says what it does to the two
indexes (`Aggregated`, `Aliased`, `Forgotten`, `Rearranged`), each of `dimension.rs` one for `DimInv`
(`Registers`, `Made`, `Shrinks`), and `add_component`, which may do four of them, combines
them while one hierarchy at a time is not current (`CurrentBut`). `NoneIsLost` climbs
from a member to its parents: a climb that ends ends at a root, and one of more steps
than there are names meets an id again, by the pigeonhole principle, and so a cycle.

`QueriesProofs`, for any dimensions, leaves, totals, cells, writes and requests
(assumptions: leaves are listed once, totals are of leaves, cells are at members
and requests are whole; `RequestsAreWhole` says what the parsers make sure of):
`AnswersAreInOrder` (`RowsFollowTheDisplayOrder`). Ranks are read from the display orders
of the moment, which other queries refresh between two rows while leaves are
added. Orders only grow at their end, and when the rows are given each one begins
with the leaves there were when the request came in (`OrdersGrow`), so the ranks of
the answer's members never change. `RowsInOrder` says that the rows given so far
follow each other and precede every group that is left (`Follows`); that the next row
keeps this is the choice of `Emit`, a group that none precedes, and that there is a
first dimension in which two groups differ.

`FormulasInventNothing` (`NoNumberFromNothing`; also assumed: formulas are trees whose
operators have their operands, names are no numbers, and a total has a name) follows a request from its
filters to its rows:

| Invariant | Says | Needed because |
|-----------|------|----------------|
| `LeavesKnown` | the first leaves stay | a filter that named something goes on naming it (`UnderStays`) while leaves are added |
| `FiltersMean` | a dimension's filter has the members its request's filter stands for, or those but the excepted ones | it is built up request filter by request filter |
| `ScopesMean` | the leaves of a resolved dimension are those of its filter's members | one lock is taken for each dimension |
| `DeniedMean` | what is hidden is what is under a hidden member | `Hidden` is taken once and read at every cell |
| `GroupsSeen` | a group has a measure only where one of its cells was looked at | an accumulator is never made for nothing |
| `ColumnsMean`, `ColumnsTyped` | a column is one that was asked for, and its formula's slots are measures of the slice | a formula would read a value that no row has |
| `RowsSeen` | a row has a value only where there was a cell, and after the formulas none where a needed measure had no cell | the formulas run when the groups are gone |
| `GroupsTyped`, `RowsTyped`, `ScopeTyped`, ... | every value is of its sort | an operator's worth is only known of numbers, truths and nothing |

Of the formulas it needs that an operator given nothing gives nothing
(`BinaryIs`, `UnaryIs`, `IfIs`), carried up the tree by induction on its depth
(`EvaluateFits`, `NeedsAreSlots`): `Depth` makes recursive functions on formulas
well founded. At the end a cell that was counted is one the request means
(`CountedAreMeant`), so where the request means none, none was counted.

`PagesAreRight` (`PageIsTheRightOne`): the page is `PageOf` the rows and stays it
(`PageCut`), and what is left to show is about the sort. Every value of a column
that orders the rows is absent, a fraction or a name (`RowsCompare`, from
`RowsTyped` and `ColumnsTyped`), and of such values `Smaller` is a strict order in which
no value stands between two equal ones (`SmallerIs`), so `Before` is one of rows
(`BeforeIs`) and, ties broken by position, a total one. The sort is a `CHOOSE`: that
there is a listing is shown by inserting one number after the other (`OneIsInserted`),
and a row's place in it is the number of rows that come first (`ListedIs`).

`AnswersAreMeant` (`AnswersMeanTheirRequest`) stands on the invariants of the other
two and of `Answering`, and is about what is folded:

| Invariant | Says | Needed because |
|-----------|------|----------------|
| `CellsFinite` | cells and the snapshot are finite | a sum over a set is one of a finite set |
| `GroupsMean` | a group has a measure where a cell of it was counted, and its accumulator is their sums, count, least and greatest | accumulators are all that is left of the cells |
| `KeysWhole` | what was seen has its group or its row, and nothing else has | groups are taken away as rows are given |
| `FoldsMean` | a column's aggregation is that of the measure asked for, a formula's slots have theirs | aggregations are recorded by name, and a later name could take an earlier one's |
| `RowsMean` | a row's value is what its measure's cells, or its formula of such values, come to | rows are turned into columns, then joined |
| `KeysMatched` | after the join the rows are the groups that `Matched` keeps | the others are gone |

Cells are taken in any order and counted one at a time; the meaning is a sum over
a set, which the library defines by a recursion that picks its own order. So a
fold of a commuting operation takes any element last (`FoldAdds`), by induction on
the number of elements, and a sum over `C \cup {c}` is that over `C` plus `c`'s. A
cell's weight is multiplied up along its dimensions in the model, and along the
filters of the request in the meaning: the same where each dimension has one
filter at most (`WeightsAgree`). That formulas mean what they should is that
`Evaluate` looks at nothing but its slots.

The second half of `StructureProofs` is about `Catalogue`, for any dimensions, cubes, files,
trees and bounds (also assumed: `CubesAreWhole`, `FilesAreWhole`, `TreesAreWhole`, that
what is typed are sequences of names, rows and pairs): `NamesHold` (`CellsHaveNames`) and
`CellsStay` (`NoCellIsLost`). Its invariant `CatInv` says that every dimension satisfies
`DimInv`, that a cube's dimensions exist, and that cells are filed under ids that have
names wherever a dimension is first (`Filed`). At a dimension's second position this is
false (section 3).

* `Carries` and `Drops` extend each lemma of `dimension.rs`: no edit takes an id's name, but
  a deletion, which takes exactly the deleted one's. So what a command does to a
  dimension is transitive (`Goes`, `AllGo`), except for the sweep.
* A command folds an edit over rows, coordinates or pairs. `FoldLeft` is, in the library,
  a recursion over subsets of the indices; `StepsExist` shows that there is such a
  function and `StepsChain` that its values are a chain of states, one per row, of which
  the command leaves the last. What each row keeps (`Proceeds`) then follows by
  induction on their number, wherever the command stops.
* The bound on ids is a bound on what a command leaves. Ids are never taken back, so
  it held at every row (`BoundedBefore`), which is where the lemmas need it.
* The sweep looks at `SelectInSeq`'s position, which is the leading one (`FirstIs`).

Model-checked only: liveness, which is out of the prover's reach. The statements of
the runs that show a violation are false, so there is nothing to prove.

## 5. What is not modelled

* Parsing, formatting, HTTP and console I/O; the layout of JSON; the
  hash function behind passwords; the encoding of the catalogue file beyond
  whole or torn, and a file of another version; floating point; memory ordering
  beyond what is said above.
* `Queries`: axes of another hierarchy than the default, filters on measures, LOD
  expressions, the operators `%` and `^`.
* `Catalogue`: dimension names that differ in case only, coordinates qualified by a
  hierarchy, listings.
* Cached totals after an import that fails half way (`main.rs:585`): `Catalogue` has
  no cache, and `VersionStore` no failing edit.
* `SystemCubes`: the derived cubes that only a rebuild writes.
* `Sessions`: two commands at once, which would share a temporary name;
  `remove_user`, which nothing calls; the size of the token table, which shrinks
  only when an expired token is presented again (`session.rs:70`).
* The dictionary (`dimension/dictionary.rs`), which nothing uses, and the benchmarks.
