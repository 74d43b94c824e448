----------------------------- MODULE VersionStore -----------------------------
(***************************************************************************)
(* One cube's VersionStore under concurrent writers and readers, at the    *)
(* granularity of the code's locks and atomics: the cell store behind its  *)
(* RwLock, the version counter, and the aggregate cache tagged with the    *)
(* version its entries belong to.  Readers run Cube::query_consolidated.   *)
(*                                                                         *)
(* The cells are abstracted to the number of writes they have absorbed: a  *)
(* snapshot is the root that followed the n-th write, so "a total computed *)
(* from root n" stands for the number calculate_jit returns on it.  The    *)
(* hierarchy is abstracted to the number of structural edits made to it.   *)
(* A query whose coordinate its hierarchy does not know is a stray one: it *)
(* runs under the key of the member another hierarchy has of that name,    *)
(* and its total is of no leaves.                                          *)
(* `horizon` is a history variable: horizon[v] is the newest write and the *)
(* newest announced edit among those that made the version reach v; so is  *)
(* `strays`, the keys a stray total was computed for at this version.      *)
(***************************************************************************)
EXTENDS Integers

CONSTANTS Writers,    \* threads calling write or remove_cells_with_id_at
          Readers,    \* threads calling query_consolidated
          Keys,       \* resolved query signatures: the cache's keys
          MaxWrites,  \* bound: writes applied in a behaviour
          MaxEdits    \* bound: structural edits in a behaviour

ASSUME BoundsAreNat == MaxWrites \in Nat /\ MaxEdits \in Nat

VARIABLES inner,        \* VersionStore.inner: root number of the live store
          version,      \* VersionStore.version
          cache,        \* VersionStore.cache: key -> the total's origin
          cacheVersion, \* VersionStore.cache_version
          shape,        \* edition of the cube's dimensions
          wpc, wroot,   \* writer -> control point, root its write produced
          rpc,          \* reader -> control point in query_consolidated
          key,          \* reader -> query_signature
          edition,      \* reader -> edition leaf_resolutions was read from
          stray,        \* reader -> a leaf_resolution is empty: not its key's
          at,           \* reader -> version it loaded last
          root,         \* reader -> root the total is computed from
          answer,       \* reader -> origin of the total it returned
          floor,        \* reader -> horizon[version] when it was called
          horizon,      \* history, see above
          strays        \* history, see above

storeVars  == <<inner, version, cache, cacheVersion>>
writerVars == <<wpc, wroot>>
queryVars  == <<rpc, key, edition, stray, at, root, answer, floor>>
history    == <<horizon, strays>>
vars == <<storeVars, shape, writerVars, queryVars, history>>

NoVersion  == -1      \* u64::MAX, which no version reaches
NoEntry    == [root |-> -1, shape |-> -1, stray |-> FALSE]
EmptyCache == [k \in Keys |-> NoEntry]
Moment     == [root : Int, shape : Int]
Origin     == [root : Int, shape : Int, stray : BOOLEAN]
Start      == [root |-> 0, shape |-> 0]

QuerySteps == {"resolve", "load", "lookup", "version", "snapshot", "check", "insert"}

TypeOK ==
    /\ inner \in 0..MaxWrites
    /\ version \in Nat
    /\ cache \in [Keys -> Origin]
    /\ cacheVersion \in NoVersion..version
    /\ shape \in 0..MaxEdits
    /\ wpc \in [Writers -> {"idle", "written"}]
    /\ wroot \in [Writers -> 0..inner]
    /\ rpc \in [Readers -> QuerySteps \cup {"idle"}]
    /\ key \in [Readers -> Keys]
    /\ edition \in [Readers -> 0..shape]
    /\ stray \in [Readers -> BOOLEAN]
    /\ at \in [Readers -> 0..version]
    /\ root \in [Readers -> 0..inner]
    /\ answer \in [Readers -> Origin]
    /\ floor \in [Readers -> Moment]
    /\ horizon \in [0..version -> Moment]
    /\ strays \subseteq Keys

Init ==
    /\ inner = 0
    /\ version = 0
    /\ cache = EmptyCache
    /\ cacheVersion = NoVersion
    /\ shape = 0
    /\ wpc = [w \in Writers |-> "idle"]
    /\ wroot = [w \in Writers |-> 0]
    /\ rpc = [r \in Readers |-> "idle"]
    /\ key \in [Readers -> Keys]
    /\ edition = [r \in Readers |-> 0]
    /\ stray = [r \in Readers |-> FALSE]
    /\ at = [r \in Readers |-> 0]
    /\ root = [r \in Readers |-> 0]
    /\ answer = [r \in Readers |-> NoEntry]
    /\ floor = [r \in Readers |-> Start]
    /\ horizon = [v \in {0} |-> Start]
    /\ strays = {}

Larger(a, b) == IF a >= b THEN a ELSE b

-------------------------------------------------------------------------------
(* Writers.                                                                *)

(* Under the write lock: the trie gets a new root.                         *)
StoreWrite(w) ==
    /\ wpc[w] = "idle"
    /\ inner < MaxWrites
    /\ inner' = inner + 1
    /\ wroot' = [wroot EXCEPT ![w] = inner + 1]
    /\ wpc' = [wpc EXCEPT ![w] = "written"]
    /\ UNCHANGED <<version, cache, cacheVersion, shape, queryVars, history>>

(* version.fetch_add(1); `latest` is what the new version newly vouches for. *)
Bump(latest) ==
    /\ version' = version + 1
    /\ horizon' = [v \in 0..version + 1 |-> IF v <= version THEN horizon[v] ELSE latest]
    /\ strays' = {}

(* Mutant: the caller is answered but the version does not move.           *)
Publish_NoBump(w) ==
    /\ wpc[w] = "written"
    /\ horizon' = [horizon EXCEPT ![version].root = Larger(@, wroot[w])]
    /\ wpc' = [wpc EXCEPT ![w] = "idle"]
    /\ wroot' = [wroot EXCEPT ![w] = 0]
    /\ UNCHANGED <<inner, version, cache, cacheVersion, shape, queryVars, strays>>

(* After the lock is released: the version moves and the write returns.    *)
Publish(w) ==
    /\ wpc[w] = "written"
    /\ Bump([horizon[version] EXCEPT !.root = Larger(@, wroot[w])])
    /\ wpc' = [wpc EXCEPT ![w] = "idle"]
    /\ wroot' = [wroot EXCEPT ![w] = 0]
    /\ UNCHANGED <<inner, cache, cacheVersion, shape, queryVars>>

(* A hierarchy edit, under the dimension's own lock; no cell is written.   *)
Edit ==
    /\ shape < MaxEdits
    /\ shape' = shape + 1
    /\ UNCHANGED <<storeVars, writerVars, queryVars, history>>

(* Mutant: clear_cache through a shared reference, with calls in flight.   *)
ClearCache_Shared ==
    /\ horizon[version].shape < shape
    /\ Bump([horizon[version] EXCEPT !.shape = shape])
    /\ UNCHANGED <<inner, cache, cacheVersion, shape, writerVars, queryVars>>

(* Cube::clear_cache takes &mut self: no other call on the cube is running. *)
ClearCache ==
    /\ \A w \in Writers : wpc[w] = "idle"
    /\ \A r \in Readers : rpc[r] = "idle"
    /\ horizon[version].shape < shape
    /\ Bump([horizon[version] EXCEPT !.shape = shape])
    /\ UNCHANGED <<inner, cache, cacheVersion, shape, writerVars, queryVars>>

-------------------------------------------------------------------------------
(* Readers: the steps of query_consolidated.                               *)

Call(r, k) ==
    /\ rpc[r] = "idle"
    /\ rpc' = [rpc EXCEPT ![r] = "resolve"]
    /\ key' = [key EXCEPT ![r] = k]
    /\ floor' = [floor EXCEPT ![r] = horizon[version]]
    /\ answer' = [answer EXCEPT ![r] = NoEntry]
    /\ UNCHANGED <<storeVars, shape, writerVars, edition, stray, at, root, history>>

(* The call returns, and its locals are gone.                              *)
Return(r, total) ==
    /\ rpc' = [rpc EXCEPT ![r] = "idle"]
    /\ answer' = [answer EXCEPT ![r] = total]
    /\ edition' = [edition EXCEPT ![r] = 0]
    /\ stray' = [stray EXCEPT ![r] = FALSE]
    /\ at' = [at EXCEPT ![r] = 0]
    /\ root' = [root EXCEPT ![r] = 0]

(* The call goes on with what it has.                                      *)
Continue(r, pc) ==
    /\ rpc' = [rpc EXCEPT ![r] = pc]
    /\ UNCHANGED <<edition, stray, at, root, answer>>

(* Members to ids and leaf descendants, under the dimensions' read locks.  *)
(* Where a coordinate's hierarchy does not know it, the key has the id of  *)
(* any other member of that name, and there are no leaves; where nothing   *)
(* has the name, the query answers 0.0 on the spot.                        *)
Resolve(r) ==
    /\ rpc[r] = "resolve"
    /\ \/ /\ edition' = [edition EXCEPT ![r] = shape]
          /\ \E unknown \in BOOLEAN : stray' = [stray EXCEPT ![r] = unknown]
          /\ rpc' = [rpc EXCEPT ![r] = "load"]
          /\ UNCHANGED <<at, root, answer>>
       \/ Return(r, NoEntry)
    /\ UNCHANGED <<storeVars, shape, writerVars, key, floor, history>>

(* cache_get, before its lock.                                             *)
LoadVersion(r) ==
    /\ rpc[r] = "load"
    /\ at' = [at EXCEPT ![r] = version]
    /\ rpc' = [rpc EXCEPT ![r] = "lookup"]
    /\ UNCHANGED <<storeVars, shape, writerVars, key, edition, stray, root, answer, floor, history>>

(* The cache as it is once it belongs to version v.                        *)
CacheAt(v) == IF cacheVersion = v THEN cache ELSE EmptyCache

(* Mutant: the tag moves but the old entries stay.                         *)
Lookup_KeepsEntries(r) ==
    /\ rpc[r] = "lookup"
    /\ cacheVersion' = at[r]
    /\ IF cache[key[r]] = NoEntry THEN Continue(r, "version") ELSE Return(r, cache[key[r]])
    /\ UNCHANGED <<inner, version, cache, shape, writerVars, key, floor, history>>

(* cache_get, under the cache lock: clear if the version moved, then look. *)
Lookup(r) ==
    /\ rpc[r] = "lookup"
    /\ cache' = CacheAt(at[r])
    /\ cacheVersion' = at[r]
    /\ IF cache'[key[r]] = NoEntry THEN Continue(r, "version") ELSE Return(r, cache'[key[r]])
    /\ UNCHANGED <<inner, version, shape, writerVars, key, floor, history>>

(* The version the total is computed at ...                                *)
TakeVersion(r) ==
    /\ rpc[r] = "version"
    /\ at' = [at EXCEPT ![r] = version]
    /\ rpc' = [rpc EXCEPT ![r] = "snapshot"]
    /\ strays' = strays \cup {k \in {key[r]} : stray[r]}
    /\ UNCHANGED <<storeVars, shape, writerVars, key, edition, stray, root, answer, floor, horizon>>

(* ... and the snapshot it is computed from, taken afterwards.             *)
TakeSnapshot(r) ==
    /\ rpc[r] = "snapshot"
    /\ root' = [root EXCEPT ![r] = inner]
    /\ rpc' = [rpc EXCEPT ![r] = "check"]
    /\ UNCHANGED <<storeVars, shape, writerVars, key, edition, stray, at, answer, floor, history>>

Total(r) == [root |-> root[r], shape |-> edition[r], stray |-> stray[r]]

(* Mutant: the total is filed under the version that is current now.       *)
CheckVersion_Retag(r) ==
    /\ rpc[r] = "check"
    /\ at' = [at EXCEPT ![r] = version]
    /\ rpc' = [rpc EXCEPT ![r] = "insert"]
    /\ UNCHANGED <<storeVars, shape, writerVars, key, edition, stray, root, answer, floor, history>>

(* cache_put, before its lock: a total of an older version is not stored.  *)
CheckVersion(r) ==
    /\ rpc[r] = "check"
    /\ IF version = at[r] THEN Continue(r, "insert") ELSE Return(r, Total(r))
    /\ UNCHANGED <<storeVars, shape, writerVars, key, floor, history>>

(* Mutant: the total goes in whatever version the cache is at.             *)
Insert_AnyTag(r) ==
    /\ rpc[r] = "insert"
    /\ cache' = [cache EXCEPT ![key[r]] = Total(r)]
    /\ Return(r, Total(r))
    /\ UNCHANGED <<inner, version, cacheVersion, shape, writerVars, key, floor, history>>

(* Mutant: the tag is one version ahead.                                   *)
Insert_TagAhead(r) ==
    /\ rpc[r] = "insert"
    /\ cache' = [CacheAt(at[r]) EXCEPT ![key[r]] = Total(r)]
    /\ cacheVersion' = at[r] + 1
    /\ Return(r, Total(r))
    /\ UNCHANGED <<inner, version, shape, writerVars, key, floor, history>>

(* cache_put, under the cache lock.  The version may have moved since the  *)
(* check, and another reader may have moved the cache's tag: the tag is    *)
(* then moved BACK to the version of this total.                           *)
Insert(r) ==
    /\ rpc[r] = "insert"
    /\ cache' = [CacheAt(at[r]) EXCEPT ![key[r]] = Total(r)]
    /\ cacheVersion' = at[r]
    /\ Return(r, Total(r))
    /\ UNCHANGED <<inner, version, shape, writerVars, key, floor, history>>

-------------------------------------------------------------------------------
WriterStep == \E w \in Writers : StoreWrite(w) \/ Publish(w)

ReaderStep(r) ==
    \/ \E k \in Keys : Call(r, k)
    \/ Resolve(r) \/ LoadVersion(r) \/ Lookup(r)
    \/ TakeVersion(r) \/ TakeSnapshot(r) \/ CheckVersion(r) \/ Insert(r)

Next ==
    \/ WriterStep
    \/ Edit
    \/ ClearCache
    \/ \E r \in Readers : ReaderStep(r)

Spec == Init /\ [][Next]_vars

-------------------------------------------------------------------------------
(* Properties.                                                             *)

AtLeast(a, b) == a.root >= b.root /\ a.shape >= b.shape

(* A query never returns a total older than what had been published before *)
(* the call: every write that had returned, and every structural edit      *)
(* whose clear_cache had returned, is in the answer (query_consolidated).  *)
AnswersAreFresh ==
    \A r \in Readers :
        rpc[r] = "idle" /\ answer[r] # NoEntry => AtLeast(answer[r], floor[r])

(* Every entry of the cache is worth its tag: it was computed from cells   *)
(* and a hierarchy that include everything published up to that version.   *)
(* "A value computed from an older snapshot" is never "filed under the     *)
(* newer version" (cache_put), although check and insertion are not atomic *)
(* and the tag can move backwards.                                         *)
EntriesMatchTheirTag ==
    \A k \in Keys :
        cache[k] # NoEntry =>
            /\ cacheVersion \in 0..version
            /\ AtLeast(cache[k], horizon[cacheVersion])

(* Once every call has returned, what the cache would answer with is of    *)
(* the latest cells and hierarchy, "the last committed write must win",    *)
(* and is the total of the member its key names: what a fresh computation  *)
(* would give.  But "the resolved ids fully determine the answer"          *)
(* (query_consolidated) is not so: a stray query's 0 is filed under        *)
(* another member's key, and answers for it.  It does so only where a      *)
(* stray query was computed since the version last moved.                  *)
QuiescentCacheIsExact ==
    (/\ \A w \in Writers : wpc[w] = "idle"
     /\ \A r \in Readers : rpc[r] = "idle"
     /\ horizon[version].shape = shape)
    => \A k \in Keys :
           CacheAt(version)[k] # NoEntry =>
               /\ CacheAt(version)[k].root = inner
               /\ CacheAt(version)[k].shape = shape
               /\ CacheAt(version)[k].stray => k \in strays

(* The cube is a regular register of its aggregates: the cache, its tags   *)
(* and the lazy invalidation are invisible to callers, but for the 0 that  *)
(* a stray query leaves under another member's key (Answer of FreshReads). *)
Fresh == INSTANCE FreshReads WITH
    applied   <- inner,
    returned  <- horizon[version].root,
    announced <- horizon[version].shape,
    asking    <- {r \in Readers : rpc[r] # "idle"}

ImplementsFreshReads == Fresh!Spec
===============================================================================
