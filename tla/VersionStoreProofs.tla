-------------------------- MODULE VersionStoreProofs --------------------------
(***************************************************************************)
(* Proofs about VersionStore, for any sets of writers, readers and keys    *)
(* and any bounds.                                                         *)
(*                                                                         *)
(* EntriesMatchTheirTag is not inductive: a total is worth the version it  *)
(* is filed under only because the snapshot was taken after that version   *)
(* was read (QueryInv), because the horizon never shrinks (HorizonInv),    *)
(* and because clear_cache cannot run during a query, so the hierarchy a   *)
(* query resolved is at least as new as the last announced edit.           *)
(***************************************************************************)
EXTENDS VersionStore, TLAPS

(* What a version vouches for only grows, and it exists.                   *)
HorizonInv ==
    /\ \A u, v \in 0..version : u <= v => AtLeast(horizon[v], horizon[u])
    /\ horizon[version].root <= inner
    /\ horizon[version].shape <= shape
    /\ \A v \in 0..version : horizon[v].root >= 0 /\ horizon[v].shape >= 0

(* No total comes from a root or an edition that does not exist yet.       *)
Exists(o) == o.root <= inner /\ o.shape <= shape

CacheInv ==
    /\ EntriesMatchTheirTag
    /\ \A k \in Keys : Exists(cache[k])

Holding(r)  == rpc[r] \in {"lookup", "snapshot", "check", "insert"}
Resolved(r) == rpc[r] \in {"load", "lookup", "version", "snapshot", "check", "insert"}

(* What each step of query_consolidated may rely on.                       *)
QueryInv(r) ==
    /\ AtLeast(horizon[version], floor[r])
    /\ floor[r].root >= 0 /\ floor[r].shape >= 0
    /\ Resolved(r) => edition[r] >= horizon[version].shape
    /\ Holding(r) => AtLeast(horizon[at[r]], floor[r])
    /\ rpc[r] \in {"check", "insert"} => root[r] >= horizon[at[r]].root
    /\ rpc[r] # "idle" => answer[r] = NoEntry

AnswerInv ==
    /\ AnswersAreFresh
    /\ \A r \in Readers : Exists(answer[r])

IInv == TypeOK /\ HorizonInv /\ CacheInv /\ AnswerInv /\ \A r \in Readers : QueryInv(r)

-------------------------------------------------------------------------------
USE DEF storeVars, writerVars, queryVars, history, NoVersion, NoEntry, EmptyCache, Origin, Moment

(* A counter may grow past the values a table holds.                       *)
LEMMA Widen ==
  ASSUME NEW S, NEW m \in Int, NEW n \in Int, m <= n, NEW f \in [S -> 0..m]
  PROVE  f \in [S -> 0..n]
<1>1. \A x \in S : f[x] \in 0..n
  OBVIOUS
<1> QED BY <1>1

(* The counters are natural numbers.                                       *)
LEMMA Counters == TypeOK => version \in Nat /\ inner \in Nat /\ shape \in Nat
  BY BoundsAreNat DEF TypeOK

(* The initial state satisfies the invariant.                              *)
LEMMA InitIInv == Init => IInv
<1> SUFFICES ASSUME Init PROVE IInv
  OBVIOUS
<1>1. TypeOK
  BY BoundsAreNat DEF Init, Start, TypeOK, QuerySteps
<1>2. HorizonInv /\ CacheInv
  BY DEF Init, Start, HorizonInv, CacheInv, EntriesMatchTheirTag, AtLeast, Exists
<1>3. AnswerInv /\ \A r \in Readers : QueryInv(r)
  BY DEF Init, Start, AnswerInv, AnswersAreFresh, QueryInv, Exists, AtLeast, Resolved, Holding
<1> QED BY <1>1, <1>2, <1>3 DEF IInv

(* A new version vouches for `latest`: what was true of older versions     *)
(* stays true when `latest` is no older than what the last one vouched for.*)
LEMMA BumpKeeps ==
  ASSUME IInv, NEW latest \in Moment, Bump(latest),
         AtLeast(latest, horizon[version]), latest.root <= inner, latest.shape <= shape,
         UNCHANGED <<inner, shape>>
  PROVE  /\ HorizonInv'
         /\ horizon' \in [0..version' -> Moment]
         /\ version' = version + 1
         /\ \A v \in 0..version : horizon'[v] = horizon[v]
         /\ horizon'[version'] = latest
         /\ strays' = {}
<1>1. /\ version \in Nat
      /\ horizon \in [0..version -> Moment]
      /\ version' = version + 1
      /\ horizon' = [v \in 0..version + 1 |-> IF v <= version THEN horizon[v] ELSE latest]
  BY DEF IInv, TypeOK, Bump
<1>2. /\ \A v \in 0..version : horizon'[v] = horizon[v]
      /\ horizon'[version + 1] = latest
      /\ horizon' \in [0..version + 1 -> Moment]
  BY <1>1
<1>3. \A u, v \in 0..version : u <= v => AtLeast(horizon[v], horizon[u])
  BY DEF IInv, HorizonInv
<1>4. \A u \in 0..version : AtLeast(latest, horizon[u])
  BY <1>1, <1>3 DEF AtLeast
<1>5. \A u, v \in 0..version + 1 : u <= v => AtLeast(horizon'[v], horizon'[u])
  <2> TAKE u, v \in 0..version + 1
  <2> HAVE u <= v
  <2>1. CASE v <= version
    BY <2>1, <1>1, <1>2, <1>3
  <2>2. CASE v = version + 1 /\ u <= version
    BY <2>2, <1>1, <1>2, <1>4
  <2>3. CASE v = version + 1 /\ u = version + 1
    BY <2>3, <1>2 DEF AtLeast
  <2> QED BY <1>1, <2>1, <2>2, <2>3
<1>6. latest.root >= 0 /\ latest.shape >= 0
  BY <1>1 DEF IInv, HorizonInv, AtLeast
<1>7. HorizonInv'
  BY <1>1, <1>2, <1>5, <1>6 DEF IInv, HorizonInv
<1> QED BY <1>1, <1>2, <1>7 DEF Bump

(* A cell write under the store's lock.                                    *)
LEMMA StoreWriteIInv ==
  ASSUME IInv, NEW w \in Writers, StoreWrite(w)
  PROVE  IInv'
<1>1. TypeOK'
  <2>0. TypeOK /\ inner \in 0..MaxWrites /\ inner < MaxWrites /\ inner' = inner + 1
    BY DEF IInv, TypeOK, StoreWrite
  <2>1. TypeOK /\ inner \in Nat /\ inner' = inner + 1 /\ inner' \in 0..MaxWrites
    BY <2>0, BoundsAreNat
  <2>2. wroot \in [Writers -> 0..inner'] /\ root \in [Readers -> 0..inner']
    <3>1. wroot \in [Writers -> 0..inner] /\ root \in [Readers -> 0..inner]
      BY <2>1 DEF TypeOK
    <3>2. inner \in Int /\ inner' \in Int /\ inner <= inner'
      BY <2>1
    <3> QED BY <3>1, <3>2, Widen
  <2>3. wroot' \in [Writers -> 0..inner'] /\ wpc' \in [Writers -> {"idle", "written"}]
    BY <2>1, <2>2 DEF TypeOK, StoreWrite
  <2> QED BY <2>1, <2>2, <2>3 DEF TypeOK, StoreWrite
<1>2. HorizonInv'
  BY DEF IInv, TypeOK, StoreWrite, HorizonInv, AtLeast
<1>3. CacheInv'
  BY DEF IInv, TypeOK, StoreWrite, CacheInv, EntriesMatchTheirTag, AtLeast, Exists
<1>4. AnswerInv'
  <2>1. inner \in Int /\ inner' = inner + 1 /\ \A r \in Readers : answer[r] \in Origin
    BY BoundsAreNat DEF IInv, TypeOK, StoreWrite
  <2>2. UNCHANGED <<rpc, answer, floor, shape>> /\ AnswersAreFresh /\ \A r \in Readers : Exists(answer[r])
    BY DEF IInv, AnswerInv, StoreWrite
  <2>3. AnswersAreFresh'
    BY <2>2 DEF AnswersAreFresh, AtLeast
  <2> QED BY <2>1, <2>2, <2>3 DEF AnswerInv, Exists
<1>5. \A r \in Readers : QueryInv(r)'
  <2>1. UNCHANGED <<version, shape, queryVars, horizon>> /\ \A r \in Readers : QueryInv(r)
    BY DEF IInv, StoreWrite
  <2> QED BY <2>1 DEF QueryInv, AtLeast, Resolved, Holding
<1> QED BY <1>1, <1>2, <1>3, <1>4, <1>5 DEF IInv

(* The bump that follows a cell write.                                     *)
LEMMA PublishIInv ==
  ASSUME IInv, NEW w \in Writers, Publish(w)
  PROVE  IInv'
<1> DEFINE latest == [horizon[version] EXCEPT !.root = Larger(@, wroot[w])]
<1>1. /\ version \in Nat /\ inner \in Int /\ shape \in Int
      /\ horizon[version] \in Moment
      /\ wroot[w] \in 0..inner
  BY BoundsAreNat DEF IInv, TypeOK
<1>2. /\ latest \in Moment
      /\ AtLeast(latest, horizon[version])
      /\ latest.root <= inner /\ latest.shape <= shape
      /\ latest.shape = horizon[version].shape
  BY <1>1 DEF IInv, HorizonInv, AtLeast, Larger
<1>3. Bump(latest) /\ UNCHANGED <<inner, shape>>
  BY DEF Publish
<1> HIDE DEF latest
<1>4. /\ HorizonInv'
      /\ horizon' \in [0..version' -> Moment]
      /\ version' = version + 1
      /\ \A v \in 0..version : horizon'[v] = horizon[v]
      /\ horizon'[version'] = latest
      /\ strays' = {}
  BY <1>2, <1>3, BumpKeeps
<1>5. TypeOK'
  <2>0. TypeOK
    BY DEF IInv
  <2>1. TypeOK /\ version' \in Nat /\ cacheVersion \in NoVersion..version'
    <3>1. cacheVersion \in NoVersion..version
      BY <2>0 DEF TypeOK
    <3> QED BY <1>1, <1>4, <2>0, <3>1
  <2>2. at \in [Readers -> 0..version']
    BY <1>1, <1>4, <2>0, Widen DEF TypeOK
  <2>3. wpc' \in [Writers -> {"idle", "written"}] /\ wroot' \in [Writers -> 0..inner]
    BY <1>1, <2>1 DEF TypeOK, Publish
  <2> QED BY <1>4, <2>1, <2>2, <2>3 DEF TypeOK, Publish
<1>6. CacheInv'
  BY <1>1, <1>4 DEF IInv, TypeOK, Publish, CacheInv, EntriesMatchTheirTag, AtLeast, Exists
<1>7. AnswerInv'
  BY <1>4 DEF IInv, Publish, AnswerInv, AnswersAreFresh, AtLeast, Exists
<1>8. ASSUME NEW r \in Readers PROVE QueryInv(r)'
  <2>1. at[r] \in 0..version /\ floor[r] \in Moment /\ horizon[version] \in Moment
    BY <1>1 DEF IInv, TypeOK
  <2>2. QueryInv(r)
    BY DEF IInv
  <2>3. UNCHANGED <<rpc, at, floor, edition, root, answer>> /\ horizon'[at[r]] = horizon[at[r]]
    BY <2>1, <1>4 DEF Publish
  <2>4. AtLeast(horizon'[version'], floor[r])
    BY <2>1, <2>2, <1>2, <1>4 DEF QueryInv, AtLeast
  <2> QED BY <2>2, <2>3, <2>4, <1>2, <1>4 DEF QueryInv, Resolved, Holding
<1> QED BY <1>4, <1>5, <1>6, <1>7, <1>8 DEF IInv

(* A structural edit, not announced yet.                                   *)
LEMMA EditIInv ==
  ASSUME IInv, Edit
  PROVE  IInv'
<1>1. TypeOK'
  <2>1. TypeOK /\ shape \in Nat /\ shape' = shape + 1 /\ shape' \in 0..MaxEdits
    BY BoundsAreNat DEF IInv, TypeOK, Edit
  <2>2. edition \in [Readers -> 0..shape']
    BY <2>1, Widen DEF TypeOK
  <2> QED BY <2>1, <2>2 DEF TypeOK, Edit
<1>2. HorizonInv' /\ CacheInv'
  BY DEF IInv, TypeOK, Edit, HorizonInv, CacheInv, EntriesMatchTheirTag, AtLeast, Exists
<1>3. AnswerInv'
  <2>1. shape \in Int /\ shape' = shape + 1 /\ \A r \in Readers : answer[r] \in Origin
    BY BoundsAreNat DEF IInv, TypeOK, Edit
  <2>2. UNCHANGED <<rpc, answer, floor, inner>> /\ AnswersAreFresh /\ \A r \in Readers : Exists(answer[r])
    BY DEF IInv, AnswerInv, Edit
  <2>3. AnswersAreFresh'
    BY <2>2 DEF AnswersAreFresh, AtLeast
  <2> QED BY <2>1, <2>2, <2>3 DEF AnswerInv, Exists
<1>4. \A r \in Readers : QueryInv(r)'
  <2>1. UNCHANGED <<version, queryVars, horizon>> /\ \A r \in Readers : QueryInv(r)
    BY DEF IInv, Edit
  <2> QED BY <2>1 DEF QueryInv, AtLeast, Resolved, Holding
<1> QED BY <1>1, <1>2, <1>3, <1>4 DEF IInv

(* The bump that announces the edits, while no query is in progress.       *)
LEMMA ClearCacheIInv ==
  ASSUME IInv, ClearCache
  PROVE  IInv'
<1> DEFINE latest == [horizon[version] EXCEPT !.shape = shape]
<1>1. /\ version \in Nat /\ inner \in Int /\ shape \in Int
      /\ horizon[version] \in Moment
  BY BoundsAreNat DEF IInv, TypeOK
<1>2. /\ latest \in Moment
      /\ AtLeast(latest, horizon[version])
      /\ latest.root <= inner /\ latest.shape <= shape
  BY <1>1 DEF IInv, HorizonInv, AtLeast
<1>3. Bump(latest) /\ UNCHANGED <<inner, shape>>
  BY DEF ClearCache
<1> HIDE DEF latest
<1>4. /\ HorizonInv'
      /\ horizon' \in [0..version' -> Moment]
      /\ version' = version + 1
      /\ \A v \in 0..version : horizon'[v] = horizon[v]
      /\ horizon'[version'] = latest
      /\ strays' = {}
  BY <1>2, <1>3, BumpKeeps
<1>5. TypeOK'
  <2>0. TypeOK
    BY DEF IInv
  <2>1. TypeOK /\ version' \in Nat /\ cacheVersion \in NoVersion..version'
    <3>1. cacheVersion \in NoVersion..version
      BY <2>0 DEF TypeOK
    <3> QED BY <1>1, <1>4, <2>0, <3>1
  <2>2. at \in [Readers -> 0..version']
    BY <1>1, <1>4, <2>0, Widen DEF TypeOK
  <2> QED BY <1>4, <2>1, <2>2 DEF TypeOK, ClearCache
<1>6. CacheInv'
  BY <1>1, <1>4 DEF IInv, TypeOK, ClearCache, CacheInv, EntriesMatchTheirTag, AtLeast, Exists
<1>7. AnswerInv'
  BY <1>4 DEF IInv, ClearCache, AnswerInv, AnswersAreFresh, AtLeast, Exists
<1>8. ASSUME NEW r \in Readers PROVE QueryInv(r)'
  <2>1. floor[r] \in Moment /\ horizon[version] \in Moment
    BY <1>1 DEF IInv, TypeOK
  <2>2. QueryInv(r) /\ rpc'[r] = "idle"
    BY DEF IInv, ClearCache
  <2> QED BY <2>1, <2>2, <1>1, <1>2, <1>4 DEF ClearCache, QueryInv, AtLeast, Resolved, Holding
<1> QED BY <1>4, <1>5, <1>6, <1>7, <1>8 DEF IInv

(* A query is called: its floor is what is published at this moment. *)
LEMMA CallIInv ==
  ASSUME IInv, NEW r \in Readers, NEW k \in Keys, Call(r, k)
  PROVE  IInv'
<1>1. TypeOK'
  <2>1. TypeOK /\ version \in Nat /\ inner \in Nat /\ shape \in Nat
    BY Counters DEF IInv
  <2>2. rpc' \in [Readers -> QuerySteps \cup {"idle"}]
    BY <2>1 DEF TypeOK, Call, QuerySteps
  <2>3. /\ key' \in [Readers -> Keys]
        /\ floor' \in [Readers -> Moment]
        /\ answer' \in [Readers -> Origin]
    <3>1. key \in [Readers -> Keys] /\ floor \in [Readers -> Moment] /\ answer \in [Readers -> Origin]
      BY <2>1 DEF TypeOK
    <3>2. horizon[version] \in Moment /\ NoEntry \in Origin
      BY <2>1 DEF TypeOK
    <3> QED BY <3>1, <3>2 DEF Call
  <2> QED BY <2>1, <2>2, <2>3 DEF TypeOK, Call
<1>2. HorizonInv' /\ CacheInv'
  BY DEF IInv, Call, HorizonInv, CacheInv, EntriesMatchTheirTag, AtLeast, Exists
<1>3. /\ \A q \in Readers : q # r => rpc'[q] = rpc[q] /\ answer'[q] = answer[q] /\ floor'[q] = floor[q]
      /\ rpc'[r] = "resolve" /\ answer'[r] = NoEntry /\ floor'[r] = horizon[version]
      /\ UNCHANGED <<inner, shape, version, horizon, edition, at, root>>
  BY DEF IInv, TypeOK, Call
<1>4. /\ inner \in Nat /\ shape \in Nat /\ version \in Nat
      /\ horizon[version] \in Moment /\ horizon[version].root >= 0 /\ horizon[version].shape >= 0
  BY BoundsAreNat DEF IInv, TypeOK, HorizonInv
<1>5. AnswerInv'
  BY <1>3, <1>4 DEF IInv, AnswerInv, AnswersAreFresh, Exists
<1>6. ASSUME NEW q \in Readers PROVE QueryInv(q)'
  <2>1. CASE q = r
    BY <2>1, <1>3, <1>4 DEF QueryInv, AtLeast, Resolved, Holding
  <2>2. CASE q # r
    BY <2>2, <1>3 DEF IInv, QueryInv, Resolved, Holding
  <2> QED BY <2>1, <2>2
<1> QED BY <1>1, <1>2, <1>5, <1>6 DEF IInv

(* A step of one query is no step of another.                              *)
SameQuery(q) ==
    /\ rpc'[q] = rpc[q] /\ edition'[q] = edition[q] /\ stray'[q] = stray[q]
    /\ at'[q] = at[q] /\ root'[q] = root[q] /\ answer'[q] = answer[q]

LocalsTyped ==
    /\ rpc \in [Readers -> QuerySteps \cup {"idle"}]
    /\ edition \in [Readers -> 0..shape]
    /\ stray \in [Readers -> BOOLEAN]
    /\ at \in [Readers -> 0..version]
    /\ root \in [Readers -> 0..inner]
    /\ answer \in [Readers -> Origin]

(* What a call that returns leaves behind.                                 *)
LEMMA ReturnIs ==
  ASSUME TypeOK, NEW r \in Readers, NEW total \in Origin, Return(r, total),
         UNCHANGED <<inner, version, shape>>
  PROVE  /\ LocalsTyped'
         /\ rpc'[r] = "idle" /\ answer'[r] = total
         /\ \A q \in Readers : q # r => SameQuery(q)
<1>1. version \in Nat /\ inner \in Nat /\ shape \in Nat
  BY Counters
<1>2. LocalsTyped
  BY DEF TypeOK, LocalsTyped
<1>3. LocalsTyped'
  BY <1>1, <1>2 DEF LocalsTyped, Return
<1> QED BY <1>2, <1>3 DEF LocalsTyped, Return, SameQuery

(* What a call that goes on leaves behind.                                 *)
LEMMA ContinueIs ==
  ASSUME TypeOK, NEW r \in Readers, NEW pc \in QuerySteps, Continue(r, pc),
         UNCHANGED <<inner, version, shape>>
  PROVE  /\ LocalsTyped'
         /\ rpc'[r] = pc
         /\ UNCHANGED <<edition, stray, at, root, answer>>
         /\ \A q \in Readers : q # r => SameQuery(q)
  BY DEF TypeOK, LocalsTyped, Continue, SameQuery

(* A call returns with nothing, or with a total that is fresh.             *)
LEMMA ReturnIInv ==
  ASSUME IInv, NEW r \in Readers, NEW total \in Origin, Return(r, total),
         total # NoEntry => AtLeast(total, floor[r]), Exists(total),
         UNCHANGED <<inner, version, shape, floor, horizon>>
  PROVE  AnswerInv' /\ \A q \in Readers : QueryInv(q)'
<1>1. /\ rpc'[r] = "idle" /\ answer'[r] = total
      /\ \A q \in Readers : q # r => SameQuery(q)
  BY ReturnIs DEF IInv
<1>2. AnswerInv'
  <2>1. AnswersAreFresh /\ \A q \in Readers : Exists(answer[q])
    BY DEF IInv, AnswerInv
  <2>2. AnswersAreFresh'
    BY <1>1, <2>1 DEF AnswersAreFresh, SameQuery, AtLeast
  <2>3. \A q \in Readers : Exists(answer[q])'
    BY <1>1, <2>1 DEF SameQuery, Exists
  <2> QED BY <2>2, <2>3 DEF AnswerInv
<1>3. ASSUME NEW q \in Readers PROVE QueryInv(q)'
  <2>1. QueryInv(q)
    BY DEF IInv
  <2>2. CASE q = r
    BY <1>1, <2>1, <2>2 DEF QueryInv, AtLeast, Resolved, Holding
  <2>3. CASE q # r
    BY <1>1, <2>1, <2>3 DEF QueryInv, SameQuery, AtLeast, Resolved, Holding
  <2> QED BY <2>2, <2>3
<1> QED BY <1>2, <1>3

(* A call goes on: after a miss, or with a total to insert.                *)
LEMMA ContinueIInv ==
  ASSUME IInv, NEW r \in Readers, NEW pc \in QuerySteps, Continue(r, pc),
         \/ rpc[r] = "lookup" /\ pc = "version"
         \/ rpc[r] = "check" /\ pc = "insert",
         UNCHANGED <<inner, version, shape, floor, horizon>>
  PROVE  AnswerInv' /\ \A q \in Readers : QueryInv(q)'
<1>1. /\ rpc'[r] = pc /\ pc # "idle" /\ rpc[r] # "idle"
      /\ UNCHANGED <<edition, at, root, answer>>
      /\ \A q \in Readers : q # r => rpc'[q] = rpc[q]
  BY ContinueIs DEF IInv, SameQuery
<1>2. AnswerInv'
  <2>1. AnswersAreFresh /\ \A q \in Readers : Exists(answer[q])
    BY DEF IInv, AnswerInv
  <2>2. AnswersAreFresh'
    BY <1>1, <2>1 DEF AnswersAreFresh, AtLeast
  <2> QED BY <1>1, <2>1, <2>2 DEF AnswerInv, Exists
<1>3. ASSUME NEW q \in Readers PROVE QueryInv(q)'
  <2>1. QueryInv(q)
    BY DEF IInv
  <2>2. CASE q = r
    BY <1>1, <2>1, <2>2 DEF QueryInv, AtLeast, Resolved, Holding
  <2>3. CASE q # r
    BY <1>1, <2>1, <2>3 DEF QueryInv, AtLeast, Resolved, Holding
  <2> QED BY <2>2, <2>3
<1> QED BY <1>2, <1>3

(* The hierarchy is read: it is at least what has been announced. *)
LEMMA ResolveIInv ==
  ASSUME IInv, NEW r \in Readers, Resolve(r)
  PROVE  IInv'
<1>1. TypeOK /\ version \in Nat /\ inner \in Nat /\ shape \in Nat /\ rpc[r] = "resolve"
  BY Counters DEF IInv, Resolve
<1>2. UNCHANGED <<storeVars, shape, writerVars, key, floor, history>>
  BY DEF Resolve
<1>3. HorizonInv' /\ CacheInv'
  BY <1>2 DEF IInv, HorizonInv, CacheInv, EntriesMatchTheirTag, AtLeast, Exists
<1>4. CASE Return(r, NoEntry)
  <2>1. NoEntry \in Origin /\ Exists(NoEntry)
    BY <1>1 DEF Exists
  <2>2. LocalsTyped'
    BY <1>1, <1>2, <1>4, <2>1, ReturnIs
  <2>3. AnswerInv' /\ \A q \in Readers : QueryInv(q)'
    BY <1>2, <1>4, <2>1, ReturnIInv
  <2> QED BY <1>1, <1>2, <1>3, <2>2, <2>3 DEF IInv, TypeOK, LocalsTyped
<1>5. CASE ~ Return(r, NoEntry)
  <2>1. PICK unknown \in BOOLEAN :
          /\ edition' = [edition EXCEPT ![r] = shape]
          /\ stray' = [stray EXCEPT ![r] = unknown]
          /\ rpc' = [rpc EXCEPT ![r] = "load"]
          /\ UNCHANGED <<at, root, answer>>
    BY <1>5 DEF Resolve
  <2>2. LocalsTyped'
    <3>1. edition' \in [Readers -> 0..shape] /\ stray' \in [Readers -> BOOLEAN]
      BY <1>1, <2>1 DEF TypeOK
    <3>2. rpc' \in [Readers -> QuerySteps \cup {"idle"}]
      BY <1>1, <2>1 DEF TypeOK, QuerySteps
    <3> QED BY <1>1, <1>2, <2>1, <3>1, <3>2 DEF TypeOK, LocalsTyped
  <2>3. /\ rpc'[r] = "load" /\ edition'[r] = shape
        /\ \A q \in Readers : q # r => rpc'[q] = rpc[q] /\ edition'[q] = edition[q]
    BY <1>1, <2>1 DEF TypeOK
  <2>4. AnswerInv'
    <3>1. AnswersAreFresh'
      BY <1>2, <2>1, <2>3 DEF IInv, AnswerInv, AnswersAreFresh, AtLeast
    <3> QED BY <1>2, <2>1, <3>1 DEF IInv, AnswerInv, Exists
  <2>5. ASSUME NEW q \in Readers PROVE QueryInv(q)'
    <3>1. QueryInv(q) /\ HorizonInv
      BY DEF IInv
    <3>2. CASE q = r
      BY <1>1, <1>2, <2>1, <2>3, <3>1, <3>2 DEF QueryInv, HorizonInv, AtLeast, Resolved, Holding
    <3>3. CASE q # r
      BY <1>2, <2>1, <2>3, <3>1, <3>3 DEF QueryInv, AtLeast, Resolved, Holding
    <3> QED BY <3>2, <3>3
  <2> QED BY <1>1, <1>2, <1>3, <2>2, <2>4, <2>5 DEF IInv, TypeOK, LocalsTyped
<1> QED BY <1>4, <1>5

(* cache_get reads the version: it vouches for the floor of the query. *)
LEMMA LoadVersionIInv ==
  ASSUME IInv, NEW r \in Readers, LoadVersion(r)
  PROVE  IInv'
<1>1. TypeOK'
  <2>1. TypeOK /\ version \in Nat /\ inner \in Nat /\ shape \in Nat
    BY Counters DEF IInv
  <2>2. rpc' \in [Readers -> QuerySteps \cup {"idle"}]
    BY <2>1 DEF TypeOK, LoadVersion, QuerySteps
  <2>3. at' \in [Readers -> 0..version]
    BY <2>1 DEF TypeOK, LoadVersion
  <2> QED BY <2>1, <2>2, <2>3 DEF TypeOK, LoadVersion
<1>2. HorizonInv' /\ CacheInv'
  BY DEF IInv, LoadVersion, HorizonInv, CacheInv, EntriesMatchTheirTag, AtLeast, Exists
<1>3. AnswerInv'
  <2>1. rpc[r] # "idle" /\ rpc'[r] # "idle" /\ UNCHANGED <<answer, floor, inner, shape>>
    BY DEF IInv, TypeOK, LoadVersion
  <2>2. \A q \in Readers : q # r => rpc'[q] = rpc[q]
    BY DEF IInv, TypeOK, LoadVersion
  <2> QED BY <2>1, <2>2 DEF IInv, AnswerInv, AnswersAreFresh, Exists
<1>4. ASSUME NEW q \in Readers PROVE QueryInv(q)'
  BY DEF IInv, TypeOK, LoadVersion, HorizonInv, QueryInv, AtLeast, Resolved, Holding
<1> QED BY <1>1, <1>2, <1>3, <1>4 DEF IInv

(* The version a total is computed at is read. *)
LEMMA TakeVersionIInv ==
  ASSUME IInv, NEW r \in Readers, TakeVersion(r)
  PROVE  IInv'
<1>1. TypeOK'
  <2>1. TypeOK /\ version \in Nat /\ inner \in Nat /\ shape \in Nat
    BY Counters DEF IInv
  <2>2. rpc' \in [Readers -> QuerySteps \cup {"idle"}]
    BY <2>1 DEF TypeOK, TakeVersion, QuerySteps
  <2>3. at' \in [Readers -> 0..version]
    BY <2>1 DEF TypeOK, TakeVersion
  <2> QED BY <2>1, <2>2, <2>3 DEF TypeOK, TakeVersion
<1>2. HorizonInv' /\ CacheInv'
  BY DEF IInv, TakeVersion, HorizonInv, CacheInv, EntriesMatchTheirTag, AtLeast, Exists
<1>3. AnswerInv'
  <2>1. rpc[r] # "idle" /\ rpc'[r] # "idle" /\ UNCHANGED <<answer, floor, inner, shape>>
    BY DEF IInv, TypeOK, TakeVersion
  <2>2. \A q \in Readers : q # r => rpc'[q] = rpc[q]
    BY DEF IInv, TypeOK, TakeVersion
  <2> QED BY <2>1, <2>2 DEF IInv, AnswerInv, AnswersAreFresh, Exists
<1>4. ASSUME NEW q \in Readers PROVE QueryInv(q)'
  BY DEF IInv, TypeOK, TakeVersion, HorizonInv, QueryInv, AtLeast, Resolved, Holding
<1> QED BY <1>1, <1>2, <1>3, <1>4 DEF IInv

(* The snapshot is taken after its version was read. *)
LEMMA TakeSnapshotIInv ==
  ASSUME IInv, NEW r \in Readers, TakeSnapshot(r)
  PROVE  IInv'
<1>1. TypeOK'
  <2>1. TypeOK /\ version \in Nat /\ inner \in Nat /\ shape \in Nat
    BY Counters DEF IInv
  <2>2. rpc' \in [Readers -> QuerySteps \cup {"idle"}]
    BY <2>1 DEF TypeOK, TakeSnapshot, QuerySteps
  <2>3. root' \in [Readers -> 0..inner]
    BY <2>1 DEF TypeOK, TakeSnapshot
  <2> QED BY <2>1, <2>2, <2>3 DEF TypeOK, TakeSnapshot
<1>2. HorizonInv' /\ CacheInv'
  BY DEF IInv, TakeSnapshot, HorizonInv, CacheInv, EntriesMatchTheirTag, AtLeast, Exists
<1>3. AnswerInv'
  <2>1. rpc[r] # "idle" /\ rpc'[r] # "idle" /\ UNCHANGED <<answer, floor, inner, shape>>
    BY DEF IInv, TypeOK, TakeSnapshot
  <2>2. \A q \in Readers : q # r => rpc'[q] = rpc[q]
    BY DEF IInv, TypeOK, TakeSnapshot
  <2> QED BY <2>1, <2>2 DEF IInv, AnswerInv, AnswersAreFresh, Exists
<1>4. inner >= horizon[at[r]].root
  <2>1. /\ at[r] \in 0..version /\ version \in 0..version /\ inner \in Nat
        /\ horizon[at[r]] \in Moment /\ horizon[version] \in Moment
    BY Counters DEF IInv, TypeOK
  <2>2. AtLeast(horizon[version], horizon[at[r]]) /\ horizon[version].root <= inner
    BY <2>1 DEF IInv, HorizonInv
  <2> QED BY <2>1, <2>2 DEF AtLeast
<1>5. ASSUME NEW q \in Readers PROVE QueryInv(q)'
  <2>1. /\ UNCHANGED <<version, horizon, at, edition, floor, answer>>
        /\ q # r => rpc'[q] = rpc[q] /\ root'[q] = root[q]
        /\ rpc[r] = "snapshot" /\ rpc'[r] = "check" /\ root'[r] = inner
    BY DEF IInv, TypeOK, TakeSnapshot
  <2>2. QueryInv(q)
    BY DEF IInv
  <2> QED BY <2>1, <2>2, <1>4 DEF QueryInv, Resolved, Holding
<1> QED BY <1>1, <1>2, <1>3, <1>5 DEF IInv

(* What a reader is about to file or return is typed, exists and is fresh. *)
LEMMA TotalIsFresh ==
  ASSUME IInv, NEW r \in Readers, rpc[r] \in {"check", "insert"}
  PROVE  /\ Total(r) \in Origin /\ Total(r) # NoEntry /\ Exists(Total(r))
         /\ AtLeast(Total(r), horizon[at[r]])
         /\ AtLeast(Total(r), floor[r])
<1>1. /\ at[r] \in 0..version /\ root[r] \in 0..inner /\ edition[r] \in 0..shape
      /\ stray[r] \in BOOLEAN
      /\ inner \in Nat /\ shape \in Nat /\ version \in Nat
      /\ horizon[at[r]] \in Moment /\ horizon[version] \in Moment /\ floor[r] \in Moment
  BY Counters DEF IInv, TypeOK
<1>2. Total(r) \in Origin /\ Total(r).root = root[r] /\ Total(r).shape = edition[r]
  BY <1>1 DEF Total
<1>3. Total(r) # NoEntry /\ Exists(Total(r))
  BY <1>1, <1>2 DEF Exists
<1>4. AtLeast(horizon[version], horizon[at[r]])
  BY <1>1 DEF IInv, HorizonInv
<1>5. /\ edition[r] >= horizon[version].shape
      /\ root[r] >= horizon[at[r]].root
      /\ AtLeast(horizon[at[r]], floor[r])
  BY DEF IInv, QueryInv, Resolved, Holding
<1>6. AtLeast(Total(r), horizon[at[r]])
  BY <1>1, <1>2, <1>4, <1>5 DEF AtLeast
<1>7. AtLeast(Total(r), floor[r])
  BY <1>1, <1>2, <1>5, <1>6 DEF AtLeast
<1> QED BY <1>2, <1>3, <1>6, <1>7

(* A total whose version has passed is returned and not stored. *)
LEMMA CheckVersionIInv ==
  ASSUME IInv, NEW r \in Readers, CheckVersion(r)
  PROVE  IInv'
<1>1. TypeOK /\ rpc[r] = "check"
  BY DEF IInv, CheckVersion
<1>2. UNCHANGED <<storeVars, shape, writerVars, key, floor, history>>
  BY DEF CheckVersion
<1>3. HorizonInv' /\ CacheInv'
  BY <1>2 DEF IInv, HorizonInv, CacheInv, EntriesMatchTheirTag, AtLeast, Exists
<1>4. LocalsTyped' /\ AnswerInv' /\ \A q \in Readers : QueryInv(q)'
  <2>1. CASE version = at[r]
    <3>1. Continue(r, "insert") /\ "insert" \in QuerySteps
      BY <2>1 DEF CheckVersion, QuerySteps
    <3> QED BY <1>1, <1>2, <3>1, ContinueIs, ContinueIInv
  <2>2. CASE version # at[r]
    <3>1. Return(r, Total(r))
      BY <2>2 DEF CheckVersion
    <3> QED BY <1>1, <1>2, <3>1, TotalIsFresh, ReturnIs, ReturnIInv
  <2> QED BY <2>1, <2>2
<1> QED BY <1>1, <1>2, <1>3, <1>4 DEF IInv, TypeOK, LocalsTyped

(* Whatever version a reader tags the cache with, the entries that stay    *)
(* are worth that tag.                                                     *)
LEMMA CacheAtMatches ==
  ASSUME IInv, NEW v \in 0..version
  PROVE  /\ CacheAt(v) \in [Keys -> Origin]
         /\ \A k \in Keys : Exists(CacheAt(v)[k])
         /\ \A k \in Keys : CacheAt(v)[k] # NoEntry => AtLeast(CacheAt(v)[k], horizon[v])
<1>1. inner \in Nat /\ shape \in Nat
  BY BoundsAreNat DEF IInv, TypeOK
<1>2. CASE cacheVersion = v
  BY <1>1, <1>2 DEF IInv, TypeOK, CacheInv, EntriesMatchTheirTag, CacheAt
<1>3. CASE cacheVersion # v
  BY <1>1, <1>3 DEF CacheAt, Exists
<1> QED BY <1>2, <1>3

(* A hit answers with an entry worth the version the query had loaded.     *)
LEMMA LookupIInv ==
  ASSUME IInv, NEW r \in Readers, Lookup(r)
  PROVE  IInv'
<1>1. TypeOK /\ rpc[r] = "lookup" /\ at[r] \in 0..version /\ key[r] \in Keys /\ version \in Nat
  BY Counters DEF IInv, TypeOK, Lookup
<1>2. /\ cache' = CacheAt(at[r])
      /\ cacheVersion' = at[r]
      /\ UNCHANGED <<inner, version, shape, writerVars, key, floor, history>>
  BY DEF Lookup
<1>3. /\ cache' \in [Keys -> Origin]
      /\ \A k \in Keys : Exists(cache'[k])
      /\ \A k \in Keys : cache'[k] # NoEntry => AtLeast(cache'[k], horizon[at[r]])
  BY <1>1, <1>2, CacheAtMatches
<1>4. HorizonInv' /\ CacheInv'
  BY <1>1, <1>2, <1>3 DEF IInv, HorizonInv, CacheInv, EntriesMatchTheirTag, AtLeast, Exists
<1>5. LocalsTyped' /\ AnswerInv' /\ \A q \in Readers : QueryInv(q)'
  <2>1. CASE cache'[key[r]] = NoEntry
    <3>1. Continue(r, "version") /\ "version" \in QuerySteps
      BY <2>1 DEF Lookup, QuerySteps
    <3> QED BY <1>1, <1>2, <3>1, ContinueIs, ContinueIInv
  <2>2. CASE cache'[key[r]] # NoEntry
    <3> DEFINE total == cache'[key[r]]
    <3>1. Return(r, total)
      BY <2>2 DEF Lookup
    <3>2. total \in Origin /\ Exists(total) /\ AtLeast(total, horizon[at[r]])
      BY <1>1, <1>3, <2>2
    <3>3. horizon[at[r]] \in Moment /\ floor[r] \in Moment /\ AtLeast(horizon[at[r]], floor[r])
      BY <1>1 DEF IInv, TypeOK, QueryInv, Holding
    <3>4. AtLeast(total, floor[r])
      BY <3>2, <3>3 DEF AtLeast
    <3> HIDE DEF total
    <3> QED BY <1>1, <1>2, <3>1, <3>2, <3>4, ReturnIs, ReturnIInv
  <2> QED BY <2>1, <2>2
<1>6. TypeOK'
  <2>1. cacheVersion' \in NoVersion..version
    BY <1>1, <1>2
  <2> QED BY <1>1, <1>2, <1>3, <1>5, <2>1 DEF TypeOK, LocalsTyped
<1> QED BY <1>4, <1>5, <1>6 DEF IInv

(* The total is worth the version it is filed under and is a fresh answer. *)
LEMMA InsertIInv ==
  ASSUME IInv, NEW r \in Readers, Insert(r)
  PROVE  IInv'
<1>1. TypeOK /\ rpc[r] = "insert" /\ at[r] \in 0..version /\ key[r] \in Keys /\ version \in Nat
  BY Counters DEF IInv, TypeOK, Insert
<1>2. /\ cache' = [CacheAt(at[r]) EXCEPT ![key[r]] = Total(r)]
      /\ cacheVersion' = at[r]
      /\ Return(r, Total(r))
      /\ UNCHANGED <<inner, version, shape, writerVars, key, floor, history>>
  BY DEF Insert
<1>3. /\ Total(r) \in Origin /\ Total(r) # NoEntry /\ Exists(Total(r))
      /\ AtLeast(Total(r), horizon[at[r]])
      /\ AtLeast(Total(r), floor[r])
  BY <1>1, TotalIsFresh
<1>4. /\ cache' \in [Keys -> Origin]
      /\ \A k \in Keys : Exists(cache'[k])
      /\ \A k \in Keys : cache'[k] # NoEntry => AtLeast(cache'[k], horizon[at[r]])
  <2>1. /\ CacheAt(at[r]) \in [Keys -> Origin]
        /\ \A k \in Keys : Exists(CacheAt(at[r])[k])
        /\ \A k \in Keys : CacheAt(at[r])[k] # NoEntry => AtLeast(CacheAt(at[r])[k], horizon[at[r]])
    BY <1>1, CacheAtMatches
  <2>2. cache' \in [Keys -> Origin]
    BY <2>1, <1>2, <1>3
  <2>3. \A k \in Keys : cache'[k] = IF k = key[r] THEN Total(r) ELSE CacheAt(at[r])[k]
    BY <2>1, <1>2
  <2> QED BY <2>1, <2>2, <2>3, <1>3
<1>5. HorizonInv' /\ CacheInv'
  BY <1>1, <1>2, <1>4 DEF IInv, HorizonInv, CacheInv, EntriesMatchTheirTag, AtLeast, Exists
<1>6. LocalsTyped' /\ AnswerInv' /\ \A q \in Readers : QueryInv(q)'
  BY <1>1, <1>2, <1>3, ReturnIs, ReturnIInv
<1>7. TypeOK'
  <2>1. cacheVersion' \in NoVersion..version
    BY <1>1, <1>2
  <2> QED BY <1>1, <1>2, <1>4, <1>6, <2>1 DEF TypeOK, LocalsTyped
<1> QED BY <1>5, <1>6, <1>7 DEF IInv

(* Every step keeps the invariant.                                         *)
LEMMA NextIInv == IInv /\ [Next]_vars => IInv'
<1> SUFFICES ASSUME IInv, [Next]_vars PROVE IInv'
  OBVIOUS
<1>1. ASSUME NEW w \in Writers, StoreWrite(w) \/ Publish(w) PROVE IInv'
  BY <1>1, StoreWriteIInv, PublishIInv
<1>2. CASE Edit \/ ClearCache
  BY <1>2, EditIInv, ClearCacheIInv
<1>3. ASSUME NEW r \in Readers, ReaderStep(r) PROVE IInv'
  BY <1>3, CallIInv, ResolveIInv, LoadVersionIInv, LookupIInv, TakeVersionIInv,
     TakeSnapshotIInv, CheckVersionIInv, InsertIInv DEF ReaderStep
<1>4. CASE UNCHANGED vars
  <2>1. UNCHANGED <<inner, version, cache, cacheVersion, shape, wpc, wroot, rpc, key,
                    edition, stray, at, root, answer, floor, horizon, strays>>
    BY <1>4 DEF vars
  <2>2. TypeOK'
    BY <2>1 DEF IInv, TypeOK
  <2>3. HorizonInv' /\ CacheInv' /\ AnswerInv'
    BY <2>1 DEF IInv, HorizonInv, CacheInv, AnswerInv, AnswersAreFresh, EntriesMatchTheirTag, AtLeast, Exists
  <2>4. \A r \in Readers : QueryInv(r)'
    BY <2>1 DEF IInv, QueryInv, AtLeast, Resolved, Holding
  <2> QED BY <2>2, <2>3, <2>4 DEF IInv
<1> QED BY <1>1, <1>2, <1>3, <1>4 DEF Next, WriterStep

THEOREM Invariance == Spec => []IInv
<1> QED BY InitIInv, NextIInv, PTL DEF Spec

(* Every version a thread holds or tags the cache with has existed, and    *)
(* every variable keeps its type.                                          *)
THEOREM TypeCorrect == Spec => []TypeOK
<1>1. IInv => TypeOK
  BY DEF IInv
<1> QED BY <1>1, Invariance, PTL

(* query_consolidated never answers with a total older than what had been  *)
(* published before it was called.                                         *)
THEOREM Freshness == Spec => []AnswersAreFresh
<1>1. IInv => AnswersAreFresh
  BY DEF IInv, AnswerInv
<1> QED BY <1>1, Invariance, PTL

(* A cached total is worth the version the cache is tagged with.           *)
THEOREM TagSoundness == Spec => []EntriesMatchTheirTag
<1>1. IInv => EntriesMatchTheirTag
  BY DEF IInv, CacheInv
<1> QED BY <1>1, Invariance, PTL

-------------------------------------------------------------------------------
(* The newest write is vouched for by the version, or its writer has yet   *)
(* to move the version.                                                    *)
NewestIsAnnounced ==
    horizon[version].root = inner \/ \E w \in Writers : wpc[w] = "written" /\ wroot[w] = inner

LEMMA PublishAnnounces ==
  ASSUME IInv, NewestIsAnnounced, NEW w \in Writers, Publish(w)
  PROVE  NewestIsAnnounced'
<1>1. /\ version \in Nat /\ inner \in Int /\ wroot[w] \in 0..inner
      /\ horizon[version] \in Moment /\ horizon[version].root <= inner
      /\ wpc \in [Writers -> {"idle", "written"}] /\ wroot \in [Writers -> 0..inner]
  BY Counters DEF IInv, TypeOK, HorizonInv
<1>2. /\ version' = version + 1 /\ inner' = inner
      /\ wroot' = [wroot EXCEPT ![w] = 0]
      /\ wpc' = [wpc EXCEPT ![w] = "idle"]
      /\ horizon'[version + 1].root = Larger(horizon[version].root, wroot[w])
  BY <1>1 DEF Publish, Bump
<1>3. CASE horizon[version].root = inner \/ wroot[w] = inner
  <2>1. Larger(horizon[version].root, wroot[w]) = inner
    BY <1>1, <1>3 DEF Larger
  <2> QED BY <2>1, <1>2 DEF NewestIsAnnounced
<1>4. CASE horizon[version].root # inner /\ wroot[w] # inner
  <2>1. PICK o \in Writers : wpc[o] = "written" /\ wroot[o] = inner
    BY <1>4 DEF NewestIsAnnounced
  <2>2. wpc'[o] = "written" /\ wroot'[o] = inner'
    BY <1>1, <1>2, <1>4, <2>1
  <2> QED BY <2>2 DEF NewestIsAnnounced
<1> QED BY <1>3, <1>4

LEMMA NextAnnounces == IInv /\ NewestIsAnnounced /\ [Next]_vars => NewestIsAnnounced'
<1> SUFFICES ASSUME IInv, NewestIsAnnounced, [Next]_vars PROVE NewestIsAnnounced'
  OBVIOUS
<1>1. ASSUME NEW w \in Writers, StoreWrite(w) PROVE NewestIsAnnounced'
  <2>1. wpc'[w] = "written" /\ wroot'[w] = inner'
    BY <1>1 DEF IInv, TypeOK, StoreWrite
  <2> QED BY <2>1 DEF NewestIsAnnounced
<1>2. ASSUME NEW w \in Writers, Publish(w) PROVE NewestIsAnnounced'
  BY <1>2, PublishAnnounces
<1>3. CASE ClearCache
  <2>1. horizon'[version'].root = horizon[version].root
    BY <1>3, Counters DEF IInv, TypeOK, ClearCache, Bump
  <2> QED BY <2>1, <1>3 DEF NewestIsAnnounced, ClearCache
<1>4. CASE \/ Edit
           \/ \E r \in Readers : ReaderStep(r)
           \/ UNCHANGED vars
  <2>1. UNCHANGED <<inner, version, wpc, wroot, horizon>>
    BY <1>4 DEF Edit, ReaderStep, Call, Resolve, LoadVersion, Lookup, TakeVersion,
       TakeSnapshot, CheckVersion, Insert, vars
  <2> QED BY <2>1 DEF NewestIsAnnounced
<1> QED BY <1>1, <1>2, <1>3, <1>4 DEF Next, WriterStep

(* A stray total of the current version, filed or to be filed, is one of   *)
(* those computed since the version last moved.                            *)
StraysAreKnown ==
    /\ cacheVersion = version => \A k \in Keys : cache[k].stray => k \in strays
    /\ \A r \in Readers :
           rpc[r] \in {"snapshot", "check", "insert"} /\ at[r] = version /\ stray[r]
           => key[r] \in strays

(* A new version has no entries and no total computed at it.               *)
LEMMA BumpForgetsStrays ==
  ASSUME IInv, version' = version + 1, UNCHANGED <<cache, cacheVersion, queryVars>>
  PROVE  StraysAreKnown'
<1>1. version \in Nat /\ cacheVersion \in NoVersion..version /\ \A r \in Readers : at[r] \in 0..version
  BY Counters DEF IInv, TypeOK
<1> QED BY <1>1 DEF StraysAreKnown

(* What stays in the cache when its tag moves is known.                    *)
LEMMA CacheAtStrays ==
  ASSUME StraysAreKnown, NEW k \in Keys, CacheAt(version)[k].stray
  PROVE  k \in strays
<1>1. CASE cacheVersion = version
  BY <1>1 DEF StraysAreKnown, CacheAt
<1>2. CASE cacheVersion # version
  BY <1>2 DEF CacheAt
<1> QED BY <1>1, <1>2

LEMMA ReaderKeepsStrays ==
  ASSUME IInv, StraysAreKnown, NEW r \in Readers, ReaderStep(r)
  PROVE  StraysAreKnown'
<1>1. TypeOK /\ UNCHANGED version
  BY DEF IInv, ReaderStep, Call, Resolve, LoadVersion, Lookup, TakeVersion,
     TakeSnapshot, CheckVersion, Insert
<1>2. CASE \E k \in Keys : Call(r, k)
  BY <1>1, <1>2 DEF TypeOK, Call, StraysAreKnown
<1>3. CASE Resolve(r)
  <2>1. UNCHANGED <<cache, cacheVersion, version, key, strays>>
    BY <1>3 DEF Resolve
  <2>2. rpc'[r] \in {"load", "idle"}
    BY <1>1, <1>3 DEF TypeOK, Resolve, Return
  <2>3. \A q \in Readers : q # r => rpc'[q] = rpc[q] /\ at'[q] = at[q] /\ stray'[q] = stray[q]
    <3>1. CASE Return(r, NoEntry)
      BY <1>1, <3>1 DEF TypeOK, Return
    <3>2. CASE ~ Return(r, NoEntry)
      BY <1>1, <1>3, <3>2 DEF TypeOK, Resolve
    <3> QED BY <3>1, <3>2
  <2> QED BY <2>1, <2>2, <2>3 DEF StraysAreKnown
<1>4. CASE LoadVersion(r) \/ TakeSnapshot(r)
  BY <1>1, <1>4 DEF TypeOK, LoadVersion, TakeSnapshot, StraysAreKnown
<1>5. CASE TakeVersion(r)
  <2>1. UNCHANGED <<cache, cacheVersion, version, key, stray>> /\ strays \subseteq strays'
    BY <1>5 DEF TakeVersion
  <2>2. stray[r] => key[r] \in strays'
    BY <1>5 DEF TakeVersion
  <2>3. \A q \in Readers : q # r => rpc'[q] = rpc[q] /\ at'[q] = at[q]
    BY <1>1, <1>5 DEF TypeOK, TakeVersion
  <2> QED BY <2>1, <2>2, <2>3 DEF StraysAreKnown
<1>6. ASSUME NEW total \in Origin, Return(r, total),
             UNCHANGED <<inner, version, shape, key, strays>>,
             cacheVersion' = version => \A k \in Keys : cache'[k].stray => k \in strays
      PROVE  StraysAreKnown'
  <2>1. rpc'[r] = "idle" /\ \A q \in Readers : q # r => SameQuery(q)
    BY <1>1, <1>6, ReturnIs
  <2> QED BY <1>6, <2>1 DEF StraysAreKnown, SameQuery
<1>7. ASSUME NEW pc \in QuerySteps, Continue(r, pc),
             \/ rpc[r] = "lookup" /\ pc = "version"
             \/ rpc[r] = "check" /\ pc = "insert",
             UNCHANGED <<inner, version, shape, key, strays>>,
             cacheVersion' = version => \A k \in Keys : cache'[k].stray => k \in strays
      PROVE  StraysAreKnown'
  <2>1. /\ rpc'[r] = pc /\ UNCHANGED <<stray, at>>
        /\ \A q \in Readers : q # r => rpc'[q] = rpc[q]
    BY <1>1, <1>7, ContinueIs DEF SameQuery
  <2> QED BY <1>7, <2>1 DEF StraysAreKnown
<1>8. CASE Lookup(r)
  <2>1. at[r] \in 0..version /\ key[r] \in Keys
    BY <1>1 DEF TypeOK
  <2>2. /\ cache' = CacheAt(at[r]) /\ cacheVersion' = at[r] /\ rpc[r] = "lookup"
        /\ UNCHANGED <<inner, version, shape, key, strays>>
    BY <1>8 DEF Lookup
  <2>3. cacheVersion' = version => \A k \in Keys : cache'[k].stray => k \in strays
    BY <2>2, CacheAtStrays
  <2>4. CASE Continue(r, "version")
    BY <2>2, <2>3, <2>4, <1>7 DEF QuerySteps
  <2>5. CASE Return(r, cache'[key[r]])
    <3>1. cache'[key[r]] \in Origin
      BY <2>1, <2>2, CacheAtMatches
    <3> QED BY <2>2, <2>3, <2>5, <3>1, <1>6
  <2> QED BY <1>8, <2>4, <2>5 DEF Lookup
<1>9. CASE CheckVersion(r)
  <2>1. rpc[r] = "check" /\ UNCHANGED <<inner, version, shape, key, strays, cache, cacheVersion>>
    BY <1>9 DEF CheckVersion
  <2>2. cacheVersion' = version => \A k \in Keys : cache'[k].stray => k \in strays
    BY <2>1 DEF StraysAreKnown
  <2>3. CASE Continue(r, "insert")
    BY <2>1, <2>2, <2>3, <1>7 DEF QuerySteps
  <2>4. CASE Return(r, Total(r))
    BY <2>1, <2>2, <2>4, <1>6, TotalIsFresh
  <2> QED BY <1>9, <2>3, <2>4 DEF CheckVersion
<1>10. CASE Insert(r)
  <2>1. /\ cache' = [CacheAt(at[r]) EXCEPT ![key[r]] = Total(r)]
        /\ cacheVersion' = at[r] /\ rpc[r] = "insert" /\ Return(r, Total(r))
        /\ UNCHANGED <<inner, version, shape, key, strays>>
    BY <1>10 DEF Insert
  <2>2. CacheAt(at[r]) \in [Keys -> Origin] /\ key[r] \in Keys /\ Total(r).stray = stray[r]
    BY <1>1, CacheAtMatches DEF TypeOK, Total
  <2>3. cacheVersion' = version => (Total(r).stray => key[r] \in strays)
    BY <2>1, <2>2 DEF StraysAreKnown
  <2>4. \A k \in Keys : cache'[k] = IF k = key[r] THEN Total(r) ELSE CacheAt(at[r])[k]
    BY <2>1, <2>2
  <2>5. cacheVersion' = version => \A k \in Keys : cache'[k].stray => k \in strays
    BY <2>1, <2>3, <2>4, CacheAtStrays
  <2> QED BY <2>1, <2>5, <1>6, TotalIsFresh
<1> QED BY <1>2, <1>3, <1>4, <1>5, <1>8, <1>9, <1>10 DEF ReaderStep

LEMMA NextKeepsStrays == IInv /\ StraysAreKnown /\ [Next]_vars => StraysAreKnown'
<1> SUFFICES ASSUME IInv, StraysAreKnown, [Next]_vars PROVE StraysAreKnown'
  OBVIOUS
<1>1. CASE WriterStep \/ Edit \/ UNCHANGED vars
  <2>1. CASE version' = version
    <3>1. UNCHANGED <<version, cache, cacheVersion, rpc, at, stray, key, strays>>
      <4>1. CASE \E w \in Writers : Publish(w)
        BY <2>1, <4>1, Counters DEF IInv, Publish, Bump
      <4> QED BY <1>1, <4>1 DEF WriterStep, StoreWrite, Edit, vars
    <3> QED BY <3>1 DEF StraysAreKnown
  <2>2. CASE version' # version
    <3>1. version' = version + 1 /\ UNCHANGED <<cache, cacheVersion, queryVars>>
      BY <1>1, <2>2 DEF WriterStep, StoreWrite, Publish, Bump, Edit, vars
    <3> QED BY <3>1, BumpForgetsStrays
  <2> QED BY <2>1, <2>2
<1>2. CASE ClearCache
  BY <1>2, BumpForgetsStrays DEF ClearCache, Bump
<1>3. ASSUME NEW r \in Readers, ReaderStep(r) PROVE StraysAreKnown'
  BY <1>3, ReaderKeepsStrays
<1> QED BY <1>1, <1>2, <1>3 DEF Next

(* Once every call has returned and the last edit is announced, what the   *)
(* cache would answer is of the latest cells and hierarchy, and the total  *)
(* of its key unless a stray query was computed since the version moved.   *)
THEOREM Quiescence == Spec => []QuiescentCacheIsExact
<1>1. Init => NewestIsAnnounced /\ StraysAreKnown
  <2>1. Init => NewestIsAnnounced
    BY DEF Init, Start, NewestIsAnnounced
  <2>2. Init => StraysAreKnown
    BY DEF Init, StraysAreKnown
  <2> QED BY <2>1, <2>2
<1>2. IInv /\ NewestIsAnnounced /\ StraysAreKnown => QuiescentCacheIsExact
  <2> SUFFICES ASSUME IInv, NewestIsAnnounced, StraysAreKnown,
                      \A w \in Writers : wpc[w] = "idle",
                      horizon[version].shape = shape,
                      NEW k \in Keys, CacheAt(version)[k] # NoEntry
               PROVE  /\ CacheAt(version)[k].root = inner
                      /\ CacheAt(version)[k].shape = shape
                      /\ CacheAt(version)[k].stray => k \in strays
    BY DEF QuiescentCacheIsExact
  <2>1. horizon[version].root = inner
    BY DEF NewestIsAnnounced
  <2>2. cacheVersion = version /\ CacheAt(version) = cache
    BY DEF CacheAt
  <2>3. AtLeast(cache[k], horizon[version]) /\ Exists(cache[k])
    BY <2>2 DEF IInv, CacheInv, EntriesMatchTheirTag
  <2>4. cache[k] \in Origin /\ inner \in Int /\ shape \in Int
    BY Counters DEF IInv, TypeOK
  <2>5. cache[k].root = inner /\ cache[k].shape = shape
    BY <2>1, <2>3, <2>4 DEF AtLeast, Exists
  <2> QED BY <2>2, <2>5, CacheAtStrays
<1>3. IInv /\ NewestIsAnnounced /\ StraysAreKnown /\ [Next]_vars
      => NewestIsAnnounced' /\ StraysAreKnown'
  BY NextAnnounces, NextKeepsStrays
<1> QED BY <1>1, <1>2, <1>3, Invariance, PTL DEF Spec

-------------------------------------------------------------------------------
(* The refinement: what callers see of a cube with its cache is what they  *)
(* would see of one that computes every total afresh.                      *)

Asking == {r \in Readers : rpc[r] # "idle"}

LEMMA InitRefines == Init => Fresh!Init
  BY DEF Init, Start, Fresh!Init, Fresh!Start, Fresh!Nothing

(* A query ends: with no total, or with one between floor and now.         *)
LEMMA EndRefines ==
  ASSUME IInv, IInv', NEW r \in Readers, rpc[r] # "idle",
         rpc' = [rpc EXCEPT ![r] = "idle"],
         NEW total, answer' = answer \/ answer' = [answer EXCEPT ![r] = total],
         answer' # answer => total \in Origin /\ total # NoEntry,
         UNCHANGED <<inner, version, shape, floor, horizon>>
  PROVE  Fresh!Answer(r)
<1>1. r \in Asking /\ Asking' = Asking \ {r}
  BY DEF Asking, IInv, TypeOK
<1>2. CASE answer' = answer
  BY <1>1, <1>2 DEF Fresh!Answer, Asking
<1>3. CASE answer' # answer
  <2>1. answer' = [answer EXCEPT ![r] = total] /\ total \in Origin /\ total # NoEntry
    BY <1>3
  <2>2. answer'[r] = total /\ rpc'[r] = "idle" /\ floor'[r] = floor[r] /\ floor[r] \in Moment
    BY <2>1 DEF IInv, TypeOK
  <2>3. AtLeast(total, floor[r]) /\ Exists(total)
    BY <2>1, <2>2 DEF IInv, AnswerInv, AnswersAreFresh, AtLeast, Exists
  <2>4. inner \in Int /\ shape \in Int
    BY Counters DEF IInv
  <2>5. /\ total.root \in floor[r].root..inner
        /\ total.shape \in floor[r].shape..shape
        /\ total.stray \in BOOLEAN
        /\ total = [root |-> total.root, shape |-> total.shape, stray |-> total.stray]
    BY <2>1, <2>2, <2>3, <2>4 DEF AtLeast, Exists
  <2> QED BY <1>1, <2>1, <2>5 DEF Fresh!Answer, Asking
<1> QED BY <1>2, <1>3

(* A step inside a query is invisible.                                     *)
LEMMA InnerRefines ==
  ASSUME IInv, NEW r \in Readers, rpc[r] # "idle", NEW pc, pc # "idle",
         rpc' = [rpc EXCEPT ![r] = pc],
         UNCHANGED <<inner, version, shape, answer, floor, horizon>>
  PROVE  UNCHANGED Fresh!vars
<1>1. UNCHANGED Asking
  BY DEF Asking, IInv, TypeOK
<1> QED BY <1>1 DEF Fresh!vars, Asking

LEMMA WriteRefines ==
  ASSUME IInv, IInv', NEW w \in Writers, StoreWrite(w) \/ Publish(w)
  PROVE  [Fresh!Next]_Fresh!vars
<1>1. CASE StoreWrite(w)
  BY <1>1 DEF StoreWrite, Fresh!Next, Fresh!Apply
<1>2. CASE Publish(w)
  <2>1. UNCHANGED <<inner, shape, rpc, floor, answer>>
    BY <1>2 DEF Publish
  <2>2. /\ version \in Nat /\ version' = version + 1 /\ inner \in Int
        /\ horizon[version] \in Moment /\ wroot[w] \in 0..inner
    BY <1>2, Counters DEF IInv, TypeOK, Publish, Bump
  <2>3. horizon'[version'] = [horizon[version] EXCEPT !.root = Larger(@, wroot[w])]
    BY <1>2, <2>2 DEF Publish, Bump
  <2>4. /\ horizon'[version'].root \in horizon[version].root..inner
        /\ horizon'[version'].shape = horizon[version].shape
    BY <2>2, <2>3 DEF Larger, IInv, HorizonInv
  <2> QED BY <2>1, <2>4 DEF Fresh!Next, Fresh!Return
<1> QED BY <1>1, <1>2

LEMMA StructureRefines ==
  ASSUME IInv, IInv', Edit \/ ClearCache
  PROVE  [Fresh!Next]_Fresh!vars
<1>1. CASE Edit
  BY <1>1 DEF Edit, Fresh!Next, Fresh!Edit
<1>2. CASE ClearCache
  <2>1. UNCHANGED <<inner, shape, rpc, floor, answer>> /\ \A r \in Readers : rpc[r] = "idle"
    BY <1>2 DEF ClearCache
  <2>2. version \in Nat /\ version' = version + 1 /\ horizon[version] \in Moment
    BY <1>2, Counters DEF IInv, TypeOK, ClearCache, Bump
  <2>3. horizon'[version'] = [horizon[version] EXCEPT !.shape = shape]
    BY <1>2, <2>2 DEF ClearCache, Bump
  <2>4. horizon'[version'].root = horizon[version].root /\ horizon'[version'].shape = shape
    BY <2>2, <2>3
  <2> QED BY <2>1, <2>4 DEF Fresh!Next, Fresh!Announce
<1> QED BY <1>1, <1>2

LEMMA ReadRefines ==
  ASSUME IInv, IInv', NEW r \in Readers, ReaderStep(r)
  PROVE  [Fresh!Next]_Fresh!vars
<1>1. ASSUME NEW k \in Keys, Call(r, k) PROVE Fresh!Ask(r)
  <2>1. Asking' = Asking \cup {r} /\ r \notin Asking
    <3>1. rpc \in [Readers -> QuerySteps \cup {"idle"}]
      BY DEF IInv, TypeOK
    <3>2. rpc[r] = "idle" /\ rpc' = [rpc EXCEPT ![r] = "resolve"]
      BY <1>1 DEF Call
    <3> QED BY <3>1, <3>2 DEF Asking
  <2>2. horizon[version] = [root |-> horizon[version].root, shape |-> horizon[version].shape]
    <3>1. horizon[version] \in Moment
      BY Counters DEF IInv, TypeOK
    <3> QED BY <3>1
  <2> QED BY <1>1, <2>1, <2>2 DEF Call, Fresh!Ask, Fresh!Nothing, Asking
<1>2. CASE Resolve(r)
  <2>1. CASE Return(r, NoEntry)
    <3>1. answer' = answer
      BY <1>2, <2>1 DEF IInv, TypeOK, QueryInv, Resolve, Return
    <3> QED BY <1>2, <2>1, <3>1, EndRefines DEF Resolve, Return, Fresh!Next
  <2>2. CASE ~ Return(r, NoEntry)
    BY <1>2, <2>2, InnerRefines DEF Resolve
  <2> QED BY <2>1, <2>2
<1>3. CASE LoadVersion(r) \/ TakeVersion(r) \/ TakeSnapshot(r)
  BY <1>3, InnerRefines DEF LoadVersion, TakeVersion, TakeSnapshot
<1>4. CASE Lookup(r)
  <2>1. CASE cache'[key[r]] = NoEntry
    BY <1>4, <2>1, InnerRefines DEF Lookup, Continue
  <2>2. CASE cache'[key[r]] # NoEntry
    <3>1. cache'[key[r]] \in Origin
      BY <1>4 DEF IInv, TypeOK, Lookup
    <3> QED BY <1>4, <2>2, <3>1, EndRefines DEF Lookup, Return, Fresh!Next
  <2> QED BY <2>1, <2>2
<1>5. rpc[r] \in {"check", "insert"} => Total(r) \in Origin /\ Total(r) # NoEntry
  BY TotalIsFresh
<1>6. CASE CheckVersion(r)
  <2>1. CASE version = at[r]
    BY <1>6, <2>1, InnerRefines DEF CheckVersion, Continue
  <2>2. CASE version # at[r]
    BY <1>5, <1>6, <2>2, EndRefines DEF CheckVersion, Return, Fresh!Next
  <2> QED BY <2>1, <2>2
<1>7. CASE Insert(r)
  BY <1>5, <1>7, EndRefines DEF Insert, Return, Fresh!Next
<1> QED BY <1>1, <1>2, <1>3, <1>4, <1>6, <1>7 DEF ReaderStep, Fresh!Next

(* A cube implements the regular register of FreshReads.                   *)
THEOREM Refinement == Spec => ImplementsFreshReads
<1>1. ASSUME IInv, IInv', [Next]_vars PROVE [Fresh!Next]_Fresh!vars
  <2>1. CASE UNCHANGED vars
    BY <2>1 DEF vars, Fresh!vars
  <2> QED BY <1>1, <2>1, WriteRefines, StructureRefines, ReadRefines DEF Next, WriterStep
<1> QED BY <1>1, InitRefines, Invariance, PTL DEF Spec, Fresh!Spec, ImplementsFreshReads
===============================================================================
