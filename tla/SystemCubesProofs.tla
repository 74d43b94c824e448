-------------------------- MODULE SystemCubesProofs --------------------------
(***************************************************************************)
(* That a batch answered "ok" has its members listed, and that the counts  *)
(* are right when refreshes do not overlap, for any dimensions, columns,   *)
(* spellings and batches, however their threads interleave.                *)
(***************************************************************************)
EXTENDS SystemCubes, FiniteSetTheorems, TLAPS

Listing  == {"dims", "rows", "put"}
Counting == {"columns", "compare", "overwrite"}
Steps    == {"write", "failed", "ok"} \cup Listing \cup Counting

(* The row of the k-th member of a batch.                                  *)
RowOf(b, k) == <<Batches[b][k].dim, Key[Batches[b][k].name]>>

Types ==
    /\ title \in [Dimensions -> [Keys -> Names \cup {None}]]
    /\ dict \in [Keys -> Names \cup {None}]
    /\ rows \subseteq Dimensions \X Keys
    /\ DOMAIN card = Columns
    /\ pc \in [Threads -> Steps]
    /\ at \in [Threads -> Nat]
    /\ seen \in [Threads -> SUBSET (Dimensions \X Names)]
    /\ todo \in [Threads -> SUBSET (Dimensions \cup Columns)]
    /\ held \in [Threads -> Dimensions \cup {None}]
    /\ missing \in [Threads -> SUBSET Keys]
    /\ DOMAIN key = Threads /\ DOMAIN col = Threads /\ DOMAIN count = Threads

(* A member is kept, and listed, under the key of its name.                *)
NamesInv ==
    /\ \A d \in Dimensions : \A k \in Known(d) : Key[title[d][k]] = k
    /\ \A k \in Keys : dict[k] # None => Key[dict[k]] = k
    /\ \A r \in rows : r[2] \in Known(r[1]) /\ dict[r[2]] # None

(* What each step of a refresh may rely on.                                *)
ThreadInv(b) ==
    /\ at[b] \in 0..Len(Batches[b])
    /\ pc[b] \notin {"write", "failed"} => at[b] = Len(Batches[b])
    /\ \A k \in 1..at[b] : RowOf(b, k)[2] \in Known(RowOf(b, k)[1])
    /\ \A s \in seen[b] : <<s[1], Key[s[2]]>> \in rows
    /\ pc[b] \in Listing => todo[b] \subseteq Dimensions
    /\ pc[b] \in {"rows", "put"} => held[b] \in Dimensions /\ missing[b] \subseteq Known(held[b])
    /\ pc[b] = "put" => key[b] \in missing[b] /\ dict[key[b]] # None

(* A member of the batch is listed once its dimension is done, and before  *)
(* that it is listed or missing.                                           *)
ListedInv(b) ==
    \A k \in DOMAIN Batches[b] :
        /\ pc[b] \in Listing => RowOf(b, k) \in rows \/ RowOf(b, k)[1] \in todo[b]
        /\ pc[b] \in {"rows", "put"} /\ RowOf(b, k)[1] = held[b]
               => RowOf(b, k) \in rows \/ RowOf(b, k)[2] \in missing[b]
        /\ pc[b] \in Counting \cup {"ok"} => RowOf(b, k) \in rows

ListInv == Types /\ NamesInv /\ \A b \in Threads : ThreadInv(b) /\ ListedInv(b)

-------------------------------------------------------------------------------
LEMMA MembersOfSeq ==
  ASSUME NEW S, NEW s \in Seq(S)
  PROVE  \A k \in DOMAIN s : s[k] \in S
OBVIOUS

LEMMA BatchShape ==
  ASSUME NEW b \in Threads
  PROVE  /\ Len(Batches[b]) \in Nat
         /\ DOMAIN Batches[b] = 1..Len(Batches[b])
         /\ \A k \in DOMAIN Batches[b] :
                /\ Batches[b][k].dim \in Dimensions /\ Batches[b][k].name \in Names
                /\ RowOf(b, k) \in Dimensions \X Keys
                /\ RowOf(b, k)[1] = Batches[b][k].dim
                /\ RowOf(b, k)[2] = Key[Batches[b][k].name]
<1>1. Batches[b] \in Seq([dim : Dimensions, name : Names])
  BY BatchesNameMembers DEF Threads
<1>2. Len(Batches[b]) \in Nat /\ DOMAIN Batches[b] = 1..Len(Batches[b])
  BY <1>1
<1>3. \A k \in DOMAIN Batches[b] : Batches[b][k] \in [dim : Dimensions, name : Names]
  BY <1>1, MembersOfSeq
<1> SUFFICES \A k \in DOMAIN Batches[b] :
                 /\ Batches[b][k].dim \in Dimensions /\ Batches[b][k].name \in Names
                 /\ RowOf(b, k) \in Dimensions \X Keys
                 /\ RowOf(b, k)[1] = Batches[b][k].dim
                 /\ RowOf(b, k)[2] = Key[Batches[b][k].name]
  BY <1>2
<1>4. TAKE k \in DOMAIN Batches[b]
<1>5. /\ Batches[b][k].dim \in Dimensions /\ Batches[b][k].name \in Names
      /\ RowOf(b, k) \in Dimensions \X Keys
      /\ RowOf(b, k)[1] = Batches[b][k].dim
      /\ RowOf(b, k)[2] = Key[Batches[b][k].name]
  <2>1. Batches[b][k].dim \in Dimensions /\ Batches[b][k].name \in Names
    BY <1>3
  <2>2. Key[Batches[b][k].name] \in Keys
    BY <2>1, KeysOfNames
  <2> QED BY <2>1, <2>2 DEF RowOf
<1> QED BY <1>5

(* Members, names and rows only come.                                      *)
Grows ==
    /\ \A d \in Dimensions : Known(d) \subseteq Known(d)'
    /\ rows \subseteq rows'
    /\ \A k \in Keys : dict[k] # None => dict'[k] # None

(* A step that leaves a thread where it is.                                *)
Frame(t) ==
    /\ pc'[t] = pc[t] /\ at'[t] = at[t] /\ seen'[t] = seen[t] /\ todo'[t] = todo[t]
    /\ held'[t] = held[t] /\ missing'[t] = missing[t] /\ key'[t] = key[t]

LEMMA FrameKeeps ==
  ASSUME ListInv, Grows, NEW t \in Threads, Frame(t)
  PROVE  ThreadInv(t)' /\ ListedInv(t)'
<1>1. ThreadInv(t) /\ ListedInv(t) /\ Types
  BY DEF ListInv
<1>2. at[t] \in Nat /\ DOMAIN Batches[t] = 1..Len(Batches[t]) /\ Len(Batches[t]) \in Nat
  BY <1>1, BatchShape DEF Types
<1>3. ASSUME NEW k \in 1..at[t]
      PROVE  RowOf(t, k)[2] \in Known(RowOf(t, k)[1])'
  <2>1. k \in DOMAIN Batches[t]
    BY <1>1, <1>2 DEF ThreadInv
  <2>2. RowOf(t, k)[1] \in Dimensions
    BY <2>1, BatchShape
  <2> QED BY <2>2, <1>1 DEF ThreadInv, Grows
<1>4. ThreadInv(t)'
  BY <1>1, <1>3 DEF ThreadInv, Grows, Frame, Types
<1>5. ListedInv(t)'
  BY <1>1 DEF ListedInv, Grows, Frame
<1> QED BY <1>4, <1>5

LEMMA InitListInv == Init => ListInv
<1> SUFFICES ASSUME Init PROVE ListInv
  OBVIOUS
<1>1. Types
  BY DEF Init, Types, Steps
<1>2. NamesInv
  BY DEF Init, NamesInv, Known
<1>3. ASSUME NEW b \in Threads PROVE ThreadInv(b) /\ ListedInv(b)
  BY <1>3, BatchShape DEF Init, ThreadInv, ListedInv, Listing, Counting
<1> QED BY <1>1, <1>2, <1>3 DEF ListInv

-------------------------------------------------------------------------------
(* The steps of the batch.                                                 *)

LEMMA AddMemberKeeps ==
  ASSUME ListInv, NEW b \in Threads, AddMember(b)
  PROVE  ListInv'
<1>1. Types /\ NamesInv /\ ThreadInv(b) /\ ListedInv(b)
  BY DEF ListInv
<1>2. /\ at[b] \in Nat /\ pc[b] = "write" /\ at[b] < Len(Batches[b])
      /\ at[b] + 1 \in DOMAIN Batches[b]
  <2>1. at[b] \in Nat /\ pc[b] = "write" /\ at[b] < Len(Batches[b])
    BY <1>1 DEF AddMember, Types
  <2>2. Len(Batches[b]) \in Nat /\ DOMAIN Batches[b] = 1..Len(Batches[b])
    BY BatchShape
  <2> QED BY <2>1, <2>2
<1>3. PICK i \in DOMAIN Batches[b], d \in Dimensions, nm \in Names, k \in Keys :
        i = at[b] + 1 /\ d = Batches[b][i].dim /\ nm = Batches[b][i].name /\ k = Key[nm]
  BY <1>2, BatchShape, KeysOfNames
<1>4. RowOf(b, i)[1] = d /\ RowOf(b, i)[2] = k /\ nm # None
  BY <1>3, BatchShape, NoneIsNone
<1>5. /\ title' = [title EXCEPT ![d][k] = IF @ = None THEN nm ELSE @]
      /\ at' = [at EXCEPT ![b] = @ + 1]
      /\ UNCHANGED <<dict, rows, card, pc, seen, todo, held, missing, key, col, count, crossed>>
  BY <1>3 DEF AddMember, refreshVars
<1>6. title' \in [Dimensions -> [Keys -> Names \cup {None}]]
  <2>1. PICK v \in Names \cup {None} : v = IF title[d][k] = None THEN nm ELSE title[d][k]
    BY <1>1 DEF Types
  <2>2. PICK row \in [Keys -> Names \cup {None}] : row = [title[d] EXCEPT ![k] = v]
    BY <1>1 DEF Types
  <2>3. title' = [title EXCEPT ![d] = row]
    BY <1>5, <2>1, <2>2
  <2> QED BY <1>1, <2>3 DEF Types
<1>7. \A e \in Dimensions : \A j \in Keys :
        title'[e][j] = IF e = d /\ j = k /\ title[e][j] = None THEN nm ELSE title[e][j]
  BY <1>1, <1>3, <1>5 DEF Types
<1>8. /\ \A e \in Dimensions : Known(e) \subseteq Known(e)'
      /\ k \in Known(d)'
      /\ \A e \in Dimensions : \A j \in Known(e)' : Key[title'[e][j]] = j
  <2>1. k \in Known(d)'
    BY <1>4, <1>7 DEF Known
  <2>2. ASSUME NEW e \in Dimensions, NEW j \in Keys, title[e][j] # None
        PROVE  title'[e][j] = title[e][j]
    BY <1>7, <2>2
  <2>3. \A e \in Dimensions : Known(e) \subseteq Known(e)'
    BY <2>2 DEF Known
  <2>4. ASSUME NEW e \in Dimensions, NEW j \in Keys, title'[e][j] # None
        PROVE  Key[title'[e][j]] = j
    BY <1>1, <1>3, <1>7, <2>4 DEF NamesInv, Known
  <2>5. \A e \in Dimensions : \A j \in Known(e)' : Key[title'[e][j]] = j
    BY <2>4 DEF Known
  <2> QED BY <2>1, <2>3, <2>5
<1>9. Types'
  <2>1. at' \in [Threads -> Nat]
    BY <1>1, <1>5 DEF Types
  <2> QED BY <1>1, <1>5, <1>6, <2>1 DEF Types
<1>10. Grows
  BY <1>5, <1>8 DEF Grows
<1>11. NamesInv'
  <2>1. \A r \in rows : r[2] \in Known(r[1])' /\ dict[r[2]] # None
    BY <1>1, <1>8 DEF NamesInv, Types
  <2> QED BY <1>1, <1>5, <1>8, <2>1 DEF NamesInv
<1>12. ASSUME NEW t \in Threads, t # b PROVE ThreadInv(t)' /\ ListedInv(t)'
  <2>1. Frame(t)
    BY <1>1, <1>5, <1>12 DEF Frame, Types
  <2> QED BY <2>1, <1>10, FrameKeeps
<1>13. ThreadInv(b)'
  <2>1. at'[b] = at[b] + 1 /\ pc'[b] = "write" /\ seen'[b] = seen[b] /\ rows' = rows
    BY <1>1, <1>2, <1>5 DEF Types
  <2>2. Len(Batches[b]) \in Nat /\ DOMAIN Batches[b] = 1..Len(Batches[b])
    BY BatchShape
  <2>3. ASSUME NEW j \in 1..at'[b] PROVE RowOf(b, j)[2] \in Known(RowOf(b, j)[1])'
    <3>1. CASE j = at[b] + 1
      BY <3>1, <1>3, <1>4, <1>8
    <3>2. CASE j # at[b] + 1
      <4>1. j \in 1..at[b] /\ j \in DOMAIN Batches[b]
        BY <3>2, <2>1, <2>2, <1>2
      <4>2. RowOf(b, j)[1] \in Dimensions
        BY <4>1, BatchShape
      <4> QED BY <4>1, <4>2, <1>1, <1>8 DEF ThreadInv
    <3> QED BY <3>1, <3>2
  <2>4. at'[b] \in 0..Len(Batches[b])
    BY <2>1, <2>2, <1>2
  <2> QED BY <1>1, <2>1, <2>3, <2>4 DEF ThreadInv, Listing
<1>14. ListedInv(b)'
  <2>1. pc'[b] = "write"
    BY <1>1, <1>2, <1>5 DEF Types
  <2> QED BY <2>1 DEF ListedInv, Listing, Counting
<1> QED BY <1>9, <1>11, <1>12, <1>13, <1>14 DEF ListInv

LEMMA FailBatchKeeps ==
  ASSUME ListInv, NEW b \in Threads, FailBatch(b)
  PROVE  ListInv'
<1>1. Types /\ NamesInv /\ ThreadInv(b) /\ ListedInv(b)
  BY DEF ListInv
<1>2. /\ pc[b] = "write" /\ pc' = [pc EXCEPT ![b] = "failed"]
      /\ UNCHANGED <<title, dict, rows, card, at, seen, todo, held, missing, key, col, count, crossed>>
  BY DEF FailBatch, refreshVars
<1>3. pc'[b] = "failed" /\ pc' \in [Threads -> Steps]
  BY <1>1, <1>2 DEF Types, Steps
<1>4. Types'
  BY <1>1, <1>2, <1>3 DEF Types
<1>5. \A e : Known(e)' = Known(e)
  BY <1>2 DEF Known
<1>6. Grows
  BY <1>2, <1>5 DEF Grows
<1>7. NamesInv'
  BY <1>1, <1>2, <1>5 DEF NamesInv
<1>8. ASSUME NEW t \in Threads, t # b PROVE ThreadInv(t)' /\ ListedInv(t)'
  <2>1. Frame(t)
    BY <1>1, <1>2, <1>8 DEF Frame, Types
  <2> QED BY <2>1, <1>6, FrameKeeps
<1>9. ThreadInv(b)' /\ ListedInv(b)'
  BY <1>1, <1>2, <1>3, <1>5 DEF ThreadInv, ListedInv, Listing, Counting
<1> QED BY <1>4, <1>7, <1>8, <1>9 DEF ListInv

-------------------------------------------------------------------------------
(* The steps of a refresh.                                                 *)

LEMMA QuietKeeps ==
  ASSUME ListInv, UNCHANGED <<title, dict, rows>>
  PROVE  /\ Grows /\ NamesInv'
         /\ \A e : Known(e)' = Known(e)
<1>1. \A e : Known(e)' = Known(e)
  BY DEF Known
<1>2. NamesInv'
  BY <1>1 DEF ListInv, NamesInv
<1> QED BY <1>1, <1>2 DEF Grows

(* A thread past its writes has all its members known.                     *)
LEMMA MembersKnown ==
  ASSUME ListInv, NEW b \in Threads, at[b] = Len(Batches[b])
  PROVE  \A k \in DOMAIN Batches[b] : RowOf(b, k)[2] \in Known(RowOf(b, k)[1])
BY BatchShape DEF ListInv, ThreadInv

LEMMA ScanKeeps ==
  ASSUME ListInv, NEW b \in Threads, Scan(b)
  PROVE  ListInv'
<1>1. Types /\ NamesInv /\ ThreadInv(b) /\ ListedInv(b)
  BY DEF ListInv
<1>2. PICK found : found = {<<r[1], dict[r[2]]>> : r \in rows}
  OBVIOUS
<1>3. /\ at[b] = Len(Batches[b])
      /\ seen' = [seen EXCEPT ![b] = found]
      /\ todo' = [todo EXCEPT ![b] = Dimensions]
      /\ pc' = [pc EXCEPT ![b] = "dims"]
      /\ UNCHANGED <<title, dict, rows, card, at, held, missing, key, col, count>>
  BY <1>2 DEF Scan
<1>4. found \subseteq Dimensions \X Names /\ \A s \in found : <<s[1], Key[s[2]]>> \in rows
  <2> SUFFICES ASSUME NEW s \in found
               PROVE  s \in Dimensions \X Names /\ <<s[1], Key[s[2]]>> \in rows
    OBVIOUS
  <2>1. PICK r \in rows : s = <<r[1], dict[r[2]]>>
    BY <1>2
  <2>2. r[1] \in Dimensions /\ r[2] \in Keys /\ r = <<r[1], r[2]>>
    BY <1>1 DEF Types
  <2>3. dict[r[2]] \in Names /\ Key[dict[r[2]]] = r[2]
    BY <1>1, <2>2 DEF Types, NamesInv
  <2> QED BY <2>1, <2>2, <2>3
<1>5. pc'[b] = "dims" /\ pc' \in [Threads -> Steps]
  BY <1>1, <1>3 DEF Types, Steps, Listing
<1>6. Types'
  <2>1. seen' \in [Threads -> SUBSET (Dimensions \X Names)]
    BY <1>1, <1>3, <1>4 DEF Types
  <2>2. todo' \in [Threads -> SUBSET (Dimensions \cup Columns)]
    BY <1>1, <1>3 DEF Types
  <2> QED BY <1>1, <1>3, <1>5, <2>1, <2>2 DEF Types
<1>7. Grows /\ NamesInv' /\ \A e : Known(e)' = Known(e)
  BY <1>3, QuietKeeps
<1>8. ASSUME NEW t \in Threads, t # b PROVE ThreadInv(t)' /\ ListedInv(t)'
  <2>1. Frame(t)
    BY <1>1, <1>3, <1>8 DEF Frame, Types
  <2> QED BY <2>1, <1>7, FrameKeeps
<1>9. todo'[b] = Dimensions /\ seen'[b] = found
  BY <1>1, <1>3 DEF Types
<1>10. ThreadInv(b)'
  BY <1>1, <1>3, <1>4, <1>5, <1>7, <1>9 DEF ThreadInv
<1>11. ListedInv(b)'
  BY <1>3, <1>5, <1>9, BatchShape DEF ListedInv, Counting
<1> QED BY <1>6, <1>7, <1>8, <1>10, <1>11 DEF ListInv

LEMMA LockDimensionKeeps ==
  ASSUME ListInv, NEW b \in Threads, NEW d \in Dimensions, LockDimension(b, d)
  PROVE  ListInv'
<1>1. Types /\ NamesInv /\ ThreadInv(b) /\ ListedInv(b)
  BY DEF ListInv
<1>2. PICK lost : lost = {k \in Known(d) : <<d, title[d][k]>> \notin seen[b]}
  OBVIOUS
<1>3. /\ pc[b] = "dims" /\ held' = [held EXCEPT ![b] = d]
      /\ missing' = [missing EXCEPT ![b] = lost]
      /\ pc' = [pc EXCEPT ![b] = "rows"]
      /\ UNCHANGED <<title, dict, rows, card, at, seen, todo, key, col, count, crossed>>
  BY <1>2 DEF LockDimension
<1>4. lost \subseteq Known(d) /\ lost \subseteq Keys
  BY <1>2 DEF Known
<1>5. /\ pc'[b] = "rows" /\ held'[b] = d /\ missing'[b] = lost
      /\ pc' \in [Threads -> Steps]
  BY <1>1, <1>3 DEF Types, Steps, Listing
<1>6. Types'
  <2>1. held' \in [Threads -> Dimensions \cup {None}] /\ missing' \in [Threads -> SUBSET Keys]
    BY <1>1, <1>3, <1>4 DEF Types
  <2> QED BY <1>1, <1>3, <1>5, <2>1 DEF Types
<1>7. Grows /\ NamesInv' /\ \A e : Known(e)' = Known(e)
  BY <1>3, QuietKeeps
<1>8. ASSUME NEW t \in Threads, t # b PROVE ThreadInv(t)' /\ ListedInv(t)'
  <2>1. Frame(t)
    BY <1>1, <1>3, <1>8 DEF Frame, Types
  <2> QED BY <2>1, <1>7, FrameKeeps
<1>9. ThreadInv(b)'
  BY <1>1, <1>3, <1>4, <1>5, <1>7 DEF ThreadInv, Listing
<1>10. ListedInv(b)'
  <2>1. ASSUME NEW k \in DOMAIN Batches[b], RowOf(b, k)[1] = d, RowOf(b, k)[2] \notin lost
        PROVE  RowOf(b, k) \in rows
    <3>1. RowOf(b, k) = <<d, RowOf(b, k)[2]>>
      BY <2>1, BatchShape
    <3>2. RowOf(b, k)[2] \in Known(d)
      BY <1>1, <1>3, <2>1, MembersKnown DEF ThreadInv
    <3>3. <<d, title[d][RowOf(b, k)[2]]>> \in seen[b]
      BY <1>2, <2>1, <3>2
    <3>4. <<d, Key[title[d][RowOf(b, k)[2]]]>> \in rows
      BY <1>1, <3>3 DEF ThreadInv
    <3>5. Key[title[d][RowOf(b, k)[2]]] = RowOf(b, k)[2]
      BY <1>1, <3>2 DEF NamesInv
    <3> QED BY <3>1, <3>4, <3>5
  <2> QED BY <1>1, <1>3, <1>5, <2>1 DEF ListedInv, Listing, Counting
<1> QED BY <1>6, <1>7, <1>8, <1>9, <1>10 DEF ListInv

LEMMA NameRowKeeps ==
  ASSUME ListInv, NEW b \in Threads, NEW k \in Keys, NameRow(b, k)
  PROVE  ListInv'
<1>1. Types /\ NamesInv /\ ThreadInv(b) /\ ListedInv(b)
  BY DEF ListInv
<1>2. /\ pc[b] = "rows" /\ k \in missing[b]
      /\ dict' = [dict EXCEPT ![k] = IF @ = None THEN title[held[b]][k] ELSE @]
      /\ key' = [key EXCEPT ![b] = k]
      /\ pc' = [pc EXCEPT ![b] = "put"]
      /\ UNCHANGED <<title, rows, card, at, seen, todo, held, missing, col, count, crossed>>
  BY DEF NameRow
<1>3. held[b] \in Dimensions /\ k \in Known(held[b])
  BY <1>1, <1>2 DEF ThreadInv
<1>4. title[held[b]][k] \in Names /\ Key[title[held[b]][k]] = k
  BY <1>1, <1>3 DEF Types, NamesInv, Known
<1>5. /\ dict' \in [Keys -> Names \cup {None}] /\ dict'[k] # None
      /\ \A j \in Keys : dict[j] # None => dict'[j] = dict[j]
      /\ \A j \in Keys : dict'[j] # None => Key[dict'[j]] = j
  <2>1. PICK nm \in Names : nm = IF dict[k] = None THEN title[held[b]][k] ELSE dict[k]
    BY <1>1, <1>4 DEF Types
  <2>2. dict' = [dict EXCEPT ![k] = nm] /\ Key[nm] = k
    BY <1>1, <1>2, <1>4, <2>1 DEF NamesInv
  <2> QED BY <1>1, <2>1, <2>2, NoneIsNone DEF Types, NamesInv
<1>6. /\ pc'[b] = "put" /\ key'[b] = k
      /\ pc' \in [Threads -> Steps]
  BY <1>1, <1>2 DEF Types, Steps, Listing
<1>7. Types'
  BY <1>1, <1>2, <1>5, <1>6 DEF Types
<1>8. \A e : Known(e)' = Known(e)
  BY <1>2 DEF Known
<1>9. NamesInv'
  <2>1. \A r \in rows : r[2] \in Keys
    BY <1>1 DEF Types
  <2> QED BY <1>1, <1>2, <1>5, <1>8, <2>1 DEF NamesInv
<1>10. Grows
  BY <1>2, <1>5, <1>8 DEF Grows
<1>11. ASSUME NEW t \in Threads, t # b PROVE ThreadInv(t)' /\ ListedInv(t)'
  <2>1. Frame(t)
    BY <1>1, <1>2, <1>11 DEF Frame, Types
  <2> QED BY <2>1, <1>10, FrameKeeps
<1>12. ThreadInv(b)'
  BY <1>1, <1>2, <1>5, <1>6, <1>8 DEF ThreadInv, Listing
<1>13. ListedInv(b)'
  BY <1>1, <1>2, <1>6 DEF ListedInv, Listing, Counting
<1> QED BY <1>7, <1>9, <1>11, <1>12, <1>13 DEF ListInv

LEMMA PutRowKeeps ==
  ASSUME ListInv, NEW b \in Threads, PutRow(b)
  PROVE  ListInv'
<1>1. Types /\ NamesInv /\ ThreadInv(b) /\ ListedInv(b)
  BY DEF ListInv
<1>2. /\ pc[b] = "put" /\ rows' = rows \cup {<<held[b], key[b]>>}
      /\ missing' = [missing EXCEPT ![b] = @ \ {key[b]}]
      /\ pc' = [pc EXCEPT ![b] = "rows"]
      /\ UNCHANGED <<title, dict, card, at, seen, todo, held, key, col, count, crossed>>
  BY DEF PutRow
<1>3. /\ held[b] \in Dimensions /\ key[b] \in Known(held[b]) /\ dict[key[b]] # None
      /\ key[b] \in Keys
  BY <1>1, <1>2 DEF ThreadInv, Known
<1>4. /\ pc'[b] = "rows" /\ missing'[b] = missing[b] \ {key[b]}
      /\ pc' \in [Threads -> Steps]
  BY <1>1, <1>2 DEF Types, Steps, Listing
<1>5. Types'
  <2>1. rows' \subseteq Dimensions \X Keys
    BY <1>1, <1>2, <1>3 DEF Types
  <2>2. missing' \in [Threads -> SUBSET Keys]
    BY <1>1, <1>2 DEF Types
  <2> QED BY <1>1, <1>2, <1>4, <2>1, <2>2 DEF Types
<1>6. \A e : Known(e)' = Known(e)
  BY <1>2 DEF Known
<1>7. NamesInv'
  BY <1>1, <1>2, <1>3, <1>6 DEF NamesInv
<1>8. Grows
  BY <1>2, <1>6 DEF Grows
<1>9. ASSUME NEW t \in Threads, t # b PROVE ThreadInv(t)' /\ ListedInv(t)'
  <2>1. Frame(t)
    BY <1>1, <1>2, <1>9 DEF Frame, Types
  <2> QED BY <2>1, <1>8, FrameKeeps
<1>10. ThreadInv(b)'
  BY <1>1, <1>2, <1>4, <1>6 DEF ThreadInv, Listing
<1>11. ListedInv(b)'
  <2>1. ASSUME NEW j \in DOMAIN Batches[b], RowOf(b, j)[1] = held[b], RowOf(b, j)[2] = key[b]
        PROVE  RowOf(b, j) \in rows'
    BY <1>2, <2>1, BatchShape
  <2> QED BY <1>1, <1>2, <1>4, <2>1 DEF ListedInv, Listing, Counting
<1> QED BY <1>5, <1>7, <1>9, <1>10, <1>11 DEF ListInv

LEMMA UnlockDimensionKeeps ==
  ASSUME ListInv, NEW b \in Threads, UnlockDimension(b)
  PROVE  ListInv'
<1>1. Types /\ NamesInv /\ ThreadInv(b) /\ ListedInv(b)
  BY DEF ListInv
<1>2. PICK left : left = todo[b] \ {held[b]}
  OBVIOUS
<1>3. /\ pc[b] = "rows" /\ missing[b] = {}
      /\ todo' = [todo EXCEPT ![b] = IF left = {} THEN Columns ELSE left]
      /\ pc' = [pc EXCEPT ![b] = IF left = {} THEN "columns" ELSE "dims"]
      /\ held' = [held EXCEPT ![b] = None]
      /\ UNCHANGED <<title, dict, rows, card, at, seen, missing, key, col, count, crossed>>
  BY <1>2 DEF UnlockDimension
<1>4. /\ pc'[b] = IF left = {} THEN "columns" ELSE "dims"
      /\ left # {} => todo'[b] = left
      /\ pc' \in [Threads -> Steps]
  BY <1>1, <1>3 DEF Types, Steps, Listing, Counting
<1>5. Types'
  <2>1. held' \in [Threads -> Dimensions \cup {None}]
    BY <1>1, <1>3 DEF Types
  <2>2. left \subseteq Dimensions \cup Columns
    BY <1>1, <1>2 DEF Types
  <2>3. todo' \in [Threads -> SUBSET (Dimensions \cup Columns)]
    BY <1>1, <1>3, <2>2 DEF Types
  <2> QED BY <1>1, <1>3, <1>4, <2>1, <2>3 DEF Types
<1>6. Grows /\ NamesInv' /\ \A e : Known(e)' = Known(e)
  BY <1>3, QuietKeeps
<1>7. ASSUME NEW t \in Threads, t # b PROVE ThreadInv(t)' /\ ListedInv(t)'
  <2>1. Frame(t)
    BY <1>1, <1>3, <1>7 DEF Frame, Types
  <2> QED BY <2>1, <1>6, FrameKeeps
<1>8. ThreadInv(b)'
  BY <1>1, <1>2, <1>3, <1>4, <1>6 DEF ThreadInv, Listing
<1>9. ListedInv(b)'
  <2>1. \A j \in DOMAIN Batches[b] : RowOf(b, j) \in rows \/ RowOf(b, j)[1] \in left
    BY <1>1, <1>2, <1>3 DEF ListedInv, Listing
  <2> QED BY <1>3, <1>4, <2>1 DEF ListedInv, Listing, Counting
<1> QED BY <1>5, <1>6, <1>7, <1>8, <1>9 DEF ListInv

(* The counting touches neither members nor rows.                          *)
LEMMA CountingKeeps ==
  ASSUME ListInv, NEW b \in Threads, pc[b] \in Counting,
         NEW p \in Counting \cup {"ok"}, pc' = [pc EXCEPT ![b] = p],
         UNCHANGED <<title, dict, rows, at, seen, held, missing, key>>,
         NEW set \in SUBSET (Dimensions \cup Columns), todo' = [todo EXCEPT ![b] = set],
         DOMAIN card' = Columns, DOMAIN col' = Threads, DOMAIN count' = Threads
  PROVE  ListInv'
<1>1. Types /\ NamesInv /\ ThreadInv(b) /\ ListedInv(b)
  BY DEF ListInv
<1>2. pc'[b] = p /\ pc' \in [Threads -> Steps]
  BY <1>1 DEF Types, Steps
<1>3. Types'
  BY <1>1, <1>2 DEF Types
<1>4. Grows /\ NamesInv' /\ \A e : Known(e)' = Known(e)
  BY QuietKeeps
<1>5. ASSUME NEW t \in Threads, t # b PROVE ThreadInv(t)' /\ ListedInv(t)'
  <2>1. Frame(t)
    BY <1>1, <1>5 DEF Frame, Types
  <2> QED BY <2>1, <1>4, FrameKeeps
<1>6. ThreadInv(b)'
  BY <1>1, <1>2, <1>4 DEF ThreadInv, Listing, Counting
<1>7. ListedInv(b)'
  BY <1>1, <1>2 DEF ListedInv, Listing, Counting
<1> QED BY <1>3, <1>4, <1>5, <1>6, <1>7 DEF ListInv

LEMMA CountMembersKeeps ==
  ASSUME ListInv, NEW b \in Threads, NEW c \in Columns, CountMembers(b, c)
  PROVE  ListInv'
<1>1. PICK set \in SUBSET (Dimensions \cup Columns) : set = todo[b] \ {c}
  BY DEF ListInv, Types
<1>2. /\ pc[b] = "columns" /\ pc' = [pc EXCEPT ![b] = "compare"]
      /\ todo' = [todo EXCEPT ![b] = set]
      /\ UNCHANGED <<title, dict, rows, at, seen, held, missing, key>>
  BY <1>1 DEF CountMembers
<1>3. pc[b] \in Counting /\ "compare" \in Counting \cup {"ok"}
  BY <1>2 DEF Counting
<1>4. DOMAIN card' = Columns /\ DOMAIN col' = Threads /\ DOMAIN count' = Threads
  BY DEF CountMembers, ListInv, Types
<1> QED BY <1>2, <1>3, <1>4, CountingKeeps

LEMMA AfterCountKeeps ==
  ASSUME ListInv, NEW b \in Threads, CompareCount(b) \/ OverwriteCount(b)
  PROVE  ListInv'
<1>1. PICK set \in SUBSET (Dimensions \cup Columns) : set = todo[b]
  BY DEF ListInv, Types
<1>2. todo \in [Threads -> SUBSET (Dimensions \cup Columns)] /\ DOMAIN card = Columns
      /\ DOMAIN col = Threads /\ DOMAIN count = Threads
  BY DEF ListInv, Types
<1>3. /\ pc[b] \in {"compare", "overwrite"}
      /\ UNCHANGED <<title, dict, rows, at, seen, todo, held, missing, key, col, count>>
      /\ \E p \in {"ok", "columns", "overwrite"} : pc' = [pc EXCEPT ![b] = p]
      /\ DOMAIN card' = Columns
  <2>1. CASE CompareCount(b)
    BY <2>1, <1>2 DEF CompareCount, NextColumn, refreshVars
  <2>2. CASE OverwriteCount(b)
    BY <2>2, <1>2 DEF OverwriteCount, NextColumn, refreshVars
  <2> QED BY <2>1, <2>2
<1>4. PICK p \in {"ok", "columns", "overwrite"} : pc' = [pc EXCEPT ![b] = p]
  BY <1>3
<1>5. todo' = [todo EXCEPT ![b] = set]
  BY <1>1, <1>2, <1>3
<1>6. pc[b] \in Counting /\ p \in Counting \cup {"ok"}
  BY <1>3 DEF Counting
<1> QED BY <1>2, <1>3, <1>4, <1>5, <1>6, CountingKeeps

LEMMA RebuildKeeps ==
  ASSUME ListInv, Rebuild
  PROVE  ListInv'
<1>1. Types /\ NamesInv
  BY DEF ListInv
<1>2. /\ rows' = {r \in Dimensions \X Keys : r[2] \in Known(r[1])}
      /\ UNCHANGED <<title, pc, at, seen, todo, held, missing, key, col, count>>
      /\ DOMAIN card' = Columns
  BY DEF Rebuild, refreshVars
<1>3. /\ dict' \in [Keys -> Names \cup {None}]
      /\ \A k \in Keys :
             IF dict[k] # None \/ \A d \in Dimensions : k \notin Known(d)
             THEN dict'[k] = dict[k]
             ELSE \E d \in Dimensions : k \in Known(d) /\ dict'[k] = title[d][k]
  BY DEF Rebuild
<1>4. \A k \in Keys : dict[k] # None => dict'[k] # None
  BY <1>3
<1>5. \A k \in Keys : dict'[k] # None => Key[dict'[k]] = k
  BY <1>1, <1>3 DEF NamesInv
<1>6. \A e : Known(e)' = Known(e)
  BY <1>2 DEF Known
<1>7. \A r \in rows' : r[2] \in Known(r[1])' /\ dict'[r[2]] # None
  <2> SUFFICES ASSUME NEW r \in rows' PROVE dict'[r[2]] # None
    BY <1>2, <1>6
  <2>1. r[1] \in Dimensions /\ r[2] \in Keys /\ r[2] \in Known(r[1])
    BY <1>2
  <2>2. CASE dict[r[2]] # None
    BY <2>1, <2>2, <1>4
  <2>3. CASE dict[r[2]] = None
    <3>1. PICK d \in Dimensions : r[2] \in Known(d) /\ dict'[r[2]] = title[d][r[2]]
      BY <1>3, <2>1, <2>3
    <3> QED BY <3>1 DEF Known
  <2> QED BY <2>2, <2>3
<1>8. NamesInv'
  <2>1. \A d \in Dimensions : \A k \in Known(d)' : Key[title'[d][k]] = k
    BY <1>1, <1>2, <1>6 DEF NamesInv
  <2> QED BY <2>1, <1>5, <1>7 DEF NamesInv
<1>9. rows \subseteq rows' /\ rows' \subseteq Dimensions \X Keys
  BY <1>1, <1>2 DEF NamesInv, Types
<1>10. Types'
  BY <1>1, <1>2, <1>3, <1>9 DEF Types
<1>11. Grows
  BY <1>4, <1>6, <1>9 DEF Grows
<1>12. ASSUME NEW t \in Threads PROVE ThreadInv(t)' /\ ListedInv(t)'
  <2>1. Frame(t)
    BY <1>2 DEF Frame
  <2> QED BY <2>1, <1>11, FrameKeeps
<1> QED BY <1>8, <1>10, <1>12 DEF ListInv

LEMMA NextListInv == ListInv /\ [Next]_vars => ListInv'
<1> SUFFICES ASSUME ListInv, [Next]_vars PROVE ListInv'
  OBVIOUS
<1>1. ASSUME NEW b \in Threads, Thread(b) PROVE ListInv'
  BY <1>1, AddMemberKeeps, ScanKeeps, LockDimensionKeeps, NameRowKeeps, PutRowKeeps,
     UnlockDimensionKeeps, CountMembersKeeps, AfterCountKeeps DEF Thread
<1>2. CASE UNCHANGED vars
  BY <1>2 DEF vars, ListInv, Types, NamesInv, ThreadInv, ListedInv, Known
<1> QED BY <1>1, <1>2, FailBatchKeeps, RebuildKeeps DEF Next

LEMMA ListInvHolds == Spec => []ListInv
BY InitListInv, NextListInv, PTL DEF Spec

(* A batch answered "ok" finds each of its members in #Members, whatever   *)
(* other batches added, listed or failed to in between and whichever       *)
(* spelling came first (refresh_members and put_existing).                 *)
THEOREM AnsweredIsListed == Spec => []AnsweredMembersAreListed
<1>1. ListInv => AnsweredMembersAreListed
  BY BatchShape DEF ListInv, ListedInv, AnsweredMembersAreListed, Counting, RowOf
<1> QED BY <1>1, ListInvHolds, PTL

-------------------------------------------------------------------------------
(* The counts.  A column is due while a refresh has yet to write it.       *)
Due(b, c) ==
    \/ pc[b] \in Listing
    \/ pc[b] \in Counting /\ c \in todo[b]
    \/ pc[b] \in {"compare", "overwrite"} /\ col[b] = c

(* No member can come, and no refresh went unfinished or crossed another.  *)
Quiet == ~crossed /\ \A b \in Threads : pc[b] \notin {"write", "failed"}

CountInv ==
    Quiet =>
        /\ \A b \in Threads : pc[b] \in {"compare", "overwrite"} =>
               col[b] \in Columns /\ count[b] = Size(Over[col[b]])
        /\ \A c \in Columns : card[c] = Size(Over[c]) \/ \E b \in Threads : Due(b, c)

LEMMA InitCountInv == Init => CountInv
<1> SUFFICES ASSUME Init, Quiet PROVE \A c \in Columns : card[c] = Size(Over[c])
  BY DEF Init, CountInv, Quiet
<1>1. ASSUME NEW c \in Columns PROVE Known(Over[c]) = {} /\ card[c] = 0
  BY <1>1, ColumnsOverDimensions DEF Init, Known
<1>2. Cardinality({}) = 0
  BY FS_EmptySet
<1> QED BY <1>1, <1>2 DEF Size

(* The steps that neither add members nor write counts.                    *)
LEMMA ListingKeepsCounts ==
  ASSUME Types, CountInv, NEW b \in Threads, pc[b] \in Listing,
         NEW p \in Listing \cup {"columns"}, pc' = [pc EXCEPT ![b] = p],
         UNCHANGED <<title, card, col, count, crossed>>,
         NEW set, todo' = [todo EXCEPT ![b] = set],
         p = "columns" => set = Columns
  PROVE  CountInv'
<1> SUFFICES ASSUME Quiet' PROVE CountInv'
  BY DEF CountInv
<1>1. pc'[b] = p /\ todo'[b] = set
      /\ \A t \in Threads : t # b => pc'[t] = pc[t] /\ todo'[t] = todo[t]
  BY DEF Types
<1>2. Quiet
  BY <1>1 DEF Quiet, Listing
<1>3. \A d : Size(d)' = Size(d)
  BY DEF Size, Known
<1>4. \A t \in Threads : pc'[t] \in {"compare", "overwrite"} =>
          (col[t] \in Columns /\ count[t] = Size(Over[col[t]]))'
  BY <1>1, <1>2, <1>3 DEF CountInv, Listing
<1>5. \A c \in Columns : Due(b, c)'
  BY <1>1 DEF Due, Listing, Counting
<1> QED BY <1>4, <1>5 DEF CountInv

LEMMA NextCountInv == ListInv /\ CountInv /\ [Next]_vars => CountInv'
<1> SUFFICES ASSUME ListInv, CountInv, [Next]_vars, Quiet' PROVE CountInv'
  BY DEF CountInv
<1>1. Types
  BY DEF ListInv
<1>2. ASSUME NEW b \in Threads, AddMember(b) PROVE FALSE
  <2>1. pc[b] = "write" /\ pc' = pc
    BY <1>2 DEF AddMember
  <2> QED BY <2>1 DEF Quiet
<1>3. ASSUME NEW b \in Threads, FailBatch(b) PROVE FALSE
  <2>1. pc'[b] = "failed"
    BY <1>1, <1>3 DEF FailBatch, Types
  <2> QED BY <2>1 DEF Quiet
<1>4. ASSUME NEW b \in Threads, Scan(b) PROVE CountInv'
  <2>1. /\ pc' = [pc EXCEPT ![b] = "dims"] /\ pc[b] = "write"
        /\ crossed' = (crossed \/ \E other \in Threads : Refreshing(other))
    BY <1>4 DEF Scan
  <2>2. pc'[b] = "dims" /\ \A t \in Threads : t # b => pc'[t] = pc[t]
    BY <1>1, <2>1 DEF Types
  <2>3. \A t \in Threads : pc'[t] \notin {"compare", "overwrite"}
    BY <2>1, <2>2 DEF Quiet, Refreshing
  <2>4. \A c \in Columns : Due(b, c)'
    BY <2>2 DEF Due, Listing
  <2> QED BY <2>3, <2>4 DEF CountInv
<1>5. ASSUME NEW b \in Threads, NEW d \in Dimensions, LockDimension(b, d) PROVE CountInv'
  <2>1. /\ pc[b] \in Listing /\ "rows" \in Listing \cup {"columns"}
        /\ pc' = [pc EXCEPT ![b] = "rows"]
        /\ todo' = [todo EXCEPT ![b] = todo[b]]
        /\ UNCHANGED <<title, card, col, count, crossed>>
    BY <1>1, <1>5 DEF LockDimension, Listing, Types
  <2> QED BY <1>1, <2>1, ListingKeepsCounts
<1>6. ASSUME NEW b \in Threads, NEW k \in Keys, NameRow(b, k) PROVE CountInv'
  <2>1. /\ pc[b] \in Listing /\ "put" \in Listing \cup {"columns"}
        /\ pc' = [pc EXCEPT ![b] = "put"]
        /\ todo' = [todo EXCEPT ![b] = todo[b]]
        /\ UNCHANGED <<title, card, col, count, crossed>>
    BY <1>1, <1>6 DEF NameRow, Listing, Types
  <2> QED BY <1>1, <2>1, ListingKeepsCounts
<1>7. ASSUME NEW b \in Threads, PutRow(b) PROVE CountInv'
  <2>1. /\ pc[b] \in Listing /\ "rows" \in Listing \cup {"columns"}
        /\ pc' = [pc EXCEPT ![b] = "rows"]
        /\ todo' = [todo EXCEPT ![b] = todo[b]]
        /\ UNCHANGED <<title, card, col, count, crossed>>
    BY <1>1, <1>7 DEF PutRow, Listing, Types
  <2> QED BY <1>1, <2>1, ListingKeepsCounts
<1>8. ASSUME NEW b \in Threads, UnlockDimension(b) PROVE CountInv'
  <2>1. PICK left : left = todo[b] \ {held[b]}
    OBVIOUS
  <2>2. PICK p, set :
            /\ p \in Listing \cup {"columns"}
            /\ p = (IF left = {} THEN "columns" ELSE "dims")
            /\ set = (IF left = {} THEN Columns ELSE left)
    BY DEF Listing
  <2>3. /\ pc[b] \in Listing
        /\ pc' = [pc EXCEPT ![b] = p]
        /\ todo' = [todo EXCEPT ![b] = set]
        /\ UNCHANGED <<title, card, col, count, crossed>>
    BY <1>8, <2>1, <2>2 DEF UnlockDimension, Listing
  <2> QED BY <1>1, <2>2, <2>3, ListingKeepsCounts
<1>9. ASSUME NEW b \in Threads, NEW c \in Columns, CountMembers(b, c) PROVE CountInv'
  <2>1. /\ pc[b] = "columns" /\ pc' = [pc EXCEPT ![b] = "compare"]
        /\ count' = [count EXCEPT ![b] = Size(Over[c])]
        /\ col' = [col EXCEPT ![b] = c]
        /\ todo' = [todo EXCEPT ![b] = @ \ {c}]
        /\ UNCHANGED <<title, card, crossed>>
    BY <1>9 DEF CountMembers
  <2>2. /\ pc'[b] = "compare" /\ count'[b] = Size(Over[c]) /\ col'[b] = c
        /\ todo'[b] = todo[b] \ {c}
        /\ \A t \in Threads : t # b =>
               pc'[t] = pc[t] /\ count'[t] = count[t] /\ col'[t] = col[t] /\ todo'[t] = todo[t]
    BY <1>1, <2>1 DEF Types
  <2>3. Quiet
    BY <2>1, <2>2 DEF Quiet
  <2>4. \A d : Size(d)' = Size(d)
    BY <2>1 DEF Size, Known
  <2>5. \A t \in Threads : pc'[t] \in {"compare", "overwrite"} =>
            (col[t] \in Columns /\ count[t] = Size(Over[col[t]]))'
    BY <2>2, <2>3, <2>4 DEF CountInv
  <2>6. \A x \in Columns, t \in Threads : Due(t, x) => Due(t, x)'
    BY <2>1, <2>2 DEF Due, Listing, Counting
  <2>7. \A x \in Columns : card'[x] = Size(Over[x])' \/ \E t \in Threads : Due(t, x)'
    BY <2>1, <2>3, <2>4, <2>6 DEF CountInv
  <2> QED BY <2>5, <2>7 DEF CountInv
<1>10. ASSUME NEW b \in Threads, CompareCount(b) \/ OverwriteCount(b) PROVE CountInv'
  <2>1. /\ pc[b] \in {"compare", "overwrite"}
        /\ UNCHANGED <<title, todo, col, count, crossed>>
        /\ \A x \in Columns : x # col[b] => card'[x] = card[x]
        /\ \/ pc' = [pc EXCEPT ![b] = "overwrite"] /\ card' = card
           \/ pc' = [pc EXCEPT ![b] = IF todo[b] = {} THEN "ok" ELSE "columns"]
              /\ (col[b] \in Columns => card'[col[b]] = count[b])
    <3>1. CASE CompareCount(b)
      BY <3>1 DEF CompareCount, NextColumn, refreshVars
    <3>2. CASE OverwriteCount(b)
      BY <3>2, <1>1 DEF OverwriteCount, NextColumn, refreshVars, Types
    <3> QED BY <1>10, <3>1, <3>2
  <2>2. /\ pc'[b] \in {"ok", "columns", "overwrite"}
        /\ \A t \in Threads : t # b => pc'[t] = pc[t]
    BY <1>1, <2>1 DEF Types
  <2>3. Quiet
    BY <2>1, <2>2 DEF Quiet
  <2>4. \A d : Size(d)' = Size(d)
    BY <2>1 DEF Size, Known
  <2>5. \A t \in Threads : pc'[t] \in {"compare", "overwrite"} =>
            (col[t] \in Columns /\ count[t] = Size(Over[col[t]]))'
    BY <2>1, <2>2, <2>3, <2>4 DEF CountInv
  <2>6. col[b] \in Columns /\ count[b] = Size(Over[col[b]])
    BY <2>1, <2>3 DEF CountInv
  <2>7. ASSUME NEW x \in Columns
        PROVE  card'[x] = Size(Over[x])' \/ \E t \in Threads : Due(t, x)'
    <3>1. ASSUME NEW t \in Threads, t # b, Due(t, x) PROVE Due(t, x)'
      BY <3>1, <2>1, <2>2 DEF Due
    <3>2. CASE pc' = [pc EXCEPT ![b] = "overwrite"] /\ card' = card
      <4>1. pc'[b] = "overwrite"
        BY <3>2, <1>1 DEF Types
      <4>2. Due(b, x) => Due(b, x)'
        BY <2>1, <4>1 DEF Due, Listing, Counting
      <4> QED BY <3>1, <3>2, <4>2, <2>3, <2>4 DEF CountInv
    <3>3. CASE /\ pc' = [pc EXCEPT ![b] = IF todo[b] = {} THEN "ok" ELSE "columns"]
               /\ card'[col[b]] = count[b]
      <4>1. CASE x = col[b]
        BY <3>3, <4>1, <2>4, <2>6
      <4>2. CASE x # col[b] /\ Due(b, x)
        <5>1. x \in todo[b]
          BY <2>1, <4>2 DEF Due, Listing
        <5>2. pc'[b] = "columns"
          BY <1>1, <3>3, <5>1 DEF Types
        <5>3. Due(b, x)'
          BY <2>1, <5>1, <5>2 DEF Due, Counting
        <5> QED BY <5>3
      <4>3. CASE x # col[b] /\ ~Due(b, x)
        BY <3>1, <4>3, <2>1, <2>3, <2>4 DEF CountInv
      <4> QED BY <4>1, <4>2, <4>3
    <3> QED BY <2>1, <2>6, <3>2, <3>3
  <2> QED BY <2>5, <2>7 DEF CountInv
<1>11. CASE Rebuild
  <2>1. /\ card' = [c \in Columns |-> Size(Over[c])]
        /\ UNCHANGED <<title, pc>>
        /\ \A b \in Threads : pc[b] \in {"ok", "failed", "write"}
    BY <1>11 DEF Rebuild
  <2>2. \A d : Size(d)' = Size(d)
    BY <2>1 DEF Size, Known
  <2> QED BY <2>1, <2>2 DEF CountInv
<1>12. CASE UNCHANGED vars
  BY <1>12 DEF vars, CountInv, Quiet, Due, Size, Known
<1> QED BY <1>2, <1>3, <1>4, <1>5, <1>6, <1>7, <1>8, <1>9, <1>10, <1>11, <1>12 DEF Next, Thread

(* With refreshes that did not overlap and no batch that failed, #Columns  *)
(* holds each column's number of members once every batch is answered      *)
(* (refresh_column_cardinalities counts after the batch has written).      *)
THEOREM CountsSettle == Spec => []CountsAreCurrent
<1>1. CountInv => CountsAreCurrent
  BY DEF CountInv, Quiet, Due, Listing, Counting, CountsAreCurrent, Settled, Current
<1> QED BY <1>1, InitCountInv, NextCountInv, ListInvHolds, PTL DEF Spec
===============================================================================
