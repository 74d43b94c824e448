----------------------------- MODULE SystemCubes -----------------------------
(***************************************************************************)
(* The derived cubes #Members and #Columns while clients create members:   *)
(* a batch with createMissing adds its members and, when it is answered    *)
(* "ok", its thread refreshes both cubes in place, next to the batches and *)
(* refreshes of other threads.  A dimension is behind a lock of its own;   *)
(* refresh_members holds it for as long as it lists the dimension.         *)
(*                                                                         *)
(* Members are found by a key, the lower-cased name; the name kept is the  *)
(* first one given, in a dimension and in the dictionary #Member alike.    *)
(* Every leaf is in every hierarchy, so one row stands for the rows of all *)
(* hierarchies.  The rows about the system cubes' own columns, which only  *)
(* a rebuild writes, are left out.                                         *)
(***************************************************************************)
EXTENDS Naturals, Sequences, FiniteSets

CONSTANTS Names, Keys,
          Key,         \* name -> its lower-case form
          Dimensions,  \* the user dimensions
          Columns,     \* columns of the user cubes
          Over,        \* column -> its dimension
          Batches,     \* batch -> sequence of [dim, name]
          None

ASSUME KeysOfNames == Key \in [Names -> Keys]
ASSUME ColumnsOverDimensions == Over \in [Columns -> Dimensions]
ASSUME BatchesNameMembers ==
    \A b \in DOMAIN Batches : Batches[b] \in Seq([dim : Dimensions, name : Names])
ASSUME NoneIsNone == None \notin Names \cup Dimensions \cup Columns \cup Keys

VARIABLES title,    \* dimension -> key -> name, or None
          dict,     \* the dictionary #Member: key -> name, or None
          rows,     \* cells of #Members, by dimension and key
          card,     \* #Columns: column -> its cardinality
          pc,       \* batch -> where its thread is
          at,       \* batch -> members it has added
          seen,     \* batch -> rows found by the scan, by dimension and name
          todo,     \* batch -> dimensions, then columns, still to visit
          held,     \* batch -> the dimension it holds the lock of
          missing,  \* batch -> keys of that dimension to list
          key,      \* batch -> the key whose row is being written
          col,      \* batch -> the column being counted
          count,    \* batch -> its number of members
          crossed   \* history: two refreshes have overlapped

vars == <<title, dict, rows, card, pc, at, seen, todo, held, missing, key, col, count, crossed>>
refreshVars == <<seen, todo, held, missing, key, col, count>>

Threads == DOMAIN Batches
Refreshing(b) == pc[b] \in {"dims", "rows", "put", "columns", "compare", "overwrite"}

Known(d) == {k \in Keys : title[d][k] # None}
Size(d) == Cardinality(Known(d))
Free(d) == \A b \in Threads : held[b] # d

Init ==
    /\ title = [d \in Dimensions |-> [k \in Keys |-> None]]
    /\ dict = [k \in Keys |-> None]
    /\ rows = {}
    /\ card = [c \in Columns |-> 0]
    /\ pc = [b \in Threads |-> "write"]
    /\ at = [b \in Threads |-> 0]
    /\ seen = [b \in Threads |-> {}]
    /\ todo = [b \in Threads |-> {}]
    /\ held = [b \in Threads |-> None]
    /\ missing = [b \in Threads |-> {}]
    /\ key = [b \in Threads |-> None]
    /\ col = [b \in Threads |-> None]
    /\ count = [b \in Threads |-> 0]
    /\ crossed = FALSE

-------------------------------------------------------------------------------
(* The batch.                                                              *)

(* Dimension::add_leaf, under the dimension's lock.                        *)
AddMember(b) ==
    /\ pc[b] = "write" /\ at[b] < Len(Batches[b])
    /\ LET m == Batches[b][at[b] + 1]
       IN  /\ Free(m.dim)
           /\ title' = [title EXCEPT ![m.dim][Key[m.name]] = IF @ = None THEN m.name ELSE @]
    /\ at' = [at EXCEPT ![b] = @ + 1]
    /\ UNCHANGED <<dict, rows, card, pc, refreshVars, crossed>>

(* write_cells fails at a later cell: it is answered without a refresh.    *)
FailBatch(b) ==
    /\ pc[b] = "write" /\ at[b] < Len(Batches[b])
    /\ pc' = [pc EXCEPT ![b] = "failed"]
    /\ UNCHANGED <<title, dict, rows, card, at, refreshVars, crossed>>

-------------------------------------------------------------------------------
(* refresh_members.                                                        *)

(* The rows there are, by the names they are read under.                   *)
Scan(b) ==
    /\ pc[b] = "write" /\ at[b] = Len(Batches[b])
    /\ seen' = [seen EXCEPT ![b] = {<<r[1], dict[r[2]]>> : r \in rows}]
    /\ todo' = [todo EXCEPT ![b] = Dimensions]
    /\ pc' = [pc EXCEPT ![b] = "dims"]
    /\ crossed' = (crossed \/ \E other \in Threads : Refreshing(other))
    /\ UNCHANGED <<title, dict, rows, card, at, held, missing, key, col, count>>

LockDimension(b, d) ==
    /\ pc[b] = "dims" /\ d \in todo[b] /\ Free(d)
    /\ held' = [held EXCEPT ![b] = d]
    /\ missing' = [missing EXCEPT ![b] = {k \in Known(d) : <<d, title[d][k]>> \notin seen[b]}]
    /\ pc' = [pc EXCEPT ![b] = "rows"]
    /\ UNCHANGED <<title, dict, rows, card, at, seen, todo, key, col, count, crossed>>

(* Mutant: a member the dictionary has is taken for one that is listed.    *)
NameRow_NewOnly(b, k) ==
    /\ pc[b] = "rows" /\ k \in missing[b]
    /\ IF dict[k] = None
          THEN /\ dict' = [dict EXCEPT ![k] = title[held[b]][k]]
               /\ key' = [key EXCEPT ![b] = k]
               /\ pc' = [pc EXCEPT ![b] = "put"]
               /\ UNCHANGED missing
          ELSE /\ missing' = [missing EXCEPT ![b] = @ \ {k}]
               /\ UNCHANGED <<dict, key, pc>>
    /\ UNCHANGED <<title, rows, card, at, seen, todo, held, col, count, crossed>>

(* put_existing: the member into the dictionary, under the lock of that ... *)
NameRow(b, k) ==
    /\ pc[b] = "rows" /\ k \in missing[b]
    /\ dict' = [dict EXCEPT ![k] = IF @ = None THEN title[held[b]][k] ELSE @]
    /\ key' = [key EXCEPT ![b] = k]
    /\ pc' = [pc EXCEPT ![b] = "put"]
    /\ UNCHANGED <<title, rows, card, at, seen, todo, held, missing, col, count, crossed>>

(* ... and the row into the store.                                         *)
PutRow(b) ==
    /\ pc[b] = "put"
    /\ rows' = rows \cup {<<held[b], key[b]>>}
    /\ missing' = [missing EXCEPT ![b] = @ \ {key[b]}]
    /\ pc' = [pc EXCEPT ![b] = "rows"]
    /\ UNCHANGED <<title, dict, card, at, seen, todo, held, key, col, count, crossed>>

(* Mutant: the lock outlives the visit.                                    *)
UnlockDimension_Keeps(b) ==
    /\ pc[b] = "rows" /\ missing[b] = {}
    /\ LET left == todo[b] \ {held[b]}
       IN  /\ todo' = [todo EXCEPT ![b] = IF left = {} THEN Columns ELSE left]
           /\ pc' = [pc EXCEPT ![b] = IF left = {} THEN "columns" ELSE "dims"]
    /\ UNCHANGED <<title, dict, rows, card, at, seen, held, missing, key, col, count, crossed>>

(* The dimension is done; after the last one come the columns.             *)
UnlockDimension(b) ==
    /\ pc[b] = "rows" /\ missing[b] = {}
    /\ LET left == todo[b] \ {held[b]}
       IN  /\ todo' = [todo EXCEPT ![b] = IF left = {} THEN Columns ELSE left]
           /\ pc' = [pc EXCEPT ![b] = IF left = {} THEN "columns" ELSE "dims"]
    /\ held' = [held EXCEPT ![b] = None]
    /\ UNCHANGED <<title, dict, rows, card, at, seen, missing, key, col, count, crossed>>

-------------------------------------------------------------------------------
(* refresh_column_cardinalities.                                           *)

NextColumn(b) ==
    /\ pc' = [pc EXCEPT ![b] = IF todo[b] = {} THEN "ok" ELSE "columns"]
    /\ UNCHANGED <<title, dict, rows, at, refreshVars, crossed>>

(* The members are counted under the dimension's lock ...                  *)
CountMembers(b, c) ==
    /\ pc[b] = "columns" /\ c \in todo[b] /\ Free(Over[c])
    /\ count' = [count EXCEPT ![b] = Size(Over[c])]
    /\ col' = [col EXCEPT ![b] = c]
    /\ todo' = [todo EXCEPT ![b] = @ \ {c}]
    /\ pc' = [pc EXCEPT ![b] = "compare"]
    /\ UNCHANGED <<title, dict, rows, card, at, seen, held, missing, key, crossed>>

(* Mutant: a count is written once.                                        *)
CompareCount_Once(b) ==
    /\ pc[b] = "compare"
    /\ UNCHANGED card
    /\ IF card[col[b]] # 0 THEN NextColumn(b)
       ELSE /\ pc' = [pc EXCEPT ![b] = "overwrite"]
            /\ UNCHANGED <<title, dict, rows, at, refreshVars, crossed>>

(* ... compared with the stored count ...                                  *)
CompareCount(b) ==
    /\ pc[b] = "compare"
    /\ UNCHANGED card
    /\ IF card[col[b]] = count[b] THEN NextColumn(b)
       ELSE /\ pc' = [pc EXCEPT ![b] = "overwrite"]
            /\ UNCHANGED <<title, dict, rows, at, refreshVars, crossed>>

(* ... and written over it, whatever it is by now.                         *)
OverwriteCount(b) ==
    /\ pc[b] = "overwrite"
    /\ card' = [card EXCEPT ![col[b]] = count[b]]
    /\ NextColumn(b)

-------------------------------------------------------------------------------
(* rebuild, when the catalog is loaded again and after every command of    *)
(* the command line: &mut Catalog, so nothing else runs.  The cubes are    *)
(* made anew; the dictionaries stay.                                       *)
Rebuild ==
    /\ \A b \in Threads : pc[b] \in {"ok", "failed"} \/ (pc[b] = "write" /\ at[b] = 0)
    /\ rows' = {r \in Dimensions \X Keys : r[2] \in Known(r[1])}
    /\ dict' \in {f \in [Keys -> Names \cup {None}] : \A k \in Keys :
                     IF dict[k] # None \/ \A d \in Dimensions : k \notin Known(d)
                     THEN f[k] = dict[k]
                     ELSE \E d \in Dimensions : k \in Known(d) /\ f[k] = title[d][k]}
    /\ card' = [c \in Columns |-> Size(Over[c])]
    /\ UNCHANGED <<title, pc, at, refreshVars, crossed>>

Thread(b) ==
    \/ AddMember(b) \/ Scan(b) \/ (\E d \in Dimensions : LockDimension(b, d))
    \/ (\E k \in Keys : NameRow(b, k)) \/ PutRow(b) \/ UnlockDimension(b)
    \/ (\E c \in Columns : CountMembers(b, c)) \/ CompareCount(b) \/ OverwriteCount(b)

Next == (\E b \in Threads : Thread(b) \/ FailBatch(b)) \/ Rebuild

Spec == Init /\ [][Next]_vars

(* A connection's thread runs until it has answered.                       *)
FairSpec == Spec /\ \A b \in Threads : WF_vars(Thread(b))

-------------------------------------------------------------------------------
(* The properties.                                                         *)

(* A batch that was answered "ok" has all its members listed, whichever    *)
(* refresh listed them, and under whatever spelling they already had.      *)
AnsweredMembersAreListed ==
    \A b \in Threads : pc[b] = "ok" =>
        \A k \in DOMAIN Batches[b] : <<Batches[b][k].dim, Key[Batches[b][k].name]>> \in rows

Settled == \A b \in Threads : pc[b] = "ok"
Current == \A c \in Columns : card[c] = Size(Over[c])

(* With refreshes that never overlapped, and every batch answered "ok",    *)
(* each column's cardinality is the number of its members.                 *)
CountsAreCurrent == Settled /\ ~crossed => Current

(* The threads that hold dimensions and wait for others all get through.   *)
EveryRefreshEnds == \A b \in Threads : pc[b] = "dims" ~> pc[b] = "ok"
===============================================================================
