----------------------------- MODULE Persistence -----------------------------
(***************************************************************************)
(* Saving the catalog while it is being written: Catalog::snapshot and     *)
(* save_to_disk run by POST /v1/save on connection threads, next to the    *)
(* threads of cell writes, with crashes of the process and restarts from   *)
(* the file.                                                               *)
(*                                                                         *)
(* A cell is named by the member it introduces: a batch is a sequence of   *)
(* members, each of which becomes a leaf of the shared dimension and then  *)
(* a cell of one cube.  Members not yet in the file stand for edits not    *)
(* yet saved.  The file system is modelled by what the code relies on:     *)
(* rename is atomic, and a file whose bytes were not synced may be torn by *)
(* a crash.                                                                *)
(***************************************************************************)
EXTENDS Naturals, Sequences, FiniteSets

CONSTANTS Cubes, Members,
          Batches,    \* batch -> [cube, members], a sequence of members
          Savers,     \* threads answering POST /v1/save
          Builds      \* builds considered: TRUE is one for Windows

ASSUME BatchesNameCubes ==
    \A b \in DOMAIN Batches :
        Batches[b].cube \in Cubes /\ Batches[b].members \in Seq(Members)
ASSUME BuildsAreBoolean == Builds \subseteq BOOLEAN

VARIABLES store,     \* cube -> its cells, by the member they are at
          dim,       \* members of the shared dimension
          done,      \* batch -> cells of it written in the current round
          added,     \* batch -> the next cell's member was just added
          pc,        \* saver -> where its thread is
          copied,    \* saver -> cubes its snapshot has cloned so far
          snap,      \* saver -> its snapshot
          temp,      \* saver -> its temporary file
          target,    \* the catalog's file
          asked,     \* history: saver -> the catalog when it was asked
          windows,   \* built for Windows
          promised,  \* history: the catalog of the saves answered "saved"
          spoiled    \* history: saves have overlapped, or the file was removed

memory  == <<store, dim, done, added>>
kept    == <<windows, promised, spoiled>>
vars    == <<memory, pc, copied, snap, temp, target, asked, kept>>

Threads  == DOMAIN Batches
NoCells  == [c \in Cubes |-> {}]
NoFile   == [kind |-> "none", cells |-> NoCells, dim |-> {}]
Kinds    == {"none", "buffered", "durable", "torn"}
File     == [kind : Kinds, cells : [Cubes -> SUBSET Members], dim : SUBSET Members]
Steps    == {"idle", "cubes", "dims", "create", "write", "sync", "rename", "retry"}
Image(kind) == [kind |-> kind, cells |-> store, dim |-> dim]

Init ==
    /\ store = NoCells
    /\ dim = {}
    /\ done = [b \in Threads |-> 0]
    /\ added = [b \in Threads |-> FALSE]
    /\ pc = [s \in Savers |-> "idle"]
    /\ copied = [s \in Savers |-> {}]
    /\ snap = [s \in Savers |-> NoFile]
    /\ temp = [s \in Savers |-> NoFile]
    /\ target = NoFile
    /\ asked = [s \in Savers |-> NoFile]
    /\ windows \in Builds
    /\ promised = NoFile
    /\ spoiled = FALSE

-------------------------------------------------------------------------------
(* Cube::write, cell by cell: the member under the dimension's lock, then  *)
(* the cell under the store's.                                             *)
NextMember(b) == Batches[b].members[done[b] + 1]

AddMember(b) ==
    /\ ~added[b] /\ done[b] < Len(Batches[b].members)
    /\ dim' = dim \cup {NextMember(b)}
    /\ added' = [added EXCEPT ![b] = TRUE]
    /\ UNCHANGED <<store, done, pc, copied, snap, temp, target, asked, kept>>

(* Mutant: the next member is looked up after the count has moved on.      *)
PutCell_Twice(b) ==
    /\ added[b]
    /\ store' = [store EXCEPT ![Batches[b].cube] = @ \cup {NextMember(b)}]
    /\ done' = [done EXCEPT ![b] = @ + 1]
    /\ UNCHANGED <<added, dim, pc, copied, snap, temp, target, asked, kept>>

PutCell(b) ==
    /\ added[b]
    /\ store' = [store EXCEPT ![Batches[b].cube] = @ \cup {NextMember(b)}]
    /\ done' = [done EXCEPT ![b] = @ + 1]
    /\ added' = [added EXCEPT ![b] = FALSE]
    /\ UNCHANGED <<dim, pc, copied, snap, temp, target, asked, kept>>

-------------------------------------------------------------------------------
(* A save.                                                                 *)

Goto(s, step) ==
    /\ pc' = [pc EXCEPT ![s] = step]
    /\ UNCHANGED <<copied, snap, asked>>

(* Answering the request drops the snapshot.                               *)
Answer(s) ==
    /\ pc' = [pc EXCEPT ![s] = "idle"]
    /\ copied' = [copied EXCEPT ![s] = {}]
    /\ snap' = [snap EXCEPT ![s] = NoFile]
    /\ asked' = [asked EXCEPT ![s] = NoFile]

Ask(s) ==
    /\ pc[s] = "idle"
    /\ asked' = [asked EXCEPT ![s] = Image("durable")]
    /\ pc' = [pc EXCEPT ![s] = "cubes"]
    /\ spoiled' = (spoiled \/ \E t \in Savers \ {s} : pc[t] # "idle")
    /\ UNCHANGED <<memory, copied, snap, temp, target, windows, promised>>

(* The cubes are cloned one by one, each under its own lock ...            *)
CopyCube(s, c) ==
    /\ pc[s] = "cubes" /\ c \notin copied[s]
    /\ snap' = [snap EXCEPT ![s].cells[c] = store[c]]
    /\ copied' = [copied EXCEPT ![s] = @ \cup {c}]
    /\ pc' = [pc EXCEPT ![s] = IF copied'[s] = Cubes THEN "dims" ELSE "cubes"]
    /\ UNCHANGED <<memory, temp, target, asked, kept>>

(* Mutant: the dimension is cloned as it was before the cubes.             *)
CopyDimension_First(s) ==
    /\ pc[s] = "dims"
    /\ snap' = [snap EXCEPT ![s].dim = asked[s].dim]
    /\ pc' = [pc EXCEPT ![s] = "create"]
    /\ UNCHANGED <<memory, copied, temp, target, asked, kept>>

(* ... and then the dimensions.                                            *)
CopyDimension(s) ==
    /\ pc[s] = "dims"
    /\ snap' = [snap EXCEPT ![s].dim = dim]
    /\ pc' = [pc EXCEPT ![s] = "create"]
    /\ UNCHANGED <<memory, copied, temp, target, asked, kept>>

(* Mutant: the temporary file is left where it is.                         *)
Fail_KeepsTemp(s) == Answer(s) /\ UNCHANGED temp

(* An error: the temporary file is removed and the save refused.           *)
Fail(s) ==
    /\ temp' = [temp EXCEPT ![s] = NoFile]
    /\ Answer(s)

(* File::create under a name of its own.                                   *)
CreateTemp(s) ==
    /\ pc[s] = "create"
    /\ \/ /\ temp' = [temp EXCEPT ![s] = [NoFile EXCEPT !.kind = "torn"]]
          /\ Goto(s, "write")
       \/ Fail(s)
    /\ UNCHANGED <<memory, target, kept>>

WriteTemp(s) ==
    /\ pc[s] = "write"
    /\ \/ /\ temp' = [temp EXCEPT ![s] = [snap[s] EXCEPT !.kind = "buffered"]]
          /\ Goto(s, "sync")
       \/ Fail(s)
    /\ UNCHANGED <<memory, target, kept>>

(* Mutant: no fsync.                                                       *)
SyncTemp_NoSync(s) ==
    /\ pc[s] = "sync"
    /\ Goto(s, "rename")
    /\ UNCHANGED <<memory, temp, target, kept>>

SyncTemp(s) ==
    /\ pc[s] = "sync"
    /\ \/ temp' = [temp EXCEPT ![s].kind = "durable"] /\ Goto(s, "rename")
       \/ Fail(s)
    /\ UNCHANGED <<memory, target, kept>>

(* What all the saves answered so far have promised to keep.               *)
Joined(f, g) == [kind |-> "durable", dim |-> f.dim \cup g.dim,
                 cells |-> [c \in Cubes |-> f.cells[c] \cup g.cells[c]]]

Publish(s) ==
    /\ target' = temp[s]
    /\ temp' = [temp EXCEPT ![s] = NoFile]
    /\ promised' = Joined(promised, asked[s])
    /\ Answer(s)
    /\ UNCHANGED <<windows, spoiled>>

(* Mutant: the old file is always removed first, and on any platform.      *)
Rename_RemovesFirst(s) ==
    /\ pc[s] = "rename"
    /\ target' = NoFile
    /\ Goto(s, "retry")
    /\ UNCHANGED <<memory, temp, kept>>

(* rename over the live file; when that fails, Windows removes the live    *)
(* file (if it can) to try again.                                          *)
Rename(s) ==
    /\ pc[s] = "rename"
    /\ \/ Publish(s)
       \/ ~windows /\ Fail(s) /\ UNCHANGED <<target, kept>>
       \/ /\ windows /\ target' \in {target, NoFile}
          /\ spoiled' = (spoiled \/ target' # target)
          /\ Goto(s, "retry") /\ UNCHANGED <<temp, windows, promised>>
    /\ UNCHANGED memory

Retry(s) ==
    /\ pc[s] = "retry"
    /\ Publish(s) \/ (Fail(s) /\ UNCHANGED <<target, kept>>)
    /\ UNCHANGED memory

-------------------------------------------------------------------------------
(* The process dies and starts again from the file, or empty if it finds   *)
(* none that it can read.  Temporary files keep names nobody uses again.   *)
Crash ==
    /\ \E survived \in {target} \cup (IF target.kind = "buffered"
                                      THEN {[NoFile EXCEPT !.kind = "torn"]} ELSE {}) :
           /\ target' = survived
           /\ store' = survived.cells
           /\ dim' = survived.dim
    /\ done' = [b \in Threads |-> 0]
    /\ added' = [b \in Threads |-> FALSE]
    /\ pc' = [s \in Savers |-> "idle"]
    /\ copied' = [s \in Savers |-> {}]
    /\ snap' = [s \in Savers |-> NoFile]
    /\ temp' = [s \in Savers |-> NoFile]
    /\ asked' = [s \in Savers |-> NoFile]
    /\ UNCHANGED kept

SaveStep(s) ==
    \/ Ask(s) \/ (\E c \in Cubes : CopyCube(s, c)) \/ CopyDimension(s)
    \/ CreateTemp(s) \/ WriteTemp(s) \/ SyncTemp(s) \/ Rename(s) \/ Retry(s)

Next ==
    \/ \E b \in Threads : AddMember(b) \/ PutCell(b)
    \/ \E s \in Savers : SaveStep(s)
    \/ Crash

Spec == Init /\ [][Next]_vars

-------------------------------------------------------------------------------
(* The properties.                                                         *)

TypeOK ==
    /\ store \in [Cubes -> SUBSET Members] /\ dim \subseteq Members
    /\ done \in [Threads -> Nat] /\ added \in [Threads -> BOOLEAN]
    /\ \A b \in Threads : done[b] <= Len(Batches[b].members)
    /\ \A b \in Threads : added[b] => done[b] < Len(Batches[b].members)
    /\ pc \in [Savers -> Steps] /\ copied \in [Savers -> SUBSET Cubes]
    /\ snap \in [Savers -> File] /\ temp \in [Savers -> File]
    /\ asked \in [Savers -> File] /\ target \in File /\ promised \in File
    /\ windows \in BOOLEAN /\ spoiled \in BOOLEAN

(* A crash finds the complete old file or the complete new one, never a    *)
(* part of one: only what was written and synced is renamed.               *)
LiveFileIsWhole == target.kind # "torn"

(* Every cell in the file is at a member the saved dimension has, although *)
(* members and cells are added while the clones are taken: the cubes are   *)
(* cloned first, and a member is added before its cell.                    *)
SavedCellsAreAddressable ==
    \A c \in Cubes : target.cells[c] \subseteq target.dim

(* A save that was answered, either way, leaves no temporary file.         *)
AnsweredSavesLeaveNoTemp ==
    \A s \in Savers : pc[s] = "idle" => temp[s] = NoFile

Holds(f, g) == g.dim \subseteq f.dim /\ \A c \in Cubes : g.cells[c] \subseteq f.cells[c]

(* WRITE-API-DESIGN.md:130 says that a crash after the response is safe:   *)
(* the file has all that was in memory when an answered save was asked     *)
(* for.                                                                    *)
AnsweredSavesSurvive ==
    promised.kind = "durable" => target.kind = "durable" /\ Holds(target, promised)

(* It is, whatever fails and crashes, as long as saves do not overlap and  *)
(* the live file is not removed to make a rename on Windows succeed.       *)
UnspoiledSavesSurvive == ~spoiled => AnsweredSavesSurvive
===============================================================================
