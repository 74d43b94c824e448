--------------------------- MODULE PersistenceProofs ---------------------------
(***************************************************************************)
(* Proofs about Persistence, for any cubes, members, batches and savers.   *)
(*                                                                         *)
(* What the file holds is decided many steps before the rename.  IInv      *)
(* follows it backwards: the temporary file is a snapshot that was written *)
(* and synced, a snapshot's cells are at members its dimension has because *)
(* the dimension is cloned last and members come before cells.  DurableInv *)
(* adds, while nothing is spoiled, that saves are alone and that a         *)
(* snapshot is between what was asked for and what is in memory.           *)
(***************************************************************************)
EXTENDS Persistence, TLAPS

(* Every cell is at a member the dimension has.                            *)
Sound(f) == \A c \in Cubes : f.cells[c] \subseteq f.dim

(* A member is added before its cell.                                      *)
MemoryInv ==
    /\ \A c \in Cubes : store[c] \subseteq dim
    /\ \A b \in Threads : added[b] => NextMember(b) \in dim

FileInv == target.kind \in {"none", "durable"} /\ Sound(target)

(* What each step of a save may rely on.                                   *)
SaverInv(s) ==
    /\ pc[s] = "idle" => snap[s] = NoFile /\ temp[s] = NoFile /\ copied[s] = {}
    /\ pc[s] \in {"cubes", "dims"} => \A c \in Cubes : snap[s].cells[c] \subseteq dim
    /\ pc[s] \in {"create", "write"} => Sound(snap[s])
    /\ pc[s] \in {"idle", "cubes", "dims", "create"} => temp[s] = NoFile
    /\ pc[s] \in {"sync", "rename", "retry"} => Sound(temp[s])
    /\ pc[s] \in {"rename", "retry"} => temp[s].kind = "durable"

IInv == TypeOK /\ MemoryInv /\ FileInv /\ \A s \in Savers : SaverInv(s)

InMemory(f) == Holds(Image("durable"), f)

(* A save on its way: what was asked for, then the snapshot, then memory;  *)
(* the live file is older than all of them.                                *)
ProgressInv(s) ==
    /\ pc[s] # "idle" => InMemory(asked[s]) /\ Holds(asked[s], target)
    /\ pc[s] \in {"cubes", "dims"} =>
           /\ \A c \in copied[s] : asked[s].cells[c] \subseteq snap[s].cells[c]
           /\ \A c \in Cubes : snap[s].cells[c] \subseteq store[c]
    /\ pc[s] = "dims" => copied[s] = Cubes
    /\ pc[s] \in {"create", "write"} => InMemory(snap[s]) /\ Holds(snap[s], asked[s])
    /\ pc[s] \in {"sync", "rename", "retry"} => InMemory(temp[s]) /\ Holds(temp[s], asked[s])

(* No two saves at once.                                                   *)
Alone == \A s, t \in Savers : pc[s] # "idle" /\ pc[t] # "idle" => s = t

DurableInv ==
    /\ InMemory(target)
    /\ AnsweredSavesSurvive
    /\ promised.kind = "durable" \/ promised = NoFile
    /\ Alone
    /\ \A s \in Savers : ProgressInv(s)

-------------------------------------------------------------------------------
USE DEF vars, memory, kept, Threads, NoCells, NoFile, Kinds, File, Steps, Image

LEMMA InitIInv == Init => IInv
<1> SUFFICES ASSUME Init PROVE IInv
  OBVIOUS
<1>1. TypeOK
  <2>1. windows \in BOOLEAN /\ spoiled \in BOOLEAN
    BY BuildsAreBoolean, Zenon DEF Init
  <2> QED BY <2>1, BatchesNameCubes DEF Init, TypeOK
<1>2. MemoryInv /\ FileInv
  BY DEF Init, MemoryInv, FileInv, Sound
<1>3. \A s \in Savers : SaverInv(s)
  BY DEF Init, SaverInv
<1> QED BY <1>1, <1>2, <1>3 DEF IInv

(* The member a batch is about to write is one of the batch.               *)
LEMMA NextIsMember ==
  ASSUME TypeOK, NEW b \in Threads, done[b] < Len(Batches[b].members)
  PROVE  /\ NextMember(b) \in Members
         /\ Batches[b].cube \in Cubes
         /\ done[b] \in Nat /\ done[b] + 1 <= Len(Batches[b].members)
<1>1. Batches[b].members \in Seq(Members) /\ Batches[b].cube \in Cubes
  BY BatchesNameCubes
<1>2. done[b] \in Nat /\ done[b] + 1 \in 1..Len(Batches[b].members)
  BY <1>1 DEF TypeOK
<1> QED BY <1>1, <1>2 DEF NextMember

(* More members in memory disturb nothing that is already cloned.          *)
LEMMA MemoryGrows ==
  ASSUME IInv, dim \subseteq dim', UNCHANGED <<pc, copied, snap, temp, target>>
  PROVE  FileInv' /\ \A s \in Savers : SaverInv(s)'
<1>1. FileInv'
  BY DEF IInv, FileInv, Sound
<1>2. \A s \in Savers : SaverInv(s)'
  BY DEF IInv, SaverInv, Sound
<1> QED BY <1>1, <1>2

(* The member of the next cell, under the dimension's lock.                *)
LEMMA AddMemberIInv ==
  ASSUME IInv, NEW b \in Threads, AddMember(b)
  PROVE  IInv'
<1>0. TypeOK
  BY DEF IInv
<1>1. NextMember(b) \in Members
  BY <1>0, NextIsMember DEF AddMember
<1>2. TypeOK'
  BY <1>0, <1>1 DEF TypeOK, AddMember
<1>3. MemoryInv'
  <2>1. \A c \in Cubes : store'[c] \subseteq dim'
    BY DEF IInv, MemoryInv, AddMember
  <2>2. \A d \in Threads : added'[d] => NextMember(d) \in dim' /\ NextMember(d)' = NextMember(d)
    BY <1>0 DEF IInv, TypeOK, MemoryInv, AddMember, NextMember
  <2> QED BY <2>1, <2>2 DEF MemoryInv
<1>4. FileInv' /\ \A s \in Savers : SaverInv(s)'
  BY MemoryGrows DEF AddMember
<1> QED BY <1>2, <1>3, <1>4 DEF IInv

(* The cell, under the store's lock.                                       *)
LEMMA PutCellIInv ==
  ASSUME IInv, NEW b \in Threads, PutCell(b)
  PROVE  IInv'
<1>0. TypeOK
  BY DEF IInv
<1>1. done[b] < Len(Batches[b].members)
  BY <1>0 DEF TypeOK, PutCell
<1>2. /\ NextMember(b) \in Members
      /\ Batches[b].cube \in Cubes
      /\ done[b] \in Nat /\ done[b] + 1 <= Len(Batches[b].members)
  BY <1>0, <1>1, NextIsMember
<1>3. TypeOK'
  <2>1. store' \in [Cubes -> SUBSET Members] /\ dim' \subseteq Members
    BY <1>0, <1>2 DEF TypeOK, PutCell
  <2>2. /\ done' \in [Threads -> Nat] /\ added' \in [Threads -> BOOLEAN]
        /\ \A d \in Threads : done'[d] <= Len(Batches[d].members)
    BY <1>0, <1>2 DEF TypeOK, PutCell
  <2>3. \A d \in Threads : added'[d] => done'[d] < Len(Batches[d].members)
    BY <1>0, <1>2 DEF TypeOK, PutCell
  <2> QED BY <1>0, <2>1, <2>2, <2>3 DEF TypeOK, PutCell
<1>4. MemoryInv'
  <2>1. \A c \in Cubes : store'[c] \subseteq dim'
    BY <1>0 DEF IInv, TypeOK, MemoryInv, PutCell
  <2>2. \A d \in Threads : added'[d] => NextMember(d)' \in dim'
    BY <1>0 DEF IInv, TypeOK, MemoryInv, PutCell, NextMember
  <2> QED BY <2>1, <2>2 DEF MemoryInv
<1>5. FileInv' /\ \A s \in Savers : SaverInv(s)'
  BY MemoryGrows DEF PutCell
<1> QED BY <1>3, <1>4, <1>5 DEF IInv

-------------------------------------------------------------------------------
(* Steps of a save: memory is left alone, and so are the other savers.     *)
Others(s) == \A t \in Savers \ {s} :
    pc'[t] = pc[t] /\ copied'[t] = copied[t] /\ snap'[t] = snap[t] /\ temp'[t] = temp[t]

LEMMA SaveFrame ==
  ASSUME IInv, NEW s \in Savers, UNCHANGED memory, Others(s), SaverInv(s)'
  PROVE  MemoryInv' /\ \A t \in Savers : SaverInv(t)'
<1>1. MemoryInv'
  BY DEF IInv, MemoryInv, NextMember
<1>2. ASSUME NEW t \in Savers \ {s} PROVE SaverInv(t)'
  BY <1>2 DEF IInv, SaverInv, Sound, Others
<1> QED BY <1>1, <1>2

(* A request comes in.                                                     *)
LEMMA AskIInv ==
  ASSUME IInv, NEW s \in Savers, Ask(s)
  PROVE  IInv'
<1>1. TypeOK'
  BY DEF IInv, TypeOK, Ask
<1>2. FileInv' /\ Others(s)
  BY DEF IInv, TypeOK, FileInv, Sound, Ask, Others
<1>3. SaverInv(s)'
  BY DEF IInv, TypeOK, SaverInv, Ask
<1> QED BY <1>1, <1>2, <1>3, SaveFrame DEF IInv, Ask

(* A cube is cloned: its cells are at members memory has by now.           *)
LEMMA CopyCubeIInv ==
  ASSUME IInv, NEW s \in Savers, NEW c \in Cubes, CopyCube(s, c)
  PROVE  IInv'
<1>1. TypeOK'
  BY DEF IInv, TypeOK, CopyCube
<1>2. FileInv' /\ Others(s)
  BY DEF IInv, TypeOK, FileInv, Sound, CopyCube, Others
<1>3. SaverInv(s)'
  BY DEF IInv, TypeOK, MemoryInv, SaverInv, CopyCube
<1> QED BY <1>1, <1>2, <1>3, SaveFrame DEF IInv, CopyCube

(* The dimension is cloned last, and has every member of the cells cloned. *)
LEMMA CopyDimensionIInv ==
  ASSUME IInv, NEW s \in Savers, CopyDimension(s)
  PROVE  IInv'
<1>1. TypeOK'
  BY DEF IInv, TypeOK, CopyDimension
<1>2. FileInv' /\ Others(s)
  BY DEF IInv, TypeOK, FileInv, Sound, CopyDimension, Others
<1>3. SaverInv(s)'
  BY DEF IInv, TypeOK, SaverInv, Sound, CopyDimension
<1> QED BY <1>1, <1>2, <1>3, SaveFrame DEF IInv, CopyDimension

(* An answer, of either kind, ends the save.                               *)
LEMMA AnswerIInv ==
  ASSUME IInv, NEW s \in Savers, Answer(s), temp' = [temp EXCEPT ![s] = NoFile],
         UNCHANGED <<memory, windows, spoiled>>,
         target' \in File, promised' \in File, FileInv'
  PROVE  IInv'
<1>1. NoFile \in File
  OBVIOUS
<1>2. TypeOK'
  BY <1>1 DEF IInv, TypeOK, Answer
<1>3. Others(s)
  BY DEF IInv, TypeOK, Answer, Others
<1>4. SaverInv(s)'
  BY DEF IInv, TypeOK, SaverInv, Answer
<1> QED BY <1>2, <1>3, <1>4, SaveFrame DEF IInv

(* A save that fails leaves the live file as it is.                        *)
LEMMA FailIInv ==
  ASSUME IInv, NEW s \in Savers, Fail(s), UNCHANGED <<memory, target, kept>>
  PROVE  IInv'
<1>1. FileInv' /\ target' \in File /\ promised' \in File
  BY DEF IInv, TypeOK, FileInv, Sound
<1> QED BY <1>1, AnswerIInv DEF Fail

(* The rename puts the synced file in place of the live one.               *)
LEMMA PublishIInv ==
  ASSUME IInv, NEW s \in Savers, Publish(s), UNCHANGED memory,
         pc[s] \in {"rename", "retry"}
  PROVE  IInv'
<1>1. FileInv' /\ target' \in File
  BY DEF IInv, TypeOK, SaverInv, FileInv, Sound, Publish
<1>2. promised' \in File
  BY DEF IInv, TypeOK, Publish, Joined
<1> QED BY <1>1, <1>2, AnswerIInv DEF Publish

LEMMA CreateTempIInv ==
  ASSUME IInv, NEW s \in Savers, CreateTemp(s)
  PROVE  IInv'
<1>1. CASE Fail(s)
  BY <1>1, FailIInv DEF CreateTemp
<1>2. CASE temp' = [temp EXCEPT ![s] = [NoFile EXCEPT !.kind = "torn"]] /\ Goto(s, "write")
  <2>1. TypeOK'
    BY <1>2 DEF IInv, TypeOK, CreateTemp, Goto
  <2>2. FileInv' /\ Others(s)
    BY <1>2 DEF IInv, TypeOK, FileInv, Sound, CreateTemp, Goto, Others
  <2>3. SaverInv(s)'
    BY <1>2 DEF IInv, TypeOK, SaverInv, Sound, CreateTemp, Goto
  <2> QED BY <2>1, <2>2, <2>3, SaveFrame DEF IInv, CreateTemp
<1> QED BY <1>1, <1>2 DEF CreateTemp

LEMMA WriteTempIInv ==
  ASSUME IInv, NEW s \in Savers, WriteTemp(s)
  PROVE  IInv'
<1>1. CASE Fail(s)
  BY <1>1, FailIInv DEF WriteTemp
<1>2. CASE temp' = [temp EXCEPT ![s] = [snap[s] EXCEPT !.kind = "buffered"]] /\ Goto(s, "sync")
  <2>1. TypeOK'
    BY <1>2 DEF IInv, TypeOK, WriteTemp, Goto
  <2>2. FileInv' /\ Others(s)
    BY <1>2 DEF IInv, TypeOK, FileInv, Sound, WriteTemp, Goto, Others
  <2>3. SaverInv(s)'
    BY <1>2 DEF IInv, TypeOK, SaverInv, Sound, WriteTemp, Goto
  <2> QED BY <2>1, <2>2, <2>3, SaveFrame DEF IInv, WriteTemp
<1> QED BY <1>1, <1>2 DEF WriteTemp

(* fsync: from here on the temporary file may be renamed.                  *)
LEMMA SyncTempIInv ==
  ASSUME IInv, NEW s \in Savers, SyncTemp(s)
  PROVE  IInv'
<1>1. CASE Fail(s)
  BY <1>1, FailIInv DEF SyncTemp
<1>2. CASE temp' = [temp EXCEPT ![s].kind = "durable"] /\ Goto(s, "rename")
  <2>1. TypeOK'
    BY <1>2 DEF IInv, TypeOK, SyncTemp, Goto
  <2>2. FileInv' /\ Others(s)
    BY <1>2 DEF IInv, TypeOK, FileInv, Sound, SyncTemp, Goto, Others
  <2>3. SaverInv(s)'
    BY <1>2 DEF IInv, TypeOK, SaverInv, Sound, SyncTemp, Goto
  <2> QED BY <2>1, <2>2, <2>3, SaveFrame DEF IInv, SyncTemp
<1> QED BY <1>1, <1>2 DEF SyncTemp

LEMMA RenameIInv ==
  ASSUME IInv, NEW s \in Savers, Rename(s)
  PROVE  IInv'
<1>1. CASE Publish(s)
  BY <1>1, PublishIInv DEF Rename
<1>2. CASE Fail(s) /\ UNCHANGED <<target, kept>>
  BY <1>2, FailIInv DEF Rename
<1>3. CASE /\ target' \in {target, NoFile} /\ Goto(s, "retry")
           /\ spoiled' = (spoiled \/ target' # target) /\ UNCHANGED <<temp, windows, promised>>
  <2>1. NoFile \in File /\ Sound(NoFile)
    BY DEF Sound
  <2>2. TypeOK'
    BY <1>3, <2>1 DEF IInv, TypeOK, Rename, Goto
  <2>3. FileInv' /\ Others(s)
    BY <1>3, <2>1 DEF IInv, TypeOK, FileInv, Sound, Rename, Goto, Others
  <2>4. SaverInv(s)'
    BY <1>3 DEF IInv, TypeOK, SaverInv, Sound, Rename, Goto
  <2> QED BY <2>2, <2>3, <2>4, SaveFrame DEF IInv, Rename
<1> QED BY <1>1, <1>2, <1>3 DEF Rename

LEMMA RetryIInv ==
  ASSUME IInv, NEW s \in Savers, Retry(s)
  PROVE  IInv'
  BY PublishIInv, FailIInv DEF Retry

(* The live file is never one that a crash can tear, so the restart finds  *)
(* it as it was; everything else starts afresh.                            *)
LEMMA CrashIInv ==
  ASSUME IInv, Crash
  PROVE  IInv'
<1>1. /\ target' = target /\ target \in File /\ target.kind # "buffered"
      /\ store' = target.cells /\ dim' = target.dim
  BY DEF IInv, TypeOK, FileInv, Crash
<1>2. TypeOK'
  BY <1>1, BatchesNameCubes DEF IInv, TypeOK, Crash
<1>3. MemoryInv' /\ FileInv'
  BY <1>1 DEF IInv, FileInv, Sound, MemoryInv, Crash
<1>4. \A s \in Savers : SaverInv(s)'
  BY <1>1 DEF IInv, SaverInv, Sound, Crash
<1> QED BY <1>2, <1>3, <1>4 DEF IInv

LEMMA NextIInv == IInv /\ [Next]_vars => IInv'
<1> SUFFICES ASSUME IInv, [Next]_vars PROVE IInv'
  OBVIOUS
<1>1. ASSUME NEW b \in Threads, AddMember(b) \/ PutCell(b) PROVE IInv'
  BY <1>1, AddMemberIInv, PutCellIInv
<1>2. ASSUME NEW s \in Savers, SaveStep(s) PROVE IInv'
  BY <1>2, AskIInv, CopyCubeIInv, CopyDimensionIInv, CreateTempIInv, WriteTempIInv,
     SyncTempIInv, RenameIInv, RetryIInv DEF SaveStep
<1>3. CASE Crash
  BY <1>3, CrashIInv
<1>4. CASE UNCHANGED vars
  <2>1. MemoryInv'
    BY <1>4 DEF IInv, MemoryInv, NextMember
  <2> QED BY <1>4, <2>1 DEF IInv, TypeOK, FileInv, SaverInv, Sound
<1> QED BY <1>1, <1>2, <1>3, <1>4 DEF Next

-------------------------------------------------------------------------------
(* The inductive invariant holds in every reachable state.                 *)
THEOREM Invariance == Spec => []IInv
  BY InitIInv, NextIInv, PTL DEF Spec

(* Every variable keeps its type, for any batches, cubes and savers.       *)
THEOREM TypeCorrect == Spec => []TypeOK
<1>1. IInv => TypeOK
  BY DEF IInv
<1> QED BY <1>1, Invariance, PTL

(* save_to_disk: whatever crashes, fails or overlaps, the file under the   *)
(* live name is a complete one.                                            *)
THEOREM WholeFile == Spec => []LiveFileIsWhole
<1>1. IInv => LiveFileIsWhole
  BY DEF IInv, FileInv, LiveFileIsWhole
<1> QED BY <1>1, Invariance, PTL

(* snapshot: the cubes before the dimensions, so that every cell in the    *)
(* file is at a member the file has.                                       *)
THEOREM Addressable == Spec => []SavedCellsAreAddressable
<1>1. IInv => SavedCellsAreAddressable
  BY DEF IInv, FileInv, Sound, SavedCellsAreAddressable
<1> QED BY <1>1, Invariance, PTL

(* save_to_disk removes its temporary file before it answers.              *)
THEOREM NoDebris == Spec => []AnsweredSavesLeaveNoTemp
<1>1. IInv => AnsweredSavesLeaveNoTemp
  BY DEF IInv, SaverInv, AnsweredSavesLeaveNoTemp
<1> QED BY <1>1, Invariance, PTL

-------------------------------------------------------------------------------
(* Saves that do not overlap.                                              *)

LEMMA InitDurable == Init => DurableInv
  BY DEF Init, DurableInv, Alone, InMemory, Holds, AnsweredSavesSurvive, ProgressInv

(* Cells and members are only ever added while the process lives.          *)
LEMMA WriteDurable ==
  ASSUME IInv, DurableInv, NEW b \in Threads, AddMember(b) \/ PutCell(b)
  PROVE  DurableInv'
<1>1. /\ dim \subseteq dim' /\ \A c \in Cubes : store[c] \subseteq store'[c]
      /\ UNCHANGED <<pc, copied, snap, temp, target, asked, promised>>
  <2>1. CASE AddMember(b)
    BY <2>1 DEF AddMember
  <2>2. CASE PutCell(b)
    <3>1. \A c \in Cubes :
              store'[c] = IF c = Batches[b].cube THEN store[c] \cup {NextMember(b)} ELSE store[c]
      BY <2>2 DEF IInv, TypeOK, PutCell
    <3> QED BY <2>2, <3>1 DEF PutCell
  <2> QED BY <2>1, <2>2
<1>2. /\ InMemory(target)' /\ AnsweredSavesSurvive' /\ Alone'
      /\ (promised.kind = "durable" \/ promised = NoFile)'
  BY <1>1 DEF DurableInv, InMemory, Holds, AnsweredSavesSurvive, Alone
<1>3. ASSUME NEW s \in Savers PROVE ProgressInv(s)'
  BY <1>1 DEF DurableInv, ProgressInv, InMemory, Holds
<1> QED BY <1>2, <1>3 DEF DurableInv

(* Every save but s is idle, and stays so.                                 *)
OthersIdle(s) == \A t \in Savers \ {s} : pc[t] = "idle" /\ pc'[t] = "idle"

LEMMA RestIsIdle ==
  ASSUME NEW s \in Savers, OthersIdle(s), ProgressInv(s)'
  PROVE  Alone' /\ \A t \in Savers : ProgressInv(t)'
<1>1. ASSUME NEW t \in Savers \ {s} PROVE ProgressInv(t)'
  BY <1>1 DEF OthersIdle, ProgressInv
<1>2. Alone'
  BY DEF OthersIdle, Alone
<1> QED BY <1>1, <1>2

(* The steps of a save that leave the live file alone.                     *)
LEMMA QuietDurable ==
  ASSUME DurableInv, UNCHANGED <<memory, target, promised>>,
         NEW s \in Savers, OthersIdle(s), ProgressInv(s)'
  PROVE  DurableInv'
<1>1. InMemory(target)' /\ AnsweredSavesSurvive' /\ (promised.kind = "durable" \/ promised = NoFile)'
  BY DEF DurableInv, InMemory, Holds, AnsweredSavesSurvive
<1> QED BY <1>1, RestIsIdle DEF DurableInv

LEMMA FailDurable ==
  ASSUME IInv, DurableInv, UNCHANGED <<memory, target, promised>>,
         NEW s \in Savers, OthersIdle(s), Fail(s)
  PROVE  DurableInv'
<1>1. ProgressInv(s)'
  BY DEF IInv, TypeOK, Fail, Answer, ProgressInv
<1> QED BY <1>1, QuietDurable

(* What is published has all that was asked for, and what was asked for    *)
(* has all that the earlier answers promised.                              *)
LEMMA PublishDurable ==
  ASSUME IInv, DurableInv, NEW s \in Savers, OthersIdle(s),
         pc[s] \in {"rename", "retry"}, Publish(s), UNCHANGED memory
  PROVE  DurableInv'
<1>1. /\ target' = temp[s] /\ temp[s].kind = "durable"
      /\ InMemory(temp[s]) /\ Holds(temp[s], asked[s]) /\ Holds(asked[s], target)
  BY DEF IInv, DurableInv, SaverInv, ProgressInv, Publish
<1>2. InMemory(target)'
  BY <1>1 DEF InMemory, Holds
<1>3. Holds(target', asked[s]) /\ Holds(target', target)
  BY <1>1 DEF Holds
<1>4. Holds(target', promised)
  <2>1. CASE promised.kind = "durable"
    BY <1>3, <2>1 DEF DurableInv, AnsweredSavesSurvive, Holds
  <2>2. CASE promised.kind # "durable"
    BY <2>2 DEF DurableInv, Holds
  <2> QED BY <2>1, <2>2
<1>5. AnsweredSavesSurvive' /\ promised'.kind = "durable"
  BY <1>1, <1>3, <1>4 DEF Publish, Joined, AnsweredSavesSurvive, Holds
<1>6. ProgressInv(s)'
  BY DEF IInv, TypeOK, Publish, Answer, ProgressInv
<1> QED BY <1>2, <1>5, <1>6, RestIsIdle DEF DurableInv

(* A save that is asked for while nothing is spoiled afterwards is alone,  *)
(* and so is one that is on its way.                                       *)
LEMMA SavesAreAlone ==
  ASSUME IInv, DurableInv, NEW s \in Savers, SaveStep(s), ~spoiled'
  PROVE  OthersIdle(s)
<1>1. Ask(s) \/ pc[s] # "idle"
  BY DEF SaveStep, CopyCube, CopyDimension, CreateTemp, WriteTemp, SyncTemp, Rename, Retry
<1>2. \A t \in Savers \ {s} : pc[t] = "idle"
  BY <1>1 DEF DurableInv, Alone, Ask
<1>3. \A t \in Savers \ {s} : pc'[t] = pc[t]
  BY DEF IInv, TypeOK, SaveStep, Ask, CopyCube, CopyDimension, CreateTemp, WriteTemp, SyncTemp,
         Rename, Retry, Goto, Fail, Publish, Answer
<1> QED BY <1>2, <1>3 DEF OthersIdle

LEMMA SaveDurable ==
  ASSUME IInv, DurableInv, NEW s \in Savers, SaveStep(s), ~spoiled'
  PROVE  DurableInv'
<1> TypeOK /\ ProgressInv(s) /\ InMemory(target)
  BY DEF IInv, DurableInv
<1>0. OthersIdle(s)
  BY SavesAreAlone
<1>1. CASE Ask(s)
  <2>1. ProgressInv(s)'
    BY <1>1 DEF IInv, SaverInv, TypeOK, Ask, ProgressInv, InMemory, Holds
  <2> QED BY <1>0, <1>1, <2>1, QuietDurable DEF Ask
<1>2. ASSUME NEW c \in Cubes, CopyCube(s, c) PROVE DurableInv'
  <2>1. ProgressInv(s)'
    BY <1>2 DEF TypeOK, CopyCube, ProgressInv, InMemory, Holds
  <2> QED BY <1>0, <1>2, <2>1, QuietDurable DEF CopyCube
<1>3. CASE CopyDimension(s)
  <2>1. ProgressInv(s)'
    BY <1>3 DEF TypeOK, CopyDimension, ProgressInv, InMemory, Holds
  <2> QED BY <1>0, <1>3, <2>1, QuietDurable DEF CopyDimension
<1>4. CASE CreateTemp(s)
  <2>1. CASE Fail(s)
    BY <1>0, <1>4, <2>1, FailDurable DEF CreateTemp
  <2>2. CASE Goto(s, "write")
    <3>1. ProgressInv(s)'
      BY <1>4, <2>2 DEF TypeOK, CreateTemp, Goto, ProgressInv, InMemory, Holds
    <3> QED BY <1>0, <1>4, <3>1, QuietDurable DEF CreateTemp
  <2> QED BY <1>4, <2>1, <2>2 DEF CreateTemp
<1>5. CASE WriteTemp(s)
  <2>1. CASE Fail(s)
    BY <1>0, <1>5, <2>1, FailDurable DEF WriteTemp
  <2>2. CASE temp' = [temp EXCEPT ![s] = [snap[s] EXCEPT !.kind = "buffered"]] /\ Goto(s, "sync")
    <3>1. ProgressInv(s)'
      BY <1>5, <2>2 DEF TypeOK, WriteTemp, Goto, ProgressInv, InMemory, Holds
    <3> QED BY <1>0, <1>5, <3>1, QuietDurable DEF WriteTemp
  <2> QED BY <1>5, <2>1, <2>2 DEF WriteTemp
<1>6. CASE SyncTemp(s)
  <2>1. CASE Fail(s)
    BY <1>0, <1>6, <2>1, FailDurable DEF SyncTemp
  <2>2. CASE temp' = [temp EXCEPT ![s].kind = "durable"] /\ Goto(s, "rename")
    <3>1. ProgressInv(s)'
      BY <1>6, <2>2 DEF TypeOK, SyncTemp, Goto, ProgressInv, InMemory, Holds
    <3> QED BY <1>0, <1>6, <3>1, QuietDurable DEF SyncTemp
  <2> QED BY <1>6, <2>1, <2>2 DEF SyncTemp
<1>7. CASE Rename(s)
  <2>1. CASE Publish(s) \/ Fail(s)
    BY <1>0, <1>7, <2>1, PublishDurable, FailDurable DEF Rename
  <2>2. CASE target' = target /\ Goto(s, "retry") /\ UNCHANGED <<temp, promised>>
    <3>1. ProgressInv(s)'
      BY <1>7, <2>2 DEF TypeOK, Rename, Goto, ProgressInv, InMemory, Holds
    <3> QED BY <1>0, <1>7, <2>2, <3>1, QuietDurable DEF Rename
  <2> QED BY <1>7, <2>1, <2>2 DEF Rename
<1>8. CASE Retry(s)
  BY <1>0, <1>8, PublishDurable, FailDurable DEF Retry
<1> QED BY <1>1, <1>2, <1>3, <1>4, <1>5, <1>6, <1>7, <1>8 DEF SaveStep

(* The restart has in memory exactly what the file holds.                  *)
LEMMA CrashDurable ==
  ASSUME IInv, DurableInv, Crash
  PROVE  DurableInv'
<1>1. /\ target' = target /\ promised' = promised
      /\ store' = target.cells /\ dim' = target.dim
      /\ \A s \in Savers : pc'[s] = "idle"
  BY DEF IInv, FileInv, Crash
<1>2. /\ InMemory(target)' /\ AnsweredSavesSurvive' /\ Alone'
      /\ (promised.kind = "durable" \/ promised = NoFile)'
  BY <1>1 DEF DurableInv, InMemory, Holds, AnsweredSavesSurvive, Alone
<1>3. \A s \in Savers : ProgressInv(s)'
  BY <1>1 DEF ProgressInv
<1> QED BY <1>2, <1>3 DEF DurableInv

LEMMA NextDurable ==
  ASSUME IInv, ~spoiled => DurableInv, [Next]_vars
  PROVE  (~spoiled => DurableInv)'
<1> SUFFICES ASSUME ~spoiled' PROVE DurableInv'
  OBVIOUS
<1>1. ~spoiled
  BY DEF IInv, TypeOK, Next, SaveStep, AddMember, PutCell, Ask, CopyCube, CopyDimension,
         CreateTemp, WriteTemp, SyncTemp, Rename, Retry, Publish, Crash
<1>2. CASE UNCHANGED vars
  BY <1>1, <1>2 DEF DurableInv, Alone, InMemory, Holds, AnsweredSavesSurvive, ProgressInv
<1> QED BY <1>1, <1>2, WriteDurable, SaveDurable, CrashDurable DEF Next

(* WRITE-API-DESIGN.md:130, as long as saves do not overlap and the live   *)
(* file is not removed to rename over it: after any failure and any crash  *)
(* the file has all that was in memory when an answered save was asked for.*)
THEOREM Durability == Spec => []UnspoiledSavesSurvive
<1>1. Init => (~spoiled => DurableInv)
  BY InitDurable
<1>2. IInv /\ (~spoiled => DurableInv) /\ [Next]_vars => (~spoiled => DurableInv)'
  BY NextDurable
<1>3. (~spoiled => DurableInv) => UnspoiledSavesSurvive
  BY DEF DurableInv, UnspoiledSavesSurvive
<1> QED BY <1>1, <1>2, <1>3, Invariance, PTL DEF Spec
================================================================================
