-------------------------- MODULE LibraryFilesProofs --------------------------
(***************************************************************************)
(* No step of the library's services loses a book file, and none takes a   *)
(* row from a library that is away: for any books, folders, importers and  *)
(* failures, with or without a recycle bin, by move or by copy.            *)
(***************************************************************************)
EXTENDS LibraryFiles, FiniteSetTheorems, TLAPS

InDownload(c) == \E s \in Slots : downloads[s] = c
InLibrary(c)  == \E v \in Volumes, p \in LibraryPaths : tree[v][p] = c
InBin(c)      == c \in bin

DiskOK ==
  /\ tree \in [Volumes -> [LibraryPaths -> Contents \cup {Nothing, Partial}]]
  /\ root \in Volumes \cup {"none"}
  /\ downloads \in [Slots -> Contents \cup {Nothing}]
  /\ bin \subseteq Contents

FileRow(r) ==
  /\ r = [id |-> r.id, path |-> r.path, book |-> r.book, seen |-> r.seen]
  /\ r.path \in LibraryPaths \cup Slots
  /\ r.book \in Books \cup {Unmapped}
  /\ r.seen \in Contents \cup {Partial}

Decision(d) == d.slot \in Slots /\ d.as \in Contents /\ \A r \in d.old : FileRow(r)

TableOK == \A r \in rows : FileRow(r)

JobsOK == /\ jobs = [j \in Importers |-> jobs[j]]
          /\ \A j \in Importers :
               jobs[j].phase = "decided" => \A d \in jobs[j].batch : Decision(d)

RunOK == run # NoRun =>
  /\ run = [job |-> run.job, stage |-> run.stage, todo |-> run.todo, file |-> run.file,
            old |-> run.old, now |-> run.now, toAdd |-> run.toAdd, results |-> run.results]
  /\ \A d \in run.todo : Decision(d)
  /\ \A r \in run.old \cup run.toAdd : FileRow(r)
  /\ run.stage # "file" => Decision(run.file)

\* What the transfer has got to, and what it can still reach.
TransferOK ==
  /\ At("copying") => /\ root # "none" /\ downloads[Current.slot] \in Contents
                      /\ tree[root][Target(Current)] = Partial
  /\ At("unlink") => /\ root # "none" /\ downloads[Current.slot] \in Contents
                     /\ tree[root][Target(Current)] = downloads[Current.slot]
  /\ At("unlist") => root # "none"
  /\ At("replace") /\ run.old # {} => root # "none"

\* Nothing is anywhere that has not come in.
KnownOK == \A c \in Contents : InDownload(c) \/ InLibrary(c) \/ InBin(c) => c \in arrived

IInv == DiskOK /\ TableOK /\ JobsOK /\ RunOK /\ TransferOK /\ KnownOK

-----------------------------------------------------------------------------
(* What it takes for a step to keep custody.                               *)

SamePlaces(c) == /\ InDownload(c)' <=> InDownload(c)
                 /\ InLibrary(c)' <=> InLibrary(c)
                 /\ InBin(c)' <=> InBin(c)
Nowhere(c)    == ~InDownload(c) /\ ~InLibrary(c) /\ ~InBin(c)
OnlyInBin(c)  == ~InDownload(c) /\ ~InLibrary(c) /\ InBin(c)
ComesIn(c)    == /\ Nowhere(c) /\ ~InBin(c)'
                 /\ InDownload(c)' <=> ~InLibrary(c)'
IsHandled(c)  == ~Nowhere(c)' /\ (OnlyInBin(c) => OnlyInBin(c)')

KeepsFile(c) == SamePlaces(c) \/ ComesIn(c) \/ IsHandled(c) \/ c \in given'

LEMMA PlacesAreDistinct ==
  ASSUME NEW c
  PROVE  /\ WhereIs(c) = {} <=> Nowhere(c)
         /\ WhereIs(c) = {"bin"} <=> OnlyInBin(c)
         /\ ("bin" \in WhereIs(c)) <=> InBin(c)
BY DEF WhereIs, Nowhere, OnlyInBin, InDownload, InLibrary, InBin

LEMMA PlacesAreDistinctNext ==
  ASSUME NEW c
  PROVE  /\ WhereIs(c)' = {} <=> Nowhere(c)'
         /\ WhereIs(c)' = {"bin"} <=> OnlyInBin(c)'
         /\ ("bin" \in WhereIs(c)') <=> InBin(c)'
BY DEF WhereIs, Nowhere, OnlyInBin, InDownload, InLibrary, InBin

LEMMA CustodyStep ==
  ASSUME given \subseteq given', \A c \in Contents : KeepsFile(c)
  PROVE  Custody!CNext
<1>1. SUFFICES ASSUME NEW c \in Contents
               PROVE  \/ WhereIs(c)' = WhereIs(c)
                      \/ WhereIs(c) = {} /\ Cardinality(WhereIs(c)') = 1 /\ "bin" \notin WhereIs(c)'
                      \/ WhereIs(c)' # {} /\ (WhereIs(c) = {"bin"} => WhereIs(c)' = {"bin"})
                      \/ c \in given'
  BY DEF Custody!CNext, Custody!Appears, Custody!Handled, Custody!GivenUp
<1>2. CASE SamePlaces(c)
  BY <1>2 DEF SamePlaces, WhereIs, InDownload, InLibrary, InBin
<1>3. CASE ComesIn(c)
  <2>1. WhereIs(c)' = {"download"} \/ WhereIs(c)' = {"library"}
    BY <1>3 DEF ComesIn, WhereIs, InDownload, InLibrary, InBin
  <2>2. Cardinality(WhereIs(c)') = 1
    BY <2>1, FS_Singleton
  <2>3. QED
    BY <1>3, <2>2, PlacesAreDistinct, PlacesAreDistinctNext DEF ComesIn
<1>4. CASE IsHandled(c)
  BY <1>4, PlacesAreDistinct, PlacesAreDistinctNext DEF IsHandled
<1>5. QED
  BY <1>1, <1>2, <1>3, <1>4 DEF KeepsFile

-----------------------------------------------------------------------------
(* Steps that leave the disk alone.                                        *)

LEMMA OffDisk ==
  ASSUME IInv, UNCHANGED <<tree, downloads, bin, given, arrived>>, root' \in Volumes \cup {"none"}
  PROVE  DiskOK' /\ KnownOK' /\ Custody!CNext
<1>1. DiskOK'
  BY DEF IInv, DiskOK
<1>2. ASSUME NEW c PROVE SamePlaces(c)
  BY DEF SamePlaces, InDownload, InLibrary, InBin
<1>3. KnownOK'
  BY <1>2 DEF IInv, KnownOK, SamePlaces
<1>4. QED
  BY <1>1, <1>2, <1>3, CustodyStep DEF KeepsFile

\* Between imports there is nothing to say about the run.
LEMMA NoRunHolds == ASSUME run' = NoRun PROVE RunOK' /\ TransferOK'
BY DEF RunOK, TransferOK, At, NoRun

\* Settling a file leaves a run that looks at the next one.
LEMMA SettledHolds ==
  ASSUME RunOK, run # NoRun, NEW d, NEW files, \A f \in files : FileRow(f), Settled(d, files)
  PROVE  /\ RunOK' /\ TransferOK'
         /\ run' # NoRun
<1>1. run' = [job |-> run.job, stage |-> "file", todo |-> run.todo \ {d}, file |-> Nothing,
              old |-> {}, now |-> Nothing, toAdd |-> run.toAdd \cup files,
              results |-> run.results \cup {Key(d)}]
  BY DEF RunOK, Settled
<1>2. run'.stage = "file" /\ run'.old = {} /\ run'.todo \subseteq run.todo
      /\ run'.toAdd = run.toAdd \cup files /\ run' # NoRun
  BY <1>1 DEF NoRun
<1>3. RunOK'
  BY <1>1, <1>2 DEF RunOK, FileRow, Decision
<1>4. TransferOK'
  BY <1>2 DEF TransferOK, At
<1>5. QED
  BY <1>2, <1>3, <1>4

LEMMA InitHolds == Init => IInv
<1>1. SUFFICES ASSUME Init PROVE IInv
  OBVIOUS
<1>2. DiskOK
  BY <1>1 DEF Init, DiskOK, Volumes
<1>3. KnownOK
  BY <1>1, LibraryAssumption DEF Init, KnownOK, InDownload, InLibrary, InBin, Volumes
<1>4. TableOK /\ JobsOK
  BY <1>1 DEF Init, TableOK, JobsOK, NoJob
<1>5. RunOK /\ TransferOK
  BY <1>1 DEF Init, RunOK, TransferOK, At, NoRun
<1>6. QED
  BY <1>2, <1>3, <1>4, <1>5 DEF IInv

LEMMA DecideKeeps ==
  ASSUME IInv, NEW j \in Importers, NEW f \in Folders, Decide(j, f)
  PROVE  IInv' /\ Custody!CNext
<1>1. DiskOK' /\ KnownOK' /\ Custody!CNext
  BY OffDisk DEF Decide, diskVars, IInv, DiskOK
<1> DEFINE found == {[slot |-> s, as |-> downloads[s], old |-> FilesOfBook(BookOf[downloads[s]])]
                       : s \in {s \in Slots : FolderOf[s] = f /\ downloads[s] # Nothing
                                                /\ IsUpgrade(downloads[s])}}
<1>2. jobs' = [jobs EXCEPT ![j] = [phase |-> "decided", folder |-> f, batch |-> found]]
  BY DEF Decide
<1>3. ASSUME NEW d \in found PROVE Decision(d)
  <2>1. PICK s \in Slots : /\ downloads[s] # Nothing
                           /\ d = [slot |-> s, as |-> downloads[s],
                                   old |-> FilesOfBook(BookOf[downloads[s]])]
    OBVIOUS
  <2>2. downloads[s] \in Contents
    BY <2>1 DEF IInv, DiskOK
  <2>3. QED
    BY <2>1, <2>2 DEF Decision, FilesOfBook, IInv, TableOK
<1> HIDE DEF found
<1>4. JobsOK'
  BY <1>2, <1>3 DEF IInv, JobsOK, Decision, FileRow
<1>5. TableOK' /\ RunOK' /\ TransferOK'
  BY NoRunHolds DEF Decide, diskVars, IInv, TableOK, FileRow
<1>6. QED
  BY <1>1, <1>4, <1>5 DEF IInv

LEMMA BeginImportKeeps ==
  ASSUME IInv, NEW j \in Importers, BeginImport(j)
  PROVE  IInv' /\ Custody!CNext
<1>1. DiskOK' /\ KnownOK' /\ Custody!CNext
  BY OffDisk DEF BeginImport, diskVars, IInv, DiskOK
<1>2. TableOK' /\ JobsOK'
  BY DEF BeginImport, IInv, TableOK, JobsOK, FileRow, Decision
<1>3. RunOK' /\ TransferOK'
  BY DEF BeginImport, IInv, JobsOK, RunOK, TransferOK, At, FileRow, Decision
<1>4. QED
  BY <1>1, <1>2, <1>3 DEF IInv

\* The steps that settle a file without touching the disk.
LEMMA SettleKeeps ==
  ASSUME IInv, run # NoRun, NEW d, NEW files, \A f \in files : FileRow(f), Settled(d, files),
         UNCHANGED <<diskVars, rows, given>>, Quietly
  PROVE  IInv' /\ Custody!CNext
<1>1. DiskOK' /\ KnownOK' /\ Custody!CNext
  BY OffDisk DEF Quietly, diskVars, IInv, DiskOK
<1>2. TableOK' /\ JobsOK'
  BY DEF Quietly, IInv, TableOK, JobsOK, FileRow, Decision
<1>3. RunOK' /\ TransferOK'
  BY SettledHolds DEF IInv
<1>4. QED
  BY <1>1, <1>2, <1>3 DEF IInv

LEMMA FailsKeeps ==
  ASSUME IInv, run # NoRun,
         \/ \E d \in run.todo : AlreadyImported(d) \/ RootFolderNotFound(d)
         \/ RecycleFails \/ CannotTransfer \/ AfterMoveFails
  PROVE  IInv' /\ Custody!CNext
<1>1. PICK d : Settled(d, {}) /\ UNCHANGED <<diskVars, rows, given>> /\ Quietly
  BY DEF AlreadyImported, RootFolderNotFound, RecycleFails, CannotTransfer, AfterMoveFails, Fails
<1>2. QED
  BY <1>1, SettleKeeps

LEMMA ImportedKeeps ==
  ASSUME IInv, run # NoRun, Imported
  PROVE  IInv' /\ Custody!CNext
<1>1. Decision(Current)
  BY DEF Imported, At, IInv, RunOK, Current
<1>2. FileRow(NewFile(Current.slot, Current.as))
  BY <1>1, LibraryAssumption DEF Decision, FileRow, NewFile
<1>3. QED
  BY <1>2, SettleKeeps DEF Imported

LEMMA StartUpgradeKeeps ==
  ASSUME IInv, run # NoRun, NEW d \in run.todo, StartUpgrade(d)
  PROVE  IInv' /\ Custody!CNext
<1>1. DiskOK' /\ KnownOK' /\ Custody!CNext
  BY OffDisk DEF StartUpgrade, Quietly, diskVars, IInv, DiskOK
<1>2. TableOK' /\ JobsOK'
  BY DEF StartUpgrade, Quietly, IInv, TableOK, JobsOK, FileRow, Decision
<1>3. run' = [job |-> run.job, stage |-> "replace", todo |-> run.todo, file |-> d, old |-> d.old,
              now |-> run.now, toAdd |-> run.toAdd, results |-> run.results]
  BY DEF StartUpgrade, IInv, RunOK
<1>4. Decision(d)
  BY DEF IInv, RunOK
<1>5. RunOK'
  BY <1>3, <1>4 DEF IInv, RunOK, Decision, FileRow
<1>6. TransferOK'
  BY <1>3 DEF StartUpgrade, TransferOK, At, diskVars, RootFolderExists
<1>7. QED
  BY <1>1, <1>2, <1>5, <1>6 DEF IInv

LEMMA UnlistOldKeeps ==
  ASSUME IInv, UnlistOld
  PROVE  IInv' /\ Custody!CNext
<1>1. DiskOK' /\ KnownOK' /\ Custody!CNext
  BY OffDisk DEF UnlistOld, Quietly, diskVars, IInv, DiskOK
<1>2. TableOK' /\ JobsOK'
  BY DEF UnlistOld, Quietly, IInv, TableOK, JobsOK, FileRow, Decision
<1>3. run' = [job |-> run.job, stage |-> "replace", todo |-> run.todo, file |-> run.file,
              old |-> run.old, now |-> run.now, toAdd |-> run.toAdd, results |-> run.results]
  BY DEF UnlistOld, IInv, RunOK, At
<1>4. RunOK'
  BY <1>3 DEF UnlistOld, IInv, RunOK, Decision, FileRow, At
<1>5. TransferOK'
  BY <1>3 DEF UnlistOld, IInv, TransferOK, At, diskVars
<1>6. QED
  BY <1>1, <1>2, <1>4, <1>5 DEF IInv

\* What an insertion leaves is the table and the new rows, which are the files.
LEMMA InsertedRows ==
  ASSUME NEW table, NEW files, \A r \in table \cup files : FileRow(r),
         NEW new \in Inserted(table, files)
  PROVE  table \subseteq new /\ \A r \in new : FileRow(r)
<1>1. PICK n : new = table \cup {[f EXCEPT !.id = n[f]] : f \in files}
  BY DEF Inserted
<1>2. ASSUME NEW f \in files PROVE FileRow([f EXCEPT !.id = n[f]])
  <2>1. [f EXCEPT !.id = n[f]] = [id |-> n[f], path |-> f.path, book |-> f.book, seen |-> f.seen]
    BY DEF FileRow
  <2>2. QED
    BY <2>1 DEF FileRow
<1>3. QED
  BY <1>1, <1>2

LEMMA AddManyKeeps ==
  ASSUME IInv, AddMany
  PROVE  IInv' /\ Custody!CNext
<1>1. DiskOK' /\ KnownOK' /\ Custody!CNext
  BY OffDisk DEF AddMany, diskVars, IInv, DiskOK
<1>2. RunOK' /\ TransferOK'
  BY NoRunHolds DEF AddMany
<1>3. TableOK'
  <2>1. \A r \in rows \cup run.toAdd : FileRow(r)
    BY DEF AddMany, At, IInv, RunOK, TableOK
  <2>2. rows' = rows \/ rows' \in Inserted(rows, run.toAdd)
    BY DEF AddMany
  <2>3. \A r \in rows' : FileRow(r)
    BY <2>1, <2>2, InsertedRows
  <2>4. QED
    BY <2>3 DEF TableOK, FileRow
<1>4. JobsOK'
  BY DEF AddMany, IInv, JobsOK, NoJob, Decision, FileRow
<1>5. QED
  BY <1>1, <1>2, <1>3, <1>4 DEF IInv

-----------------------------------------------------------------------------
(* Steps of an import at the disk.                                         *)

\* Where a decided file comes from and goes to are two places.
LEMMA SourceAndTarget ==
  ASSUME NEW d, Decision(d)
  PROVE  /\ d.slot \in Slots /\ Target(d) \in LibraryPaths /\ Target(d) \notin Slots
BY LibraryAssumption DEF Decision, Target, Key, LibraryPaths

\* A run that goes on in another stage with the same file.
LEMMA StageHolds ==
  ASSUME RunOK, run # NoRun, Decision(run.file), NEW st, run' = [run EXCEPT !.stage = st]
  PROVE  /\ RunOK' /\ run'.stage = st /\ run'.file = run.file /\ run'.old = run.old
BY DEF RunOK, Decision, FileRow

LEMMA RestHolds ==
  ASSUME IInv, UNCHANGED <<rows, jobs>>
  PROVE  TableOK' /\ JobsOK'
BY DEF IInv, TableOK, JobsOK, FileRow, Decision

LEMMA RenameInKeeps ==
  ASSUME IInv, run # NoRun, RenameIn
  PROVE  IInv' /\ Custody!CNext
<1> DEFINE s == Current.slot  t == Target(Current)  c == downloads[s]
<1>1. run.stage = "replace" /\ run.old = {} /\ Decision(Current)
  BY DEF RenameIn, AtTransfer, At, IInv, RunOK, Current
<1>2. s \in Slots /\ t \in LibraryPaths /\ t \notin Slots
  BY <1>1, SourceAndTarget
<1>3. /\ root \in Volumes /\ c \in Contents /\ tree[root][t] = Nothing
      /\ tree' = [tree EXCEPT ![root][t] = c]
      /\ downloads' = [downloads EXCEPT ![s] = Nothing]
      /\ UNCHANGED <<root, bin, given, arrived>>
  BY <1>2 DEF RenameIn, CanTransfer, FileAt, Written, RootFolderExists, Quietly, IInv, DiskOK
<1> HIDE DEF s, t, c
<1>4. DiskOK'
  BY <1>2, <1>3 DEF IInv, DiskOK
<1>5. ASSUME NEW x \in Contents PROVE KeepsFile(x) /\ (InDownload(x)' \/ InLibrary(x)' \/ InBin(x)' => x \in arrived)
  <2>1. CASE x = c
    <3>1. InLibrary(x)' /\ InDownload(x)
      BY <2>1, <1>2, <1>3 DEF InLibrary, InDownload, IInv, DiskOK, c
    <3>2. QED
      BY <3>1 DEF KeepsFile, IsHandled, Nowhere, OnlyInBin, IInv, KnownOK
  <2>2. CASE x # c
    <3>1. x # Nothing
      BY LibraryAssumption
    <3>2. InLibrary(x)' <=> InLibrary(x)
      BY <2>2, <3>1, <1>2, <1>3 DEF InLibrary, IInv, DiskOK
    <3>3. InDownload(x)' <=> InDownload(x)
      BY <2>2, <3>1, <1>2, <1>3 DEF InDownload, IInv, DiskOK, c
    <3>4. QED
      BY <3>2, <3>3, <1>3 DEF KeepsFile, SamePlaces, InBin, IInv, KnownOK
  <2>3. QED
    BY <2>1, <2>2
<1>6. Custody!CNext
  BY <1>3, <1>5, CustodyStep
<1>7. KnownOK'
  BY <1>3, <1>5 DEF KnownOK
<1>8. RunOK' /\ run'.stage = "moved"
  BY <1>1, StageHolds DEF RenameIn, IInv, Current
<1>9. TransferOK'
  BY <1>8 DEF TransferOK, At
<1>10. TableOK' /\ JobsOK'
  BY RestHolds DEF RenameIn, Quietly
<1>11. QED
  BY <1>4, <1>6, <1>7, <1>8, <1>9, <1>10 DEF IInv

\* Writing at one library path, or clearing one slot, matters to the old and the new file only.
LEMMA TreeWrite ==
  ASSUME DiskOK, root \in Volumes, NEW t \in LibraryPaths, NEW v,
         tree' = [tree EXCEPT ![root][t] = v], NEW x
  PROVE  /\ tree[root][t] # x /\ v # x => (InLibrary(x)' <=> InLibrary(x))
         /\ v = x => InLibrary(x)'
BY DEF InLibrary, DiskOK

LEMMA SlotCleared ==
  ASSUME DiskOK, NEW s \in Slots, downloads' = [downloads EXCEPT ![s] = Nothing], NEW x \in Contents
  PROVE  downloads[s] # x => (InDownload(x)' <=> InDownload(x))
BY LibraryAssumption DEF InDownload, DiskOK

\* It is enough that every file is where it was, or was known and was given up,
\* or is still somewhere and was not in the bin alone.
LEMMA KeptKnown ==
  ASSUME IInv, given \subseteq given', arrived' = arrived,
         \A x \in Contents : \/ SamePlaces(x)
                             \/ ~Nowhere(x) /\ x \in given'
                             \/ ~Nowhere(x) /\ ~OnlyInBin(x) /\ ~Nowhere(x)'
  PROVE  KnownOK' /\ Custody!CNext
<1>1. ASSUME NEW x \in Contents
      PROVE  KeepsFile(x) /\ (InDownload(x)' \/ InLibrary(x)' \/ InBin(x)' => x \in arrived)
  BY DEF KeepsFile, SamePlaces, IsHandled, Nowhere, OnlyInBin, IInv, KnownOK
<1>2. QED
  BY <1>1, CustodyStep DEF KnownOK

LEMMA CopyInKeeps ==
  ASSUME IInv, run # NoRun, CopyIn
  PROVE  IInv' /\ Custody!CNext
<1> DEFINE s == Current.slot  t == Target(Current)
<1>1. run.stage = "replace" /\ run.old = {} /\ Decision(Current)
  BY DEF CopyIn, AtTransfer, At, IInv, RunOK, Current
<1>2. s \in Slots /\ t \in LibraryPaths /\ t \notin Slots
  BY <1>1, SourceAndTarget
<1>3. /\ root \in Volumes /\ downloads[s] \in Contents /\ tree[root][t] = Nothing
      /\ tree' = [tree EXCEPT ![root][t] = Partial]
      /\ UNCHANGED <<root, downloads, bin, given, arrived>>
  BY <1>2 DEF CopyIn, CanTransfer, FileAt, Written, RootFolderExists, Quietly, IInv, DiskOK
<1>4. RunOK' /\ run'.stage = "copying" /\ run'.file = run.file
  BY <1>1, StageHolds DEF CopyIn, IInv, Current
<1>5. TransferOK'
  <2>1. Current' = Current /\ Target(Current)' = t
    BY <1>4 DEF Current, Target, Key
  <2>2. tree'[root'][t] = Partial /\ downloads'[s] \in Contents /\ root' # "none"
    BY <1>2, <1>3 DEF IInv, DiskOK, Volumes
  <2>3. QED
    BY <2>1, <2>2, <1>4 DEF TransferOK, At
<1> HIDE DEF s, t
<1>6. DiskOK'
  BY <1>2, <1>3 DEF IInv, DiskOK
<1>7. ASSUME NEW x \in Contents PROVE SamePlaces(x)
  <2>1. x # Nothing /\ x # Partial
    BY LibraryAssumption
  <2>2. QED
    BY <2>1, <1>2, <1>3, TreeWrite DEF IInv, SamePlaces, InDownload, InBin
<1>8. KnownOK' /\ Custody!CNext
  BY <1>3, <1>7, KeptKnown
<1>9. TableOK' /\ JobsOK'
  BY RestHolds DEF CopyIn, Quietly
<1>10. QED
  BY <1>4, <1>5, <1>6, <1>8, <1>9 DEF IInv

LEMMA CopyDoneKeeps ==
  ASSUME IInv, run # NoRun, CopyDone
  PROVE  IInv' /\ Custody!CNext
<1> DEFINE s == Current.slot  t == Target(Current)  c == downloads[s]
           st == IF CopyOnly THEN "moved" ELSE "unlink"
<1>1. run.stage = "copying" /\ Decision(Current)
  BY DEF CopyDone, At, IInv, RunOK, Current
<1>2. s \in Slots /\ t \in LibraryPaths /\ t \notin Slots
  BY <1>1, SourceAndTarget
<1>3. /\ root \in Volumes /\ c \in Contents /\ tree[root][t] = Partial
      /\ tree' = [tree EXCEPT ![root][t] = c]
      /\ UNCHANGED <<root, downloads, bin, given, arrived>>
  BY <1>2 DEF CopyDone, FileAt, Written, Quietly, IInv, DiskOK, TransferOK
<1>4. RunOK' /\ run'.stage = st /\ run'.file = run.file
  BY <1>1, StageHolds DEF CopyDone, IInv, Current
<1>5. TransferOK'
  <2>1. Current' = Current /\ Target(Current)' = t
    BY <1>4 DEF Current, Target, Key
  <2>2. tree'[root'][t] = c /\ downloads'[s] = c /\ root' # "none"
    BY <1>2, <1>3 DEF IInv, DiskOK, Volumes
  <2>3. QED
    BY <2>1, <2>2, <1>3, <1>4 DEF TransferOK, At
<1> HIDE DEF s, t, c
<1>6. DiskOK'
  BY <1>2, <1>3 DEF IInv, DiskOK
<1>7. ASSUME NEW x \in Contents
      PROVE  SamePlaces(x) \/ (InDownload(x) /\ InDownload(x)')
  <2>1. x # Nothing /\ x # Partial
    BY LibraryAssumption
  <2>2. x = c => InDownload(x) /\ InDownload(x)'
    BY <1>2, <1>3 DEF InDownload, c
  <2>3. QED
    BY <2>1, <2>2, <1>2, <1>3, TreeWrite DEF IInv, SamePlaces, InDownload, InBin
<1>8. KnownOK' /\ Custody!CNext
  BY <1>3, <1>7, KeptKnown DEF Nowhere, OnlyInBin
<1>9. TableOK' /\ JobsOK'
  BY RestHolds DEF CopyDone, Quietly
<1>10. QED
  BY <1>4, <1>5, <1>6, <1>8, <1>9 DEF IInv

LEMMA UnlinkSourceKeeps ==
  ASSUME IInv, run # NoRun, UnlinkSource
  PROVE  IInv' /\ Custody!CNext
<1> DEFINE s == Current.slot  t == Target(Current)  c == downloads[s]
<1>1. run.stage = "unlink" /\ Decision(Current)
  BY DEF UnlinkSource, At, IInv, RunOK, Current
<1>2. s \in Slots /\ t \in LibraryPaths
  BY <1>1, SourceAndTarget
<1>3. /\ root \in Volumes /\ c \in Contents /\ tree[root][t] = c
      /\ downloads' = [downloads EXCEPT ![s] = Nothing]
      /\ UNCHANGED <<tree, root, bin, given, arrived>>
  BY <1>2 DEF UnlinkSource, Quietly, IInv, DiskOK, TransferOK
<1>4. RunOK' /\ run'.stage = "moved" /\ run'.file = run.file
  BY <1>1, StageHolds DEF UnlinkSource, IInv, Current
<1>5. TransferOK'
  BY <1>4 DEF TransferOK, At
<1> HIDE DEF s, t, c
<1>6. DiskOK'
  BY <1>2, <1>3 DEF IInv, DiskOK
<1>7. ASSUME NEW x \in Contents
      PROVE  SamePlaces(x) \/ (InLibrary(x) /\ InLibrary(x)')
  <2>1. x = c => InLibrary(x) /\ InLibrary(x)'
    BY <1>2, <1>3 DEF InLibrary, Volumes
  <2>2. QED
    BY <2>1, <1>2, <1>3, SlotCleared DEF IInv, SamePlaces, InLibrary, InBin, c
<1>8. KnownOK' /\ Custody!CNext
  BY <1>3, <1>7, KeptKnown DEF Nowhere, OnlyInBin
<1>9. TableOK' /\ JobsOK'
  BY RestHolds DEF UnlinkSource, Quietly
<1>10. QED
  BY <1>4, <1>5, <1>6, <1>8, <1>9 DEF IInv

\* The roll-back takes the target: a partial copy, or the second one.
LEMMA TransferFailsKeeps ==
  ASSUME IInv, run # NoRun, TransferFails
  PROVE  IInv' /\ Custody!CNext
<1> DEFINE s == Current.slot  t == Target(Current)
<1>1. run.stage \in {"copying", "unlink"} /\ Decision(Current)
  BY DEF TransferFails, At, IInv, RunOK, Current
<1>2. s \in Slots /\ t \in LibraryPaths /\ t \notin Slots
  BY <1>1, SourceAndTarget
<1>3. /\ root \in Volumes /\ downloads[s] \in Contents
      /\ tree[root][t] = Partial \/ tree[root][t] = downloads[s]
      /\ tree' = [tree EXCEPT ![root][t] = Nothing]
      /\ UNCHANGED <<downloads, root, bin, given, arrived>>
  BY <1>2 DEF TransferFails, Removed, Quietly, IInv, DiskOK, TransferOK
<1>4. RunOK' /\ TransferOK'
  BY SettledHolds DEF TransferFails, Fails, IInv
<1> HIDE DEF s, t
<1>5. DiskOK'
  BY <1>2, <1>3 DEF IInv, DiskOK
<1>6. ASSUME NEW x \in Contents
      PROVE  SamePlaces(x) \/ (InDownload(x) /\ InDownload(x)')
  <2>1. x # Nothing /\ x # Partial
    BY LibraryAssumption
  <2>2. x = downloads[s] => InDownload(x) /\ InDownload(x)'
    BY <1>2, <1>3 DEF InDownload
  <2>3. QED
    BY <2>1, <2>2, <1>2, <1>3, TreeWrite DEF IInv, SamePlaces, InDownload, InBin
<1>7. KnownOK' /\ Custody!CNext
  BY <1>3, <1>6, KeptKnown DEF Nowhere, OnlyInBin
<1>8. TableOK' /\ JobsOK'
  BY RestHolds DEF TransferFails, Quietly
<1>9. QED
  BY <1>4, <1>5, <1>7, <1>8 DEF IInv

\* A file that is recycled is in the bin, or given up where there is none.
LEMMA RecycledHolds ==
  ASSUME IInv, NEW p \in LibraryPaths \cup Slots, root \in Volumes, FileAt(p) # Nothing,
         RecycledFile(p), arrived' = arrived, root' = root
  PROVE  DiskOK' /\ KnownOK' /\ Custody!CNext
<1> DEFINE c == FileAt(p)
<1>1. CASE p \in Slots
  <2>1. /\ c = downloads[p] /\ c \in Contents
        /\ downloads' = [downloads EXCEPT ![p] = Nothing] /\ tree' = tree
        /\ bin' = (IF UseBin THEN bin \cup {c} ELSE bin)
        /\ given' = (IF UseBin THEN given ELSE given \cup {c})
    BY <1>1 DEF FileAt, RecycledFile, Removed, IInv, DiskOK
  <2> HIDE DEF c
  <2>2. DiskOK'
    BY <1>1, <2>1 DEF IInv, DiskOK
  <2>3. ASSUME NEW x \in Contents
        PROVE  SamePlaces(x) \/ (InDownload(x) /\ (x \in given' \/ InBin(x)'))
    <3>1. x = c => InDownload(x) /\ (x \in given' \/ InBin(x)')
      BY <1>1, <2>1 DEF InDownload, InBin
    <3>2. x # c => SamePlaces(x)
      BY <1>1, <2>1, SlotCleared DEF IInv, SamePlaces, InLibrary, InBin
    <3>3. QED
      BY <3>1, <3>2
  <2>4. QED
    BY <2>1, <2>2, <2>3, KeptKnown DEF Nowhere, OnlyInBin
<1>2. CASE p \notin Slots
  <2>1. /\ p \in LibraryPaths /\ c = tree[root][p] /\ c \in Contents \cup {Partial}
        /\ tree' = [tree EXCEPT ![root][p] = Nothing] /\ downloads' = downloads
        /\ bin' = (IF UseBin THEN bin \cup ({c} \cap Contents) ELSE bin)
        /\ given' = (IF UseBin THEN given ELSE given \cup ({c} \cap Contents))
    <3>1. p \in LibraryPaths /\ c = tree[root][p]
      BY <1>2 DEF FileAt, Volumes
    <3>2. c \in Contents \cup {Partial}
      BY <3>1 DEF IInv, DiskOK
    <3>3. QED
      BY <1>2, <3>1, <3>2 DEF RecycledFile, Removed
  <2> HIDE DEF c
  <2>2. DiskOK'
    BY <2>1 DEF IInv, DiskOK
  <2>3. ASSUME NEW x \in Contents
        PROVE  SamePlaces(x) \/ (InLibrary(x) /\ (x \in given' \/ InBin(x)'))
    <3>1. x = c => InLibrary(x) /\ (x \in given' \/ InBin(x)')
      BY <2>1 DEF InLibrary, InBin
    <3>2. x # c => SamePlaces(x)
      BY <2>1, TreeWrite, LibraryAssumption DEF IInv, SamePlaces, InDownload, InBin
    <3>3. QED
      BY <3>1, <3>2
  <2>4. QED
    BY <2>1, <2>2, <2>3, KeptKnown DEF Nowhere, OnlyInBin
<1>3. QED
  BY <1>1, <1>2

LEMMA RecycleOldKeeps ==
  ASSUME IInv, run # NoRun, NEW r \in run.old, RecycleOld(r)
  PROVE  IInv' /\ Custody!CNext
<1>1. run.stage = "replace" /\ Decision(Current) /\ FileRow(r) /\ root \in Volumes
  BY DEF RecycleOld, At, IInv, RunOK, TransferOK, DiskOK, Current
<1>2. DiskOK' /\ KnownOK' /\ Custody!CNext
  <2>1. CASE FileAt(r.path) # Nothing
    BY <1>1, <2>1, RecycledHolds DEF RecycleOld, Quietly, FileRow
  <2>2. CASE FileAt(r.path) = Nothing
    BY <2>2, OffDisk DEF RecycleOld, Quietly, IInv, DiskOK
  <2>3. QED
    BY <2>1, <2>2
<1>3. run' = [job |-> run.job, stage |-> "unlist", todo |-> run.todo, file |-> run.file,
              old |-> run.old \ {r}, now |-> r, toAdd |-> run.toAdd, results |-> run.results]
  BY DEF RecycleOld, IInv, RunOK
<1>4. RunOK'
  BY <1>1, <1>3 DEF IInv, RunOK, Decision, FileRow, Current
<1>5. TransferOK'
  BY <1>1, <1>3 DEF RecycleOld, TransferOK, At, Volumes
<1>6. TableOK' /\ JobsOK'
  BY RestHolds DEF RecycleOld, Quietly
<1>7. QED
  BY <1>2, <1>4, <1>5, <1>6 DEF IInv

-----------------------------------------------------------------------------
(* The other services and the world.  They run between imports.            *)

LEMMA IdleHolds ==
  ASSUME run = NoRun, run' = run
  PROVE  RunOK' /\ TransferOK'
BY NoRunHolds

LEMMA DownloadArrivesKeeps ==
  ASSUME IInv, NEW c \in Contents, DownloadArrives(c)
  PROVE  DiskOK' /\ KnownOK' /\ TransferOK' /\ Custody!CNext
<1> DEFINE s == SlotOf[c]
<1>1. /\ s \in Slots /\ downloads[s] = Nothing /\ c \notin arrived /\ c # Nothing
      /\ downloads' = [downloads EXCEPT ![s] = c] /\ arrived' = arrived \cup {c}
      /\ UNCHANGED <<tree, root, bin, given, run>>
  BY LibraryAssumption DEF DownloadArrives
<1> HIDE DEF s
<1>2. DiskOK'
  BY <1>1 DEF IInv, DiskOK
<1>3. Nowhere(c) /\ InDownload(c)' /\ ~InLibrary(c)' /\ ~InBin(c)'
  BY <1>1 DEF IInv, KnownOK, Nowhere, InDownload, InLibrary, InBin, DiskOK
<1>4. ASSUME NEW x \in Contents, x # c PROVE SamePlaces(x)
  BY <1>1, <1>4, LibraryAssumption DEF IInv, DiskOK, SamePlaces, InDownload, InLibrary, InBin
<1>5. KnownOK'
  BY <1>1, <1>4 DEF IInv, KnownOK, SamePlaces
<1>6. Custody!CNext
  BY <1>1, <1>3, <1>4, CustodyStep DEF KeepsFile, ComesIn
<1>7. TransferOK'
  <2>1. At("copying") \/ At("unlink") => Current.slot # s
    BY <1>1, LibraryAssumption DEF IInv, TransferOK
  <2>2. At("copying") \/ At("unlink") => Current.slot \in Slots
    BY DEF IInv, RunOK, At, Current, Decision
  <2>3. Current' = Current /\ Target(Current)' = Target(Current)
    BY <1>1 DEF Current, Target, Key
  <2>4. \A st \in {"copying", "unlink", "unlist", "replace"} : At(st)' <=> At(st)
    BY <1>1 DEF At
  <2>5. Current.slot # s => downloads'[Current.slot] = downloads[Current.slot] \/ Current.slot \notin Slots
    BY <1>1 DEF IInv, DiskOK
  <2>6. QED
    BY <1>1, <2>1, <2>2, <2>3, <2>4, <2>5 DEF IInv, TransferOK
<1>8. QED
  BY <1>2, <1>5, <1>6, <1>7

LEMMA DownloadArrivesInv ==
  ASSUME IInv, NEW c \in Contents, DownloadArrives(c)
  PROVE  IInv' /\ Custody!CNext
<1>1. TableOK' /\ JobsOK'
  BY RestHolds DEF DownloadArrives
<1>2. RunOK'
  BY DEF DownloadArrives, IInv, RunOK, Decision, FileRow
<1>3. QED
  BY <1>1, <1>2, DownloadArrivesKeeps DEF IInv

\* The download folder is only deleted when no book file is left in it.
LEMMA RemoveDownloadFolderKeeps ==
  ASSUME IInv, NEW j \in Importers, RemoveDownloadFolder(j)
  PROVE  IInv' /\ Custody!CNext
<1>1. downloads' = downloads
  BY DEF RemoveDownloadFolder, ShouldDeleteFolder, IInv, DiskOK
<1>2. DiskOK' /\ KnownOK' /\ Custody!CNext
  BY <1>1, OffDisk DEF RemoveDownloadFolder, IInv, DiskOK
<1>3. RunOK' /\ TransferOK'
  BY IdleHolds DEF RemoveDownloadFolder
<1>4. TableOK' /\ JobsOK'
  BY DEF RemoveDownloadFolder, NoJob, IInv, TableOK, JobsOK, Decision, FileRow
<1>5. QED
  BY <1>2, <1>3, <1>4 DEF IInv

LEMMA NewFileRow ==
  ASSUME NEW p \in LibraryPaths \cup Slots, NEW c \in Contents \cup {Partial}
  PROVE  FileRow(NewFile(p, c))
BY LibraryAssumption DEF NewFile, FileRow

LEMMA FileFound ==
  ASSUME DiskOK, NEW f, NEW p \in FilesUnder(f)
  PROVE  p \in LibraryPaths /\ FileAt(p) \in Contents \cup {Partial}
BY DEF DiskOK, FilesUnder, FileAt

LEMMA ScannedRows ==
  ASSUME IInv, NEW f, NEW A \in Importable(f), NEW new \in ScanOf(f, A)
  PROVE  \A r \in new : FileRow(r)
<1> DEFINE kept    == {r \in Cleaned(f) : r.path \notin A}
           seen(r) == [r EXCEPT !.seen = FileAt(r.path)]
           updated == {IF r.path \in Changed(f) THEN seen(r) ELSE r : r \in kept}
           fresh   == {NewFile(p, FileAt(p)) : p \in Changed(f) \ PathsOf(kept)}
<1>1. new \in Inserted(updated, fresh)
  BY DEF ScanOf
<1>2. ASSUME NEW r \in kept PROVE FileRow(r)
  BY DEF Cleaned, IInv, TableOK
<1>3. ASSUME NEW r \in kept, r.path \in Changed(f) PROVE FileRow(seen(r))
  <2>1. r.path \in LibraryPaths /\ FileAt(r.path) \in Contents \cup {Partial}
    BY <1>3, FileFound DEF Changed, IInv
  <2>2. seen(r) = [id |-> r.id, path |-> r.path, book |-> r.book, seen |-> FileAt(r.path)]
    BY <1>2 DEF FileRow
  <2>3. QED
    BY <2>1, <2>2, <1>2 DEF FileRow
<1>4. ASSUME NEW p \in Changed(f) PROVE FileRow(NewFile(p, FileAt(p)))
  BY FileFound, NewFileRow DEF Changed, IInv
<1>5. \A r \in updated \cup fresh : FileRow(r)
  BY <1>2, <1>3, <1>4
<1> HIDE DEF updated, fresh
<1>6. QED
  BY <1>1, <1>5, InsertedRows

\* Steps that only change the table, to rows of the right kind, between imports.
LEMMA TableStep ==
  ASSUME IInv, \A r \in rows' : FileRow(r), run' = NoRun, JobsOK',
         UNCHANGED <<diskVars, arrived, given>>
  PROVE  IInv' /\ Custody!CNext
<1>1. DiskOK' /\ KnownOK' /\ Custody!CNext
  BY OffDisk DEF diskVars, IInv, DiskOK
<1>2. TableOK'
  BY DEF TableOK, FileRow
<1>3. QED
  BY <1>1, <1>2, NoRunHolds DEF IInv

LEMMA JobsStay == ASSUME IInv, jobs' = jobs PROVE JobsOK'
BY DEF IInv, JobsOK, Decision, FileRow

LEMMA JobsGone == ASSUME jobs' = [j \in Importers |-> NoJob] PROVE JobsOK'
BY DEF JobsOK, NoJob

LEMMA ScanKeeps ==
  ASSUME IInv, NEW f, Scan(f) \/ ScanKilled(f)
  PROVE  IInv' /\ Custody!CNext
<1>1. CASE Scan(f)
  <2>1. \A r \in rows' : FileRow(r)
    BY <1>1, ScannedRows DEF Scan
  <2>2. QED
    BY <1>1, <2>1, TableStep, JobsStay DEF Scan, diskVars
<1>2. CASE ScanKilled(f)
  <2>1. \A r \in rows' : FileRow(r)
    BY <1>2 DEF ScanKilled, Cleaned, IInv, TableOK
  <2>2. QED
    BY <1>2, <2>1, TableStep, JobsGone DEF ScanKilled, diskVars
<1>3. QED
  BY <1>1, <1>2

LEMMA TableEventsKeep ==
  ASSUME IInv, Crash \/ RootFolderDeleted \/ \E b \in Books : BookDeleted(b)
  PROVE  IInv' /\ Custody!CNext
<1>1. CASE Crash
  BY <1>1, TableStep, JobsGone DEF Crash, diskVars, IInv, TableOK
<1>2. CASE RootFolderDeleted
  BY <1>2, TableStep, JobsStay DEF RootFolderDeleted, diskVars, IInv, TableOK
<1>3. ASSUME NEW b \in Books, BookDeleted(b) PROVE IInv' /\ Custody!CNext
  <2>1. ASSUME NEW r \in rows PROVE FileRow([r EXCEPT !.book = Unmapped])
    <3>1. [r EXCEPT !.book = Unmapped] = [id |-> r.id, path |-> r.path, book |-> Unmapped, seen |-> r.seen]
      BY DEF IInv, TableOK, FileRow
    <3>2. QED
      BY <3>1 DEF IInv, TableOK, FileRow
  <2>2. \A r \in rows' : FileRow(r)
    BY <1>3, <2>1 DEF BookDeleted, IInv, TableOK
  <2>3. QED
    BY <1>3, <2>2, TableStep, JobsStay DEF BookDeleted, diskVars
<1>4. QED
  BY <1>1, <1>2, <1>3

LEMMA RenameFileKeeps ==
  ASSUME IInv, NEW r \in rows, RenameFile(r)
  PROVE  IInv' /\ Custody!CNext
<1> DEFINE to == <<r.book, PartOf[r.seen]>>  c == FileAt(r.path)
<1>1. FileRow(r) /\ r.book \in Books /\ r.seen \in Contents
  BY DEF RenameFile, IInv, TableOK, FileRow
<1>2. to \in LibraryPaths /\ to \notin Slots
  BY <1>1, LibraryAssumption DEF LibraryPaths
<1>3. /\ root \in Volumes /\ c # Nothing /\ tree[root][to] = Nothing /\ r.path # to
      /\ UNCHANGED <<root, bin, given, arrived>>
  BY <1>2 DEF RenameFile, CanTransfer, FileAt, RootFolderExists, IInv, DiskOK
<1>4. DiskOK' /\ KnownOK' /\ Custody!CNext
  <2>1. CASE r.path \in Slots
    <3>1. /\ c = downloads[r.path] /\ c \in Contents
          /\ downloads' = [downloads EXCEPT ![r.path] = Nothing]
          /\ tree' = [tree EXCEPT ![root][to] = c]
      BY <2>1, <1>3 DEF RenameFile, FileAt, IInv, DiskOK
    <3> HIDE DEF to, c
    <3>2. DiskOK'
      BY <1>2, <1>3, <3>1 DEF IInv, DiskOK
    <3>3. ASSUME NEW x \in Contents
          PROVE  SamePlaces(x) \/ (InDownload(x) /\ InLibrary(x)')
      <4>1. x = c => InDownload(x) /\ InLibrary(x)'
        BY <2>1, <1>2, <1>3, <3>1, TreeWrite DEF IInv, InDownload
      <4>2. x # c => SamePlaces(x)
        BY <2>1, <1>2, <1>3, <3>1, TreeWrite, SlotCleared, LibraryAssumption DEF IInv, SamePlaces, InBin
      <4>3. QED
        BY <4>1, <4>2
    <3>4. QED
      BY <1>3, <3>2, <3>3, KeptKnown DEF Nowhere, OnlyInBin
  <2>2. CASE r.path \notin Slots
    <3>1. r.path \in LibraryPaths /\ c = tree[root][r.path]
      BY <2>2, <1>1, <1>3 DEF FileAt, FileRow, Volumes
    <3>2. /\ downloads' = downloads
          /\ tree' = [tree EXCEPT ![root][to] = c, ![root][r.path] = Nothing]
      BY <2>2 DEF RenameFile
    <3>3. c \in Contents \cup {Partial}
      BY <1>3, <3>1 DEF IInv, DiskOK
    <3> HIDE DEF to, c
    <3>4. DiskOK'
      BY <1>2, <1>3, <3>1, <3>2, <3>3 DEF IInv, DiskOK
    <3>5. /\ tree'[root][to] = c /\ tree'[root][r.path] = Nothing
          /\ \A v \in Volumes, p \in LibraryPaths :
               (v # root \/ p \notin {to, r.path}) => tree'[v][p] = tree[v][p]
      BY <1>2, <1>3, <3>1, <3>2 DEF IInv, DiskOK
    <3>6. ASSUME NEW x \in Contents
          PROVE  SamePlaces(x) \/ (InLibrary(x) /\ InLibrary(x)')
      <4>1. x = c => InLibrary(x) /\ InLibrary(x)'
        BY <1>2, <1>3, <3>1, <3>5 DEF InLibrary
      <4>2. x # c => (InLibrary(x)' <=> InLibrary(x))
        BY <1>2, <1>3, <3>1, <3>5, LibraryAssumption DEF InLibrary
      <4>3. QED
        BY <4>1, <4>2, <1>3, <3>2 DEF SamePlaces, InDownload, InBin
    <3>7. QED
      BY <1>3, <3>4, <3>6, KeptKnown DEF Nowhere, OnlyInBin
  <2>3. QED
    BY <2>1, <2>2
<1>5. TableOK'
  <2>1. [r EXCEPT !.path = to] = [id |-> r.id, path |-> to, book |-> r.book, seen |-> r.seen]
    BY <1>1 DEF FileRow
  <2>2. FileRow([r EXCEPT !.path = to])
    BY <2>1, <1>1, <1>2 DEF FileRow
  <2>3. \A q \in rows' : FileRow(q)
    BY <2>2 DEF RenameFile, IInv, TableOK
  <2>4. QED
    BY <2>3 DEF TableOK, FileRow
<1>6. JobsOK' /\ RunOK' /\ TransferOK'
  BY IdleHolds, JobsStay DEF RenameFile
<1>7. QED
  BY <1>4, <1>5, <1>6 DEF IInv

LEMMA BinEmptiedKeeps ==
  ASSUME IInv, NEW c \in bin, BinEmptied(c)
  PROVE  IInv' /\ Custody!CNext
<1>1. DiskOK'
  BY DEF BinEmptied, IInv, DiskOK
<1>2. ASSUME NEW x \in Contents
      PROVE  SamePlaces(x) \/ (~Nowhere(x) /\ x \in given')
  BY DEF BinEmptied, SamePlaces, Nowhere, InDownload, InLibrary, InBin
<1>3. KnownOK' /\ Custody!CNext
  BY <1>2, KeptKnown DEF BinEmptied
<1>4. TableOK' /\ JobsOK' /\ RunOK' /\ TransferOK'
  BY RestHolds, IdleHolds DEF BinEmptied
<1>5. QED
  BY <1>1, <1>3, <1>4 DEF IInv

LEMMA UserAddsKeeps ==
  ASSUME IInv, NEW c \in Contents, NEW b \in Books, UserAdds(c, b)
  PROVE  IInv' /\ Custody!CNext
<1> DEFINE t == <<b, Misnamed>>
<1>1. t \in LibraryPaths /\ t \notin Slots
  BY LibraryAssumption DEF LibraryPaths
<1>2. /\ root \in Volumes /\ tree[root][t] = Nothing /\ c \notin arrived
      /\ tree' = [tree EXCEPT ![root][t] = c] /\ arrived' = arrived \cup {c}
      /\ UNCHANGED <<root, downloads, bin, given>>
  BY <1>1 DEF UserAdds, FileAt, Written, RootFolderExists, IInv, DiskOK
<1> HIDE DEF t
<1>3. DiskOK'
  BY <1>1, <1>2 DEF IInv, DiskOK
<1>4. Nowhere(c) /\ InLibrary(c)' /\ ~InDownload(c)' /\ ~InBin(c)'
  BY <1>1, <1>2, TreeWrite DEF IInv, KnownOK, Nowhere, InDownload, InBin
<1>5. ASSUME NEW x \in Contents, x # c PROVE SamePlaces(x)
  BY <1>1, <1>2, <1>5, TreeWrite, LibraryAssumption DEF IInv, SamePlaces, InDownload, InBin
<1>6. KnownOK'
  BY <1>2, <1>5 DEF IInv, KnownOK, SamePlaces
<1>7. Custody!CNext
  BY <1>2, <1>4, <1>5, CustodyStep DEF KeepsFile, ComesIn
<1>8. TableOK' /\ JobsOK' /\ RunOK' /\ TransferOK'
  BY RestHolds, IdleHolds DEF UserAdds
<1>9. QED
  BY <1>3, <1>6, <1>7, <1>8 DEF IInv

LEMMA UserDeletesKeeps ==
  ASSUME IInv, NEW p \in LibraryPaths, UserDeletes(p)
  PROVE  IInv' /\ Custody!CNext
<1> DEFINE c == FileAt(p)
<1>1. /\ root \in Volumes /\ c = tree[root][p]
      /\ tree' = [tree EXCEPT ![root][p] = Nothing] /\ given' = given \cup ({c} \cap Contents)
      /\ UNCHANGED <<root, downloads, bin, arrived>>
  BY LibraryAssumption DEF UserDeletes, FileAt, Removed, IInv, DiskOK
<1> HIDE DEF c
<1>2. DiskOK'
  BY <1>1 DEF IInv, DiskOK
<1>3. ASSUME NEW x \in Contents
      PROVE  SamePlaces(x) \/ (~Nowhere(x) /\ x \in given')
  <2>1. x = c => ~Nowhere(x) /\ x \in given'
    BY <1>1 DEF Nowhere, InLibrary
  <2>2. x # c => SamePlaces(x)
    BY <1>1, TreeWrite, LibraryAssumption DEF IInv, SamePlaces, InDownload, InBin
  <2>3. QED
    BY <2>1, <2>2
<1>4. KnownOK' /\ Custody!CNext
  BY <1>1, <1>3, KeptKnown
<1>5. TableOK' /\ JobsOK' /\ RunOK' /\ TransferOK'
  BY RestHolds, IdleHolds DEF UserDeletes
<1>6. QED
  BY <1>2, <1>4, <1>5 DEF IInv

LEMMA MountsKeep ==
  ASSUME IInv, Unmounted \/ Mounted
  PROVE  IInv' /\ Custody!CNext
<1>1. DiskOK' /\ KnownOK' /\ Custody!CNext
  BY OffDisk DEF Unmounted, Mounted, Volumes
<1>2. TableOK' /\ JobsOK' /\ RunOK' /\ TransferOK'
  BY RestHolds, IdleHolds DEF Unmounted, Mounted
<1>3. QED
  BY <1>1, <1>2 DEF IInv

LEMMA ImportStepKeeps ==
  ASSUME IInv, run # NoRun, ImportStep
  PROVE  IInv' /\ Custody!CNext
<1>1. ASSUME NEW d \in run.todo, AlreadyImported(d) \/ RootFolderNotFound(d) PROVE IInv' /\ Custody!CNext
  BY <1>1, FailsKeeps
<1>2. CASE RecycleFails \/ CannotTransfer \/ AfterMoveFails
  BY <1>2, FailsKeeps
<1>3. QED
  BY <1>1, <1>2, StartUpgradeKeeps, RecycleOldKeeps, UnlistOldKeeps, RenameInKeeps, CopyInKeeps,
     CopyDoneKeeps, UnlinkSourceKeeps, TransferFailsKeeps, ImportedKeeps, AddManyKeeps
     DEF ImportStep

LEMMA StepKeeps ==
  ASSUME IInv, [Next]_vars
  PROVE  IInv' /\ [Custody!CNext]_<<[c \in Contents |-> WhereIs(c)], given>>
<1>1. CASE Next
  BY <1>1, DownloadArrivesInv, UserAddsKeeps, BeginImportKeeps, RemoveDownloadFolderKeeps,
     DecideKeeps, ImportStepKeeps, ScanKeeps, RenameFileKeeps, TableEventsKeep, BinEmptiedKeeps,
     UserDeletesKeeps, MountsKeep
     DEF Next
<1>2. CASE UNCHANGED vars
  <2>1. DiskOK' /\ KnownOK' /\ Custody!CNext
    BY <1>2, OffDisk DEF vars, IInv, DiskOK
  <2>2. TableOK' /\ JobsOK'
    BY <1>2, RestHolds DEF vars
  <2>3. RunOK' /\ TransferOK'
    BY <1>2 DEF vars, IInv, RunOK, TransferOK, At, Current, Target, Key, Decision, FileRow
  <2>4. QED
    BY <2>1, <2>2, <2>3 DEF IInv
<1>3. QED
  BY <1>1, <1>2

\* The acts of the world are counted, so that a step of the services is told from one.
ActsOK == acts \in Nat

LEMMA ActsCounted ==
  ASSUME ActsOK, [Next]_vars
  PROVE  ActsOK'
<1>1. (acts' = acts \/ Act) => ActsOK'
  BY DEF Act, ActsOK
<1>2. ImportStep => acts' = acts
  BY DEF ImportStep, Quietly, AlreadyImported, RootFolderNotFound, StartUpgrade, RecycleOld, UnlistOld,
     RecycleFails, CannotTransfer, RenameIn, CopyIn, CopyDone, UnlinkSource, TransferFails, Imported,
     AfterMoveFails, AddMany
<1>3. QED
  BY <1>1, <1>2
     DEF Next, vars, DownloadArrives, UserAdds, BeginImport, RemoveDownloadFolder, Decide, Crash, Scan,
         ScanKilled, RenameFile, BookDeleted, RootFolderDeleted, BinEmptied, UserDeletes, Unmounted, Mounted

-----------------------------------------------------------------------------
\* Whatever fails, and whenever the program is killed: the services implement
\* FileCustody.
THEOREM CustodyIsKept == Spec => KeepsCustody
<1>1. Init => IInv
  BY InitHolds
<1>2. IInv /\ [Next]_vars => IInv'
  BY StepKeeps
<1>3. Init => Custody!CInit
  <2>1. SUFFICES ASSUME Init, NEW c \in Contents PROVE WhereIs(c) = {}
    BY DEF Init, Custody!CInit
  <2>2. Nowhere(c)
    BY <2>1, LibraryAssumption DEF Init, Nowhere, InDownload, InLibrary, InBin, Volumes
  <2>3. QED
    BY <2>2, PlacesAreDistinct
<1>4. IInv /\ [Next]_vars => [Custody!CNext]_(Custody!vars)
  BY StepKeeps DEF Custody!vars
<1>5. QED
  BY <1>1, <1>2, <1>3, <1>4, PTL DEF Spec, KeepsCustody, Custody!CSpec

\* A file that came in and that nobody gave up is on some volume, in a download or
\* in the bin.
NothingLost == \A c \in Contents : c \in arrived /\ c \notin given => ~Nowhere(c)

\* A file comes into the world at a place; the services announce none.
LEMMA ArrivesSomewhere ==
  ASSUME IInv, [Next]_vars, NEW c \in Contents, c \in arrived', c \notin arrived
  PROVE  ~Nowhere(c)'
<1>1. arrived' # arrived
  OBVIOUS
<1>2. ImportStep => arrived' = arrived
  BY DEF ImportStep, Quietly, AlreadyImported, RootFolderNotFound, StartUpgrade, RecycleOld, UnlistOld,
     RecycleFails, CannotTransfer, RenameIn, CopyIn, CopyDone, UnlinkSource, TransferFails, Imported,
     AfterMoveFails, AddMany
<1>3. \/ \E x \in Contents : DownloadArrives(x)
      \/ \E x \in Contents, b \in Books : UserAdds(x, b)
  BY <1>1, <1>2
     DEF Next, vars, BeginImport, RemoveDownloadFolder, Decide, Crash, Scan, ScanKilled, RenameFile,
         BookDeleted, RootFolderDeleted, BinEmptied, UserDeletes, Unmounted, Mounted, diskVars
<1>4. ASSUME NEW x \in Contents, DownloadArrives(x) PROVE ~Nowhere(c)'
  <2>1. /\ x = c /\ SlotOf[c] \in Slots
        /\ downloads' = [downloads EXCEPT ![SlotOf[c]] = c] /\ downloads \in [Slots -> Contents \cup {Nothing}]
    BY <1>4, LibraryAssumption DEF DownloadArrives, IInv, DiskOK
  <2>2. InDownload(c)'
    BY <2>1 DEF InDownload
  <2>3. QED
    BY <2>2 DEF Nowhere
<1>5. ASSUME NEW x \in Contents, NEW b \in Books, UserAdds(x, b) PROVE ~Nowhere(c)'
  <2>1. <<b, Misnamed>> \in LibraryPaths /\ x = c
    BY <1>5, LibraryAssumption DEF UserAdds, LibraryPaths
  <2>2. root \in Volumes /\ tree' = [tree EXCEPT ![root][<<b, Misnamed>>] = c]
    BY <1>5, <2>1 DEF UserAdds, Written, RootFolderExists, IInv, DiskOK
  <2>3. InLibrary(c)'
    BY <2>1, <2>2, TreeWrite DEF IInv, DiskOK
  <2>4. QED
    BY <2>3 DEF Nowhere
<1>6. QED
  BY <1>3, <1>4, <1>5

\* Whatever fails, and whenever the program is killed, a book file that came in is
\* still somewhere, unless the user removed it, the bin was emptied with it there,
\* or it was replaced and no bin is configured (recycleBinProvider.ts).
THEOREM NoFileIsLost == Spec => []NothingLost
<1>1. Init => IInv /\ NothingLost
  BY InitHolds DEF Init, NothingLost
<1>2. IInv /\ NothingLost /\ [Next]_vars => IInv' /\ NothingLost'
  <2> SUFFICES ASSUME IInv, NothingLost, [Next]_vars PROVE IInv' /\ NothingLost'
    OBVIOUS
  <2>1. ASSUME NEW c \in Contents, c \in arrived', c \notin given' PROVE ~Nowhere(c)'
    <3>1. /\ [Custody!CNext]_<<[x \in Contents |-> WhereIs(x)], given>>
          /\ c \notin arrived => ~Nowhere(c)'
      BY <2>1, StepKeeps, ArrivesSomewhere
    <3>2. c \notin given
      BY <2>1, <3>1 DEF Custody!CNext
    <3>3. CASE c \in arrived
      <4>1. WhereIs(c) # {}
        BY <3>2, <3>3, PlacesAreDistinct DEF NothingLost
      <4>2. ASSUME Custody!CNext PROVE WhereIs(c)' # {}
        BY <2>1, <4>1, <4>2 DEF Custody!CNext, Custody!Appears, Custody!Handled, Custody!GivenUp
      <4>3. ASSUME UNCHANGED [x \in Contents |-> WhereIs(x)] PROVE WhereIs(c)' # {}
        BY <4>1, <4>3
      <4>4. QED
        BY <3>1, <4>2, <4>3, PlacesAreDistinctNext
    <3>4. QED
      BY <3>1, <3>3
  <2>2. QED
    BY <2>1, StepKeeps DEF NothingLost
<1>3. QED
  BY <1>1, <1>2, PTL DEF Spec

\* While the root folder is missing, no step of the services takes a row of the
\* library from the table.
THEOREM AwayIsHarmless == Spec => AwayCostsNoRow
<1>1. Init => IInv /\ ActsOK
  BY InitHolds DEF Init, ActsOK
<1>2. IInv /\ ActsOK /\ [Next]_vars => IInv' /\ ActsOK'
  BY StepKeeps, ActsCounted
<1>3. ASSUME IInv, ActsOK, Next, ~RootFolderExists, acts' = acts, NEW r \in rows, r.path \in LibraryPaths
      PROVE  r \in rows'
  <2>1. UNCHANGED rows => r \in rows'
    OBVIOUS
  <2>2. ASSUME run # NoRun, ImportStep PROVE r \in rows'
    <3>1. CASE UnlistOld
      BY <1>3, <3>1 DEF UnlistOld, IInv, TransferOK, RootFolderExists
    <3>2. CASE AddMany
      <4>1. \A q \in rows \cup run.toAdd : FileRow(q)
        BY <1>3, <2>2 DEF IInv, TableOK, RunOK
      <4>2. QED
        BY <3>2, <4>1, InsertedRows DEF AddMany
    <3>3. CASE ~UnlistOld /\ ~AddMany
      BY <2>1, <2>2, <3>3 DEF ImportStep, AlreadyImported, RootFolderNotFound, StartUpgrade, RecycleFails,
         RecycleOld, CannotTransfer, RenameIn, CopyIn, CopyDone, UnlinkSource, TransferFails, Imported,
         AfterMoveFails
    <3>4. QED
      BY <3>1, <3>2, <3>3
  <2>3. ASSUME NEW f, Scan(f) \/ ScanKilled(f) PROVE FALSE
    BY <1>3, <2>3 DEF Scan, ScanKilled, Skipped, FolderExists, AuthorFolderExists
  <2>4. ASSUME NEW q \in rows, RenameFile(q) PROVE FALSE
    BY <1>3, <2>4 DEF RenameFile, CanTransfer
  <2>5. ~Act
    BY <1>3 DEF Act, ActsOK
  <2>6. QED
    BY <1>3, <2>1, <2>2, <2>3, <2>4, <2>5
       DEF Next, DownloadArrives, UserAdds, BeginImport, RemoveDownloadFolder, Decide, Crash,
           BookDeleted, RootFolderDeleted, BinEmptied, UserDeletes, Unmounted, Mounted
<1>4. IInv /\ ActsOK /\ [Next]_vars
        => [~RootFolderExists /\ acts' = acts
             => \A r \in rows : r.path \in LibraryPaths => r \in rows']_vars
  BY <1>3
<1>5. QED
  BY <1>1, <1>2, <1>4, PTL DEF Spec, AwayCostsNoRow
=============================================================================
