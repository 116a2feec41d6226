---------------------------- MODULE LibraryFiles ----------------------------
(***************************************************************************)
(* The book files of the library: the disk, the recycle bin, the BookFiles *)
(* table, and the services that keep them in step.                         *)
(*   - DownloadedBooksImportService and ImportApprovedBooks bring a        *)
(*     finished download in, UpgradeMediaFileService puts what it replaces *)
(*     in the recycle bin, BookFileMovingService and DiskTransferService   *)
(*     move or copy the file;                                              *)
(*   - DiskScanService and MediaFileTableCleanupService bring the table in *)
(*     line with the disk; RenameBookFileService renames what is there.    *)
(*                                                                         *)
(* An import waits (await) between its decisions, the import proper and    *)
(* the removal of the download folder, so other services run there.  The   *)
(* import proper never waits: nothing of the program runs between its      *)
(* steps, but each step is on the disk or committed when it returns, so    *)
(* the program may be killed between any two of them.                      *)
(***************************************************************************)
EXTENDS Naturals, FiniteSets

CONSTANTS
  Contents,   \* what book files contain: each value is one book file of the world
  Books, Parts,
  Slots,      \* paths of files in download folders
  Folders,    \* download folders
  Importers,  \* imports that may be under way at once
  FolderOf,   \* [Slots -> Folders]
  SlotOf,     \* [Contents -> Slots]: the path a download of it arrives at
  BookOf, PartOf, QualityOf,  \* what the decision maker makes of a file
  CopyOnly,   \* the download client still needs its files (seeding): import by copy
  UseBin,     \* a recycle bin is configured
  MaxActs,    \* bound on the acts of the world outside the imports, scans and renames
  Nothing, Partial, Unmapped

\* A library path is the author's folder (one per book here) and a file name:
\* the name the naming template gives to a part, or one the user chose.
Misnamed     == "as dropped"
LibraryPaths == Books \X (Parts \cup {Misnamed})
Volumes      == {"volume", "mount point"}

ASSUME LibraryAssumption ==
  /\ Slots \cap LibraryPaths = {}
  /\ FolderOf \in [Slots -> Folders] /\ SlotOf \in [Contents -> Slots]
  /\ BookOf \in [Contents -> Books] /\ PartOf \in [Contents -> Parts]
  /\ QualityOf \in [Contents -> Nat]
  /\ CopyOnly \in BOOLEAN /\ UseBin \in BOOLEAN /\ MaxActs \in Nat
  /\ Nothing \notin Contents /\ Partial \notin Contents /\ Nothing # Partial
  /\ Unmapped \notin Books

VARIABLES
  tree,      \* [Volumes -> [LibraryPaths -> Contents \cup {Nothing, Partial}]]
  folders,   \* [Volumes -> SUBSET Books]: the author folders that exist
  root,      \* what the root folder's path shows: a volume, or "none"
  downloads, \* [Slots -> Contents \cup {Nothing}]
  bin,       \* what the recycle bin holds
  rows,      \* the BookFiles table: records [id, path, book, seen]
  jobs,      \* [Importers -> the state of an import]
  run,       \* the import that is in its unbroken part, or NoRun
  arrived,   \* history: the files that have come into the world
  given,     \* history: the files that were given up by the user or with the bin
  acts       \* number of acts of the outside world so far, bounded by MaxActs

vars == <<tree, folders, root, downloads, bin, rows, jobs, run, arrived, given, acts>>
diskVars == <<tree, folders, root, downloads, bin>>

-----------------------------------------------------------------------------
(* The disk.                                                               *)

\* fileExists and getFileSize look behind the root folder's path, whatever is
\* mounted there: the library's volume, the empty mount point, or nothing.
FileAt(p) == IF p \in Slots THEN downloads[p]
             ELSE IF root = "none" THEN Nothing ELSE tree[root][p]

RootFolderExists == root # "none"
AuthorFolderExists(b) == RootFolderExists /\ b \in folders[root]
RootFolderEmpty == RootFolderExists /\ folders[root] = {}

\* Writing c at a library path creates the author's folder (ensureBookFolder).
Written(p, c) == /\ tree' = [tree EXCEPT ![root][p] = c]
                 /\ folders' = [folders EXCEPT ![root] = @ \cup {p[1]}]

\* Removing whatever is at a path, in the library or in a download folder.
Removed(p) == IF p \in Slots
                THEN downloads' = [downloads EXCEPT ![p] = Nothing] /\ UNCHANGED tree
                ELSE tree' = [tree EXCEPT ![root][p] = Nothing] /\ UNCHANGED downloads

\* RecycleBinProvider.deleteFile: to the bin, under a name nobody has there, or
\* off the disk for good when no bin is configured.
RecycledFile(p) == /\ Removed(p)
                   /\ bin' = IF UseBin THEN bin \cup ({FileAt(p)} \cap Contents) ELSE bin
                   /\ given' = IF UseBin THEN given ELSE given \cup ({FileAt(p)} \cap Contents)

-----------------------------------------------------------------------------
(* The BookFiles table.  Path is UNIQUE; a new row gets the id after the   *)
(* largest one in the table (INTEGER PRIMARY KEY without AUTOINCREMENT).   *)

NewId(table) == IF table = {} THEN 1
                ELSE 1 + CHOOSE i \in {r.id : r \in table} : \A r \in table : r.id <= i

\* The tables that an insertion may leave: the files get the next ids, in some order.
Inserted(table, files) ==
  LET ids == NewId(table) .. NewId(table) + Cardinality(files) - 1
  IN {table \cup {[f EXCEPT !.id = n[f]] : f \in files} :
        n \in {n \in [files -> ids] : \A f, g \in files : f # g => n[f] # n[g]}}

PathsOf(table) == {r.path : r \in table}

\* insertMany is one transaction, refused when a path is taken or comes twice.
CanInsert(table, files) == /\ PathsOf(files) \cap PathsOf(table) = {}
                           /\ Cardinality(PathsOf(files)) = Cardinality(files)

NewFile(p, c) == [id |-> 0, path |-> p,
                  book |-> IF c = Partial THEN Unmapped ELSE BookOf[c], seen |-> c]

QualityOfRow(r) == IF r.seen = Partial THEN 0 ELSE QualityOf[r.seen]
FilesOfBook(b) == {r \in rows : r.book = b}

-----------------------------------------------------------------------------
(* Downloads come in.                                                      *)

NoJob == [phase |-> "idle"]
NoRun == [stage |-> "none"]

Init ==
  /\ tree = [v \in Volumes |-> [p \in LibraryPaths |-> Nothing]]
  /\ folders = [v \in Volumes |-> {}]
  /\ root = "volume"
  /\ downloads = [s \in Slots |-> Nothing]
  /\ bin = {} /\ rows = {}
  /\ jobs = [j \in Importers |-> NoJob]
  /\ run = NoRun
  /\ arrived = {} /\ given = {} /\ acts = 0

\* The client finishes a file, at a path that may have been used before.
DownloadArrives(c) ==
  /\ c \notin arrived /\ downloads[SlotOf[c]] = Nothing
  /\ downloads' = [downloads EXCEPT ![SlotOf[c]] = c]
  /\ arrived' = arrived \cup {c}
  /\ UNCHANGED <<tree, folders, root, bin, rows, jobs, run, given, acts>>

\* UpgradeSpecification: no file of the book is of a better quality.
IsUpgrade(c) == \A r \in FilesOfBook(BookOf[c]) : QualityOfRow(r) <= QualityOf[c]

\* processFolder up to its first await: the decisions, with the files each book
\* had when they were made (localBook.book.bookFiles).
Decide(j, f) ==
  /\ run = NoRun /\ jobs[j] = NoJob
  /\ LET found == {[slot |-> s, as |-> downloads[s], old |-> FilesOfBook(BookOf[downloads[s]])]
                     : s \in {s \in Slots : FolderOf[s] = f /\ downloads[s] # Nothing
                                              /\ IsUpgrade(downloads[s])}}
     IN /\ found # {}
        /\ jobs' = [jobs EXCEPT ![j] = [phase |-> "decided", folder |-> f, batch |-> found]]
  /\ UNCHANGED <<diskVars, rows, run, arrived, given, acts>>

-----------------------------------------------------------------------------
(* ImportApprovedBooks.import, one file of the batch after the other.      *)
(* run.stage says what is next for run.file:                               *)
(*   file -> replace <-> unlist, replace -> copying -> unlink -> moved     *)

Current == run.file
Key(d) == <<BookOf[d.as], PartOf[d.as]>>
Target(d) == Key(d)

BeginImport(j) ==
  /\ run = NoRun /\ jobs[j].phase = "decided"
  /\ run' = [job |-> j, stage |-> "file", todo |-> jobs[j].batch, file |-> Nothing,
             old |-> {}, now |-> Nothing, toAdd |-> {}, results |-> {}]
  /\ UNCHANGED <<diskVars, rows, jobs, arrived, given, acts>>

\* qualifiedImports: the best quality first.
QualifiedImports(files) == {d \in files : \A e \in files : QualityOf[e.as] <= QualityOf[d.as]}

\* The file's result is in, good or bad, and the loop goes on.
Settled(d, files) == run' = [run EXCEPT !.stage = "file", !.todo = @ \ {d}, !.file = Nothing,
                                        !.old = {}, !.now = Nothing,
                                        !.results = @ \cup {Key(d)},
                                        !.toAdd = @ \cup files]
Fails == Settled(Current, {})

At(stage) == run # NoRun /\ run.stage = stage
IsNext(d) == At("file") /\ d \in QualifiedImports(run.todo)
Quietly == UNCHANGED <<jobs, arrived, acts>>

\* "Book has already been imported": some result, even a failure, is about it.
AlreadyImported(d) ==
  /\ IsNext(d) /\ Key(d) \in run.results
  /\ Settled(d, {}) /\ UNCHANGED <<diskVars, rows, given>> /\ Quietly

\* upgradeBookFile refuses to replace files it cannot reach.
RootFolderNotFound(d) ==
  /\ IsNext(d) /\ Key(d) \notin run.results
  /\ d.old # {} /\ ~RootFolderExists
  /\ Settled(d, {}) /\ UNCHANGED <<diskVars, rows, given>> /\ Quietly

\* Mutant: the guard for the missing root folder is gone.
UpgradeAnyway(d) ==
  /\ IsNext(d) /\ Key(d) \notin run.results
  /\ run' = [run EXCEPT !.stage = "replace", !.file = d, !.old = d.old]
  /\ UNCHANGED <<diskVars, rows, given>> /\ Quietly

StartUpgrade(d) ==
  /\ IsNext(d) /\ Key(d) \notin run.results
  /\ d.old = {} \/ RootFolderExists
  /\ run' = [run EXCEPT !.stage = "replace", !.file = d, !.old = d.old]
  /\ UNCHANGED <<diskVars, rows, given>> /\ Quietly

\* The next file that is replaced goes to the bin, if it is still there ...
RecycleOld(r) ==
  /\ At("replace") /\ r \in run.old
  /\ IF FileAt(r.path) # Nothing THEN RecycledFile(r.path)
                                 ELSE UNCHANGED <<tree, downloads, bin, given>>
  /\ run' = [run EXCEPT !.stage = "unlist", !.old = @ \ {r}, !.now = r]
  /\ UNCHANGED <<folders, root, rows>> /\ Quietly

\* ... and its row is deleted, by the id it had when the decision was made.
UnlistOld ==
  /\ At("unlist")
  /\ rows' = {r \in rows : r.id # run.now.id}
  /\ run' = [run EXCEPT !.stage = "replace"]
  /\ UNCHANGED <<diskVars, given>> /\ Quietly

\* RecycleBinException: the file cannot be moved to the bin.
RecycleFails ==
  /\ At("replace") /\ \E r \in run.old : FileAt(r.path) # Nothing
  /\ Fails /\ UNCHANGED <<diskVars, rows, given>> /\ Quietly

\* transferFile wants the source there and the destination free, and
\* ensureBookFolder the root folder.
CanTransfer(from, to) == /\ FileAt(from) # Nothing
                         /\ RootFolderExists /\ FileAt(to) = Nothing

AtTransfer == At("replace") /\ run.old = {}

CannotTransfer ==
  /\ AtTransfer /\ ~CanTransfer(Current.slot, Target(Current))
  /\ Fails /\ UNCHANGED <<diskVars, rows, given>> /\ Quietly

\* moveFile within one file system: a rename.
RenameIn ==
  /\ AtTransfer /\ CanTransfer(Current.slot, Target(Current)) /\ ~CopyOnly
  /\ Written(Target(Current), FileAt(Current.slot))
  /\ downloads' = [downloads EXCEPT ![Current.slot] = Nothing]
  /\ run' = [run EXCEPT !.stage = "moved"]
  /\ UNCHANGED <<root, bin, rows, given>> /\ Quietly

\* A copy, or a move between file systems (EXDEV), which begins as one.
CopyIn ==
  /\ AtTransfer /\ CanTransfer(Current.slot, Target(Current))
  /\ Written(Target(Current), Partial)
  /\ run' = [run EXCEPT !.stage = "copying"]
  /\ UNCHANGED <<root, downloads, bin, rows, given>> /\ Quietly

CopyDone ==
  /\ At("copying")
  /\ Written(Target(Current), FileAt(Current.slot))
  /\ run' = [run EXCEPT !.stage = IF CopyOnly THEN "moved" ELSE "unlink"]
  /\ UNCHANGED <<root, downloads, bin, rows, given>> /\ Quietly

UnlinkSource ==
  /\ At("unlink")
  /\ downloads' = [downloads EXCEPT ![Current.slot] = Nothing]
  /\ run' = [run EXCEPT !.stage = "moved"]
  /\ UNCHANGED <<tree, folders, root, bin, rows, given>> /\ Quietly

\* Mutant: a move that fails is rolled back by removing the source.
RollsBackTheSource ==
  /\ At("copying") \/ At("unlink")
  /\ Removed(Current.slot)
  /\ Fails
  /\ UNCHANGED <<folders, root, bin, rows, given>> /\ Quietly

\* The copy comes out short, or the source cannot be deleted: the target is
\* rolled back (tryCopyFileVerified, tryMoveFileVerified).
TransferFails ==
  /\ At("copying") \/ At("unlink")
  /\ Removed(Target(Current))
  /\ Fails
  /\ UNCHANGED <<folders, root, bin, rows, given>> /\ Quietly

\* The file is where it belongs, and so is its result; the object that will be
\* stored is the one from before the move, with the path the file had then.
Imported ==
  /\ At("moved")
  /\ Settled(Current, {NewFile(Current.slot, Current.as)})
  /\ UNCHANGED <<diskVars, rows, given>> /\ Quietly

\* Setting permissions or writing the tags fails: the file stays where it is.
AfterMoveFails ==
  /\ At("moved")
  /\ Fails /\ UNCHANGED <<diskVars, rows, given>> /\ Quietly

\* The batch is through: the rows are inserted and the events published, with
\* the objects that were given to addMany.  A refused insert rejects the import.
AddMany ==
  /\ At("file") /\ run.todo = {}
  /\ LET j == run.job
         stored == CanInsert(rows, run.toAdd)
     IN /\ rows' \in IF stored THEN Inserted(rows, run.toAdd) ELSE {rows}
        /\ jobs' = [jobs EXCEPT ![j] = IF stored /\ run.toAdd # {} /\ ~CopyOnly
                                         THEN [phase |-> "imported", folder |-> @.folder]
                                         ELSE NoJob]
  /\ run' = NoRun
  /\ UNCHANGED <<diskVars, arrived, given, acts>>

\* processFolder after the import: the download folder goes if no book file is
\* left in it now.
ShouldDeleteFolder(f) == \A s \in Slots : FolderOf[s] = f => downloads[s] = Nothing

RemoveDownloadFolder(j) ==
  /\ run = NoRun /\ jobs[j].phase = "imported"
  /\ downloads' = [s \in Slots |-> IF FolderOf[s] = jobs[j].folder
                                        /\ ShouldDeleteFolder(jobs[j].folder)
                                     THEN Nothing ELSE downloads[s]]
  /\ jobs' = [jobs EXCEPT ![j] = NoJob]
  /\ UNCHANGED <<tree, folders, root, bin, rows, run, arrived, given, acts>>

-----------------------------------------------------------------------------
(* The disk scan and the renames: each is one unbroken step, which may be  *)
(* cut short by a crash at the places given.                               *)

RootPath == "root"
Under(f, p) == p \in LibraryPaths /\ (f = RootPath \/ p[1] = f)
FolderExists(f) == IF f = RootPath THEN RootFolderExists ELSE AuthorFolderExists(f)
FilesUnder(f) == {p \in LibraryPaths : Under(f, p) /\ FileAt(p) # Nothing}

\* The scan gives up when the root folder is missing, or empty where the
\* author's folder should be.
Skipped(f) == ~FolderExists(f) /\ (~RootFolderExists \/ RootFolderEmpty)

\* Mutant: the clean-up only looks at folders that are gone.
CleanedIfGone(f) == IF FolderExists(f) THEN rows ELSE {r \in rows : ~Under(f, r.path)}

\* cleanMediaFiles: rows whose file is missing; left out when the folder exists
\* and holds no book file at all.
Cleaned(f) ==
  IF FolderExists(f) /\ FilesUnder(f) = {} THEN rows
  ELSE {r \in rows : Under(f, r.path) => r.path \in FilesUnder(f)}

\* FilterFilesType.Known leaves out what the table already has as it is.
Changed(f) == {p \in FilesUnder(f) : \A r \in rows : r.path = p => r.seen # FileAt(p)}

\* The files the import of existing files takes: identified, one of each part.
Importable(f) == {A \in SUBSET {p \in Changed(f) : FileAt(p) # Partial} :
                    \A p, q \in A : p # q =>
                      \/ BookOf[FileAt(p)] # BookOf[FileAt(q)]
                      \/ PartOf[FileAt(p)] # PartOf[FileAt(q)]}

\* Mutant: only the files that were imported get a row.
ScanOfImported(f, A) ==
  LET kept    == {r \in Cleaned(f) : r.path \notin A}
      updated == {IF r.path \in Changed(f) THEN [r EXCEPT !.seen = FileAt(r.path)] ELSE r : r \in kept}
  IN Inserted(updated, {NewFile(p, FileAt(p)) : p \in A})

\* Their rows are replaced; the other changed files keep the row they have,
\* with the new size, or get one.
ScanOf(f, A) ==
  LET kept    == {r \in Cleaned(f) : r.path \notin A}
      updated == {IF r.path \in Changed(f) THEN [r EXCEPT !.seen = FileAt(r.path)] ELSE r : r \in kept}
      new     == Changed(f) \ PathsOf(kept)
  IN Inserted(updated, {NewFile(p, FileAt(p)) : p \in new})

Scan(f) ==
  /\ run = NoRun /\ ~Skipped(f)
  /\ \E A \in Importable(f) : rows' \in ScanOf(f, A)
  /\ UNCHANGED <<diskVars, jobs, run, arrived, given, acts>>

\* RenameBookFileService.renameFiles, for one file: to the name it should have.
RenameFile(r) ==
  /\ run = NoRun /\ r \in rows /\ r.book # Unmapped
  /\ r.seen # Partial
  /\ LET to == <<r.book, PartOf[r.seen]>>
     IN /\ r.path # to /\ CanTransfer(r.path, to)
        /\ folders' = [folders EXCEPT ![root] = @ \cup {r.book}]
        /\ IF r.path \in Slots
             THEN /\ downloads' = [downloads EXCEPT ![r.path] = Nothing]
                  /\ tree' = [tree EXCEPT ![root][to] = FileAt(r.path)]
             ELSE /\ tree' = [tree EXCEPT ![root][to] = FileAt(r.path), ![root][r.path] = Nothing]
                  /\ UNCHANGED downloads
        \* The row follows, unless the program is killed or another row has the path.
        /\ \/ /\ to \notin PathsOf(rows)
              /\ rows' = (rows \ {r}) \cup {[r EXCEPT !.path = to]}
           \/ UNCHANGED rows
  /\ UNCHANGED <<root, bin, jobs, run, arrived, given, acts>>

-----------------------------------------------------------------------------
(* What the rest of the program and the world do.                          *)

\* The program is killed: everything in memory is gone.
Crash ==
  /\ run # NoRun \/ \E j \in Importers : jobs[j] # NoJob
  /\ run' = NoRun /\ jobs' = [j \in Importers |-> NoJob]
  /\ UNCHANGED <<diskVars, rows, arrived, given, acts>>

\* Killed within a scan, after the clean-up and the deletion of the rows that
\* were about to be replaced.
ScanKilled(f) ==
  /\ ~Skipped(f)
  /\ \E A \in Importable(f) : rows' = {r \in Cleaned(f) : r.path \notin A}
  /\ run = NoRun /\ run' = NoRun /\ jobs' = [j \in Importers |-> NoJob]
  /\ UNCHANGED <<diskVars, arrived, given, acts>>

Act == acts < MaxActs /\ acts' = acts + 1

\* MediaFileService.handleBookDeleted: the rows go, or lose their book.
BookDeleted(b) ==
  /\ run = NoRun /\ FilesOfBook(b) # {} /\ Act
  /\ \/ rows' = rows \ FilesOfBook(b)
     \/ rows' = {IF r.book = b THEN [r EXCEPT !.book = Unmapped] ELSE r : r \in rows}
  /\ UNCHANGED <<diskVars, jobs, run, arrived, given>>

\* MediaFileService.handleRootFolderDeleted.
RootFolderDeleted ==
  /\ run = NoRun /\ Act
  /\ rows' = {r \in rows : ~Under(RootPath, r.path)}
  /\ UNCHANGED <<diskVars, jobs, run, arrived, given>>

\* RecycleBinProvider.empty, and cleanup for what is old enough.
BinEmptied(c) ==
  /\ run = NoRun /\ c \in bin /\ Act /\ bin' = bin \ {c} /\ given' = given \cup {c}
  /\ UNCHANGED <<tree, folders, root, downloads, rows, jobs, run, arrived>>

\* The user copies a book into an author's folder, or deletes one there.
UserAdds(c, b) ==
  /\ run = NoRun /\ c \notin arrived /\ Act
  /\ RootFolderExists /\ FileAt(<<b, Misnamed>>) = Nothing
  /\ Written(<<b, Misnamed>>, c) /\ arrived' = arrived \cup {c}
  /\ UNCHANGED <<root, downloads, bin, rows, jobs, run, given>>

UserDeletes(p) ==
  /\ run = NoRun /\ FileAt(p) # Nothing /\ Act
  /\ Removed(p) /\ given' = given \cup ({FileAt(p)} \cap Contents)
  /\ UNCHANGED <<folders, root, bin, rows, jobs, run, arrived>>

\* The volume goes away, leaving its mount point or nothing, and comes back.
Unmounted == /\ run = NoRun /\ root = "volume" /\ root' \in {"mount point", "none"} /\ Act
             /\ UNCHANGED <<tree, folders, downloads, bin, rows, jobs, run, arrived, given>>

Mounted == /\ run = NoRun /\ root # "volume" /\ root' = "volume"
           /\ UNCHANGED <<tree, folders, downloads, bin, rows, jobs, run, arrived, given, acts>>

-----------------------------------------------------------------------------
ImportStep ==
  \/ \E d \in run.todo : AlreadyImported(d) \/ RootFolderNotFound(d) \/ StartUpgrade(d)
  \/ \E r \in run.old : RecycleOld(r)
  \/ UnlistOld \/ RecycleFails
  \/ CannotTransfer \/ RenameIn \/ CopyIn \/ CopyDone \/ UnlinkSource \/ TransferFails
  \/ Imported \/ AfterMoveFails \/ AddMany

Next ==
  \/ \E c \in Contents : DownloadArrives(c) \/ \E b \in Books : UserAdds(c, b)
  \/ \E j \in Importers : BeginImport(j) \/ RemoveDownloadFolder(j)
                          \/ \E f \in Folders : Decide(j, f)
  \/ run # NoRun /\ ImportStep
  \/ \E f \in Books \cup {RootPath} : Scan(f) \/ ScanKilled(f)
  \/ \E r \in rows : RenameFile(r)
  \/ Crash
  \/ \E b \in Books : BookDeleted(b)
  \/ RootFolderDeleted
  \/ \E c \in bin : BinEmptied(c)
  \/ \E p \in LibraryPaths : UserDeletes(p)
  \/ Unmounted \/ Mounted

\* The disk scan is scheduled every day; an import that has begun goes on.
Fairness == /\ SF_vars(Scan(RootPath))
            /\ WF_vars(run # NoRun /\ ImportStep)

Spec == Init /\ [][Next]_vars /\ Fairness

-----------------------------------------------------------------------------
(* What must hold.                                                         *)

TypeOK ==
  /\ tree \in [Volumes -> [LibraryPaths -> Contents \cup {Nothing, Partial}]]
  /\ folders \in [Volumes -> SUBSET Books] /\ root \in Volumes \cup {"none"}
  /\ downloads \in [Slots -> Contents \cup {Nothing}]
  /\ bin \subseteq Contents /\ arrived \subseteq Contents /\ given \subseteq arrived
  /\ \A r \in rows : r.id \in Nat \ {0} /\ r.path \in LibraryPaths \cup Slots
  /\ run # NoRun => run.job \in Importers

WhereIs(c) ==
  (IF \E s \in Slots : downloads[s] = c THEN {"download"} ELSE {})
  \cup (IF \E v \in Volumes, p \in LibraryPaths : tree[v][p] = c THEN {"library"} ELSE {})
  \cup (IF c \in bin THEN {"bin"} ELSE {})

\* Whatever fails, and whenever the program is killed, a book file that came
\* in is somewhere until the user or the emptying of the bin removes it: the
\* services implement FileCustody.
Custody == INSTANCE FileCustody WITH where <- [c \in Contents |-> WhereIs(c)]
KeepsCustody == Custody!CSpec

\* A library that is away (the root folder is missing) costs no row of it:
\* neither a scan nor an upgrade drops what it cannot see.
AwayCostsNoRow ==
  [][~RootFolderExists /\ acts' = acts
       => \A r \in rows : r.path \in LibraryPaths => r \in rows']_vars

\* Once the library's volume stays mounted, a file in it gets its row, whichever
\* step of an import or a rename was the last before the program was killed.
FilesBecomeKnown ==
  <>[](root = "volume") =>
    \A p \in LibraryPaths :
      tree["volume"][p] # Nothing ~> (tree["volume"][p] = Nothing \/ p \in PathsOf(rows))

\* Then a row of the library whose file is gone goes too, unless no book file at
\* all is left there: an empty library is not believed.
StaleRowsGo ==
  <>[](root = "volume") =>
    \A p \in LibraryPaths :
      p \in PathsOf(rows) ~> \/ p \notin PathsOf(rows) \/ tree["volume"][p] # Nothing
                             \/ \A q \in LibraryPaths : tree["volume"][q] = Nothing

\* "now that trackfiles have been inserted and ids generated, publish the
\* import events": an event names a row by its id.
ImportEventsNameTheirRow ==
  [][AddMany /\ rows' # rows
       => \A e \in run.toAdd : \E r \in rows' : r.id = e.id]_vars
=============================================================================
