--------------------------- MODULE TrackedDownloads ---------------------------
(***************************************************************************)
(* The state every part of download tracking shares: the cache of tracked  *)
(* downloads (TrackedDownloadService), the objects it points to, the       *)
(* DownloadHistory table that survives a restart, and the download client. *)
(*                                                                         *)
(* A TrackedDownload is an object with an identity: a task keeps its       *)
(* reference across an await while trackDownload replaces the one in the   *)
(* cache, so the cache maps a download to an element of Obj.               *)
(***************************************************************************)
EXTENDS Integers, FiniteSets

CONSTANTS
  Download,           \* download ids
  Obj,                \* pool of TrackedDownload objects
  Foreign,            \* downloads somebody else may have put into the client
  Categorised,        \* downloads the client lists under our category
  CompletedHandling,  \* config: enableCompletedDownloadHandling
  MaxGrabs,           \* bound: grabs of one download id
  None                \* no object

ASSUME DownloadAssumption    ==
  Download # {} /\ Foreign \subseteq Download /\ Categorised \subseteq Download
ASSUME NoneAssumption        == None \notin Obj
ASSUME HandlingAssumption    == CompletedHandling \in BOOLEAN
ASSUME MaxGrabsAssumption    == MaxGrabs \in Nat

VARIABLES
  cache,      \* cache[d]: the tracked object of d, or None
  object,     \* object[o]: the fields of object o
  history,    \* history[d]: latest expected event of d in DownloadHistory
  grabs,      \* grabs[d]: Grabbed events of d in the entity history
  completed,  \* completed[d]: DownloadCompletedEvents published for d
  client,     \* client[d]: how the download client lists d
  queue       \* downloads QueueService shows

trackVars == <<cache, object, history, grabs, completed, client, queue>>

\* Seeding is a finished torrent that cannot be removed yet; Encrypted is a
\* finished download whose archive is encrypted.
Item  == {"Downloading", "Seeding", "Completed", "Encrypted", "Failed"}

State == {"Downloading", "DownloadFailedPending", "DownloadFailed",
          "ImportPending", "Importing", "ImportFailed", "Imported", "Ignored"}

Event == {"None", "Grabbed", "Imported", "Incomplete", "Failed", "Ignored"}

Tracked == [download : Download, item : Item, state : State,
            isTrackable : BOOLEAN, removed : BOOLEAN, warned : BOOLEAN]

TrackTypeOK ==
  /\ cache     \in [Download -> Obj \cup {None}]
  /\ object    \in [Obj -> Tracked]
  /\ history   \in [Download -> Event]
  /\ grabs     \in [Download -> 0..MaxGrabs]
  /\ completed \in [Download -> Nat]
  /\ client    \in [Download -> Item \cup {"Absent"}]
  /\ queue     \subseteq Download

-----------------------------------------------------------------------------
HasCompleted(item) == item \in {"Seeding", "Completed", "Encrypted"}
CanBeRemoved(item) == item \in {"Completed", "Encrypted", "Failed"}

Grabbed(d) == grabs[d] > 0

Cached == {o \in Obj : \E d \in Download : cache[d] = o}

\* Mutant of StateFromHistory: a grabbed download is no longer looked at.
StateFromHistoryIgnoring(e) == IF e = "Grabbed" THEN "Ignored" ELSE "Downloading"

\* getStateFromHistory.
StateFromHistory(e) ==
  CASE e = "Incomplete" -> "ImportFailed"
    [] e = "Imported"   -> "Imported"
    [] e = "Failed"     -> "DownloadFailed"
    [] e = "Ignored"    -> "Ignored"
    [] OTHER            -> "Downloading"

\* An existing object is kept unless it is still downloading.
Keeps(d) == cache[d] # None /\ object[cache[d]].state # "Downloading"

\* trackDownload: the object that stands for d afterwards; spare is an object
\* nobody refers to.
Target(d, spare) == IF Keeps(d) THEN cache[d] ELSE spare

\* trackDownload: the fields of that object, for the item the client listed.
\* The messages of an incomplete import are looked up as "statusMessages" but
\* were written as "StatusMessages": a new object has none.
TrackedAs(d, item) ==
  [download    |-> d,
   item        |-> item,
   state       |-> IF Keeps(d) THEN object[cache[d]].state
                               ELSE StateFromHistory(history[d]),
   isTrackable |-> TRUE,
   removed     |-> FALSE,
   warned      |-> Keeps(d) /\ object[cache[d]].warned]

\* Mutant of Trackable: only what is still downloading is processed.
TrackableWhileDownloading(x) ==
  /\ x.state = "Downloading"
  /\ CompletedHandling \/ ~HasCompleted(x.item)

\* downloadIsTrackable.
Trackable(x) ==
  /\ x.state \notin {"Imported", "DownloadFailed", "Ignored"}
  /\ CompletedHandling \/ ~HasCompleted(x.item)

\* updateTrackable: cached objects whose download is not in ids.
Untracked(ids) ==
  [o \in Obj |-> IF o \in Cached /\ object[o].download \notin ids
                   THEN [object[o] EXCEPT !.isTrackable = FALSE]
                   ELSE object[o]]

\* What a TrackedDownloadRefreshedEvent about the objects os of obj puts into
\* the queue.
Shown(os, obj) == {obj[o].download : o \in {p \in os : obj[p].isTrackable}}

\* handleDownloadsProcessed, handleTrackedDownloadsRemoved.
ShownOfCache(c, obj) ==
  Shown({o \in Obj : (\E d \in Download : c[d] = o) /\ Trackable(obj[o])}, obj)

\* stopTracking: the object leaves the cache and the queue is mapped again.
StopTracking(d) ==
  /\ cache' = [cache EXCEPT ![d] = None]
  /\ queue' = ShownOfCache(cache', object)

-----------------------------------------------------------------------------
\* FailedDownloadService.check.
FailedCheck(x) ==
  IF x.item \in {"Encrypted", "Failed"} /\ Grabbed(x.download)
    THEN [x EXCEPT !.state = "DownloadFailedPending"]
    ELSE x

\* Mutant of CompletedCheck: the state is not read again after the await.
CompletedCheckBlind(x) ==
  IF Grabbed(x.download) \/ x.download \in Categorised
    THEN [x EXCEPT !.state = "ImportPending"]
    ELSE x

\* CompletedDownloadService.check after its await, for a valid path: a
\* download that is neither grabbed nor in our category gets a warning.
CompletedCheck(x) ==
  IF x.state # "Downloading" THEN x
  ELSE IF Grabbed(x.download) \/ x.download \in Categorised
    THEN [x EXCEPT !.state = "ImportPending"]
    ELSE [x EXCEPT !.warned = TRUE]

-----------------------------------------------------------------------------
TrackInit ==
  /\ cache     = [d \in Download |-> None]
  /\ object    = [o \in Obj |->
                   [download |-> CHOOSE d \in Download : TRUE, item |-> "Downloading",
                    state |-> "Downloading", isTrackable |-> FALSE, removed |-> FALSE,
                    warned |-> FALSE]]
  /\ history   = [d \in Download |-> "None"]
  /\ grabs     = [d \in Download |-> 0]
  /\ completed = [d \in Download |-> 0]
  /\ client    \in {c \in [Download -> {"Absent", "Downloading"}] :
                     \A d \in Download \ Foreign : c[d] = "Absent"}
  /\ queue     = {}

\* A release is sent to the client: BookGrabbedEvent writes both histories.
Grab(d) ==
  /\ client[d] = "Absent" /\ grabs[d] < MaxGrabs
  /\ client'  = [client EXCEPT ![d] = "Downloading"]
  /\ grabs'   = [grabs EXCEPT ![d] = @ + 1]
  /\ history' = [history EXCEPT ![d] = "Grabbed"]
  /\ UNCHANGED <<cache, object, completed, queue>>

\* The client makes progress with d.
Progress(d) ==
  /\ \/ client[d] = "Downloading" /\ client' \in
          {[client EXCEPT ![d] = i] : i \in Item \ {"Downloading"}}
     \/ client[d] = "Seeding" /\ client' = [client EXCEPT ![d] = "Completed"]
  /\ UNCHANGED <<cache, object, history, grabs, completed, queue>>
=============================================================================
