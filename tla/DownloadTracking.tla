--------------------------- MODULE DownloadTracking ---------------------------
(***************************************************************************)
(* The tasks that work on tracked downloads, one step from await to await: *)
(* RefreshMonitoredDownloads (DownloadMonitoringService), the handler of   *)
(* ProcessMonitoredDownloads (DownloadProcessingService), the calls        *)
(* DownloadEventHub leaves in flight, queue deletions of the API, and the  *)
(* death of the process.                                                   *)
(***************************************************************************)
EXTENDS TrackedDownloads

CONSTANTS
  Refresher,          \* refresh commands that may run at a time
  Processor,          \* process commands that may run at a time
  User,               \* queue deletions: each is made once, at any time
  RemoveFromClient,   \* client settings removeCompleted/FailedDownloads
  ImportThrows,       \* whether the import of a path may throw
  MaxFaults,          \* bound: calls that fail or find nothing to import
  MaxCalls,           \* bound: calls to the client in flight for one object
  MaxRestarts         \* bound: restarts

ASSUME SwitchAssumption == RemoveFromClient \in BOOLEAN /\ ImportThrows \in BOOLEAN
ASSUME BoundAssumption  == MaxFaults \in Nat /\ MaxCalls \in Nat /\ MaxRestarts \in Nat

VARIABLES
  rpc,       \* rpc[r]: "idle", "fetching", "items" or "checking"
  snapshot,  \* snapshot[r]: the client's answer, items not yet processed
  found,     \* found[r]: objects processed so far
  checking,  \* checking[r]: the object whose check is awaited
  ppc,       \* ppc[p]: "idle", "importing" or "resumed"
  todo,      \* todo[p]: the rest of the list execute() took at its start
  importing, \* importing[p]: the object whose import is awaited
  due,       \* a ProcessMonitoredDownloads command is queued
  marking,   \* marking[o]: markItemAsImported calls of the hub in flight
  removing,  \* removing[o]: removeItem calls of the hub in flight
  deleting,  \* deleting[u]: what deletion u awaits, None before it, Spent after it
  faults,    \* faults so far
  restarts   \* restarts so far

refreshVars == <<rpc, snapshot, found, checking>>
processVars == <<ppc, todo, importing>>
hubVars     == <<marking, removing>>
vars == <<trackVars, refreshVars, processVars, due, hubVars, deleting, faults, restarts>>

\* The options of DELETE /queue/{id}.
Options == [remove : BOOLEAN, category : BOOLEAN, blocklist : BOOLEAN]
Ignoring == [remove |-> FALSE, category |-> FALSE, blocklist |-> FALSE]

Spent == [object |-> None, options |-> Ignoring]

TypeOK ==
  /\ TrackTypeOK
  /\ rpc       \in [Refresher -> {"idle", "fetching", "items", "checking"}]
  /\ snapshot  \in [Refresher -> [Download -> Item \cup {"Absent"}]]
  /\ found     \in [Refresher -> SUBSET Obj]
  /\ checking  \in [Refresher -> Obj \cup {None}]
  /\ ppc       \in [Processor -> {"idle", "importing", "resumed"}]
  /\ todo      \in [Processor -> SUBSET Obj]
  /\ importing \in [Processor -> Obj \cup {None}]
  /\ due       \in BOOLEAN
  /\ marking   \in [Obj -> 0..MaxCalls]
  /\ removing  \in [Obj -> 0..MaxCalls]
  /\ deleting  \in [User -> [object : Obj, options : Options] \cup {None, Spent}]
  /\ faults    \in 0..MaxFaults
  /\ restarts  \in 0..MaxRestarts

Nothing == [d \in Download |-> "Absent"]

Init ==
  /\ TrackInit
  /\ rpc       = [r \in Refresher |-> "idle"]
  /\ snapshot  = [r \in Refresher |-> Nothing]
  /\ found     = [r \in Refresher |-> {}]
  /\ checking  = [r \in Refresher |-> None]
  /\ ppc       = [p \in Processor |-> "idle"]
  /\ todo      = [p \in Processor |-> {}]
  /\ importing = [p \in Processor |-> None]
  /\ due       = FALSE
  /\ marking   = [o \in Obj |-> 0]
  /\ removing  = [o \in Obj |-> 0]
  /\ deleting  = [u \in User |-> None]
  /\ faults    = 0
  /\ restarts  = 0

-----------------------------------------------------------------------------
\* Objects somebody refers to; the others stand for garbage.
Referenced(o) ==
  \/ o \in Cached
  \/ \E r \in Refresher : o \in found[r] \/ checking[r] = o
  \/ \E p \in Processor : o \in todo[p] \/ importing[p] = o
  \/ marking[o] + removing[o] > 0
  \/ \E u \in User : deleting[u] # None /\ deleting[u].object = o

Unreferenced == {o \in Obj : ~Referenced(o)}

\* A call that fails, a path that is not there, an import that finds nothing.
Fault == faults < MaxFaults /\ faults' = faults + 1

-----------------------------------------------------------------------------
(* RefreshMonitoredDownloads.                                              *)

Refresh(r) ==
  /\ rpc[r] = "idle"
  /\ rpc' = [rpc EXCEPT ![r] = "fetching"]
  /\ UNCHANGED <<trackVars, snapshot, found, checking, processVars, due, hubVars,
                 deleting, faults, restarts>>

\* getItems answers; a failure leaves the list empty.
GetItems(r) ==
  /\ rpc[r] = "fetching"
  /\ rpc' = [rpc EXCEPT ![r] = "items"]
  /\ \/ snapshot' = [snapshot EXCEPT ![r] = client] /\ UNCHANGED faults
     \/ snapshot' = [snapshot EXCEPT ![r] = Nothing] /\ Fault
  /\ UNCHANGED <<trackVars, found, checking, processVars, due, hubVars, deleting,
                 restarts>>

\* processClientItem up to its await. Both checks are made for an object that
\* is Downloading; the second one awaits only for a completed item.
ProcessClientItem(r, d, spare) ==
  LET item == snapshot[r][d]
      x    == TrackedAs(d, item)
      o    == Target(d, spare)
      new  == x.state = "Downloading"
  IN  /\ rpc[r] = "items" /\ item # "Absent"
      /\ snapshot' = [snapshot EXCEPT ![r][d] = "Absent"]
      /\ object'   = [object EXCEPT ![o] = IF new THEN FailedCheck(x) ELSE x]
      /\ cache'    = [cache EXCEPT ![d] = o]
      /\ \/ /\ new /\ HasCompleted(item)
            /\ checking' = [checking EXCEPT ![r] = o]
            /\ rpc'      = [rpc EXCEPT ![r] = "checking"]
            /\ UNCHANGED found
         \/ /\ ~(new /\ HasCompleted(item))
            /\ found' = [found EXCEPT ![r] = @ \cup {o}]
            /\ UNCHANGED <<checking, rpc>>
      /\ UNCHANGED <<history, grabs, completed, client, queue, processVars, due,
                     hubVars, deleting, faults, restarts>>

\* The import item is there: check goes on; or the promise was rejected and
\* the item is dropped; or the path is no good and the state stays.
CheckResolves(r) ==
  LET o == checking[r]
  IN  /\ rpc[r] = "checking"
      /\ \/ /\ object' = [object EXCEPT ![o] = CompletedCheck(@)]
            /\ found'  = [found EXCEPT ![r] = @ \cup {o}]
            /\ UNCHANGED faults
         \/ Fault /\ UNCHANGED <<object, found>>
         \/ /\ Fault
            /\ object' = [object EXCEPT ![o].warned = @ \/ object[o].state = "Downloading"]
            /\ found'  = [found EXCEPT ![r] = @ \cup {o}]
      /\ checking' = [checking EXCEPT ![r] = None]
      /\ rpc'      = [rpc EXCEPT ![r] = "items"]
      /\ UNCHANGED <<cache, history, grabs, completed, client, queue, snapshot,
                     processVars, due, hubVars, deleting, restarts>>

\* The rest of refresh: updateTrackable, TrackedDownloadRefreshedEvent and
\* the push of ProcessMonitoredDownloads.
EndRefresh(r) ==
  LET kept == {o \in found[r] : Trackable(object[o])}
  IN  /\ rpc[r] = "items" /\ snapshot[r] = Nothing
      /\ object' = Untracked({object[o].download : o \in kept})
      /\ queue'  = Shown(kept, object')
      /\ due'    = TRUE
      /\ rpc'    = [rpc EXCEPT ![r] = "idle"]
      /\ found'  = [found EXCEPT ![r] = {}]
      /\ UNCHANGED <<cache, history, grabs, completed, client, snapshot, checking,
                     processVars, hubVars, deleting, faults, restarts>>

-----------------------------------------------------------------------------
(* DownloadEventHub.                                                       *)

\* The guard of the three handlers, as they read it when the event comes.
Removable(x) == RemoveFromClient /\ ~x.removed /\ CanBeRemoved(x.item)

\* One call to the client more for every object of os.
Calling(calls, os) == [o \in Obj |-> IF o \in os THEN calls[o] + 1 ELSE calls[o]]

InBound(calls) == \A o \in Obj : calls[o] <= MaxCalls

\* handleDownloadCompleted after markItemAsImported settled.
MarkResolves(o) ==
  /\ marking[o] > 0
  /\ marking'  = [marking EXCEPT ![o] = @ - 1]
  /\ removing' = IF Removable(object[o]) /\ object[o].item # "Downloading"
                   THEN Calling(removing, {o}) ELSE removing
  /\ InBound(removing')
  /\ UNCHANGED <<trackVars, refreshVars, processVars, due, deleting, faults, restarts>>

\* Mutant of RemoveResolves: what was removed is not tracked any more.
RemoveResolvesForgetting(o) ==
  /\ removing[o] > 0
  /\ removing' = [removing EXCEPT ![o] = @ - 1]
  /\ client'   = [client EXCEPT ![object[o].download] = "Absent"]
  /\ cache'    = [cache EXCEPT ![object[o].download] = None]
  /\ UNCHANGED <<object, history, grabs, completed, queue, refreshVars, processVars,
                 due, marking, deleting, faults, restarts>>

\* removeItem resolves: the item is gone and whatever item the object has by
\* now is marked as removed; or it is rejected.
RemoveResolves(o) ==
  /\ removing[o] > 0
  /\ removing' = [removing EXCEPT ![o] = @ - 1]
  /\ \/ /\ client' = [client EXCEPT ![object[o].download] = "Absent"]
        /\ object' = [object EXCEPT ![o].removed = TRUE]
        /\ UNCHANGED faults
     \/ Fault /\ UNCHANGED <<client, object>>
  /\ UNCHANGED <<cache, history, grabs, completed, queue, refreshVars, processVars,
                 due, marking, deleting, restarts>>

-----------------------------------------------------------------------------
(* ProcessMonitoredDownloads.                                              *)

\* Mutant of Importable: an import that was begun is begun again.
ImportableTwice(x) ==
  CompletedHandling /\ x.state \in {"ImportPending", "Imported"}

\* The branch of execute() that imports.
Importable(x) == CompletedHandling /\ x.state = "ImportPending"

\* The branch of execute() that fails: processFailed.
Failing(os) == {o \in os : object[o].state = "DownloadFailedPending"
                           /\ Grabbed(object[o].download)}

AfterFailing(os) ==
  [o \in Obj |-> IF o \in Failing(os)
                   THEN [object[o] EXCEPT !.state = "DownloadFailed"] ELSE object[o]]

\* Mutant of Failed: the failure is not written.
FailedUnwritten(os) == history

\* DownloadFailedEvent writes the history of the download.
Failed(os) ==
  [d \in Download |-> IF \E o \in Failing(os) : object[o].download = d
                        THEN "Failed" ELSE history[d]]

\* Mutant of Finished: only what is still trackable is removed.
FinishedTrackable(obj) ==
  {o \in Cached : obj[o].isTrackable /\ obj[o].state = "Imported" /\ Removable(obj[o])}

\* removeCompletedDownloads: DownloadCanBeRemovedEvent for each of these.
Finished(obj) == {o \in Cached : obj[o].state = "Imported" /\ Removable(obj[o])}

\* execute() goes on with the list os up to its next await. It handles some
\* of the objects that need none (those the list holds before the next
\* import), then awaits an import, or ends.
Advance(p, os) ==
  \E handled \in SUBSET {o \in os : ~Importable(object[o])} :
    /\ object'  = AfterFailing(handled)
    /\ history' = Failed(handled)
    /\ \/ \E o \in os \ handled :
            /\ Importable(object[o])
            /\ importing' = [importing EXCEPT ![p] = o]
            /\ todo'      = [todo EXCEPT ![p] = os \ (handled \cup {o})]
            /\ ppc'       = [ppc EXCEPT ![p] = "importing"]
            /\ removing'  = Calling(removing, {q \in Failing(handled) : Removable(object[q])})
            /\ UNCHANGED queue
       \/ /\ handled = os
          /\ importing' = [importing EXCEPT ![p] = None]
          /\ todo'      = [todo EXCEPT ![p] = {}]
          /\ ppc'       = [ppc EXCEPT ![p] = "idle"]
          /\ removing'  = Calling(removing, {q \in Failing(handled) : Removable(object[q])}
                                              \cup Finished(object'))
          /\ queue'     = ShownOfCache(cache, object')
    /\ InBound(removing')
    /\ UNCHANGED <<cache, grabs, completed, client, refreshVars, marking, deleting,
                   faults, restarts>>

Process(p) ==
  /\ due /\ ppc[p] = "idle"
  /\ due' = FALSE
  /\ Advance(p, {o \in Cached : object[o].isTrackable})

ProcessNext(p) ==
  /\ ppc[p] = "resumed"
  /\ Advance(p, todo[p])
  /\ UNCHANGED due

\* The import of o settles with its object in the given state, and with a
\* status message if warned.
Settles(p, o, state, warned) ==
  /\ object'    = [object EXCEPT ![o].state = state, ![o].warned = @ \/ warned]
  /\ importing' = [importing EXCEPT ![p] = None]
  /\ ppc'       = [ppc EXCEPT ![p] = "resumed"]
  /\ UNCHANGED <<cache, grabs, client, queue, refreshVars, todo, due, removing,
                 deleting, restarts>>

\* Every book is there: DownloadCompletedEvent writes the history and makes
\* the hub call markItemAsImported.
ImportSucceeds(p) ==
  LET o == importing[p]
      d == object[o].download
  IN  /\ ppc[p] = "importing"
      /\ Settles(p, o, "Imported", FALSE)
      /\ history'   = [history EXCEPT ![d] = "Imported"]
      /\ completed' = [completed EXCEPT ![d] = @ + 1]
      /\ marking'   = Calling(marking, {o})
      /\ InBound(marking')
      /\ UNCHANGED faults

\* Some file was rejected: BookImportIncompleteEvent.
ImportIncomplete(p) ==
  LET o == importing[p]
  IN  /\ ppc[p] = "importing"
      /\ Settles(p, o, "ImportFailed", TRUE)
      /\ history' = [history EXCEPT ![object[o].download] = "Incomplete"]
      /\ UNCHANGED <<completed, marking, faults>>

\* No import item or no valid path: the state stays. Nothing to import, or
\* fewer books than expected: ImportPending again.
ImportFindsNothing(p) ==
  LET o == importing[p]
  IN  /\ ppc[p] = "importing"
      /\ \E state \in {object[o].state, "ImportPending"}, warned \in BOOLEAN :
           Settles(p, o, state, warned)
      /\ Fault
      /\ UNCHANGED <<history, completed, marking>>

\* processPath throws: execute() catches, the state is left as it is.
ImportFails(p) ==
  /\ ImportThrows /\ ppc[p] = "importing"
  /\ Settles(p, importing[p], "Importing", FALSE)
  /\ UNCHANGED <<history, completed, marking, faults>>

-----------------------------------------------------------------------------
(* Queue deletions.                                                        *)

\* The rest of removeTracked, and stopTracking. Without any option the
\* download is ignored, which needs a known author. A blocklisted download
\* fails if it was grabbed; the event names whatever object the cache holds.
FinishDelete(o, options) ==
  LET d      == object[o].download
      failed == options.blocklist /\ Grabbed(d)
      known  == failed /\ cache[d] # None
  IN  /\ \/ known /\ history' = [history EXCEPT ![d] = "Failed"]
         \/ options = Ignoring /\ history' = [history EXCEPT ![d] = "Ignored"]
         \/ ~known /\ UNCHANGED history
      /\ removing' = IF known /\ Removable(object'[cache[d]])
                       THEN Calling(removing, {cache[d]}) ELSE removing
      /\ InBound(removing')
      /\ StopTracking(d)
      /\ UNCHANGED <<grabs, completed, refreshVars, processVars, due, marking, restarts>>

Delete(u, d, options) ==
  /\ deleting[u] = None
  /\ d \in queue /\ cache[d] # None
  /\ \/ /\ options.remove \/ options.category
        /\ deleting' = [deleting EXCEPT ![u] = [object |-> cache[d], options |-> options]]
        /\ UNCHANGED <<trackVars, refreshVars, processVars, due, hubVars, faults, restarts>>
     \/ /\ ~(options.remove \/ options.category)
        /\ deleting' = [deleting EXCEPT ![u] = Spent]
        /\ UNCHANGED <<object, client, faults>>
        /\ FinishDelete(cache[d], options)

DeleteResolves(u) ==
  /\ deleting[u] \notin {None, Spent}
  /\ deleting' = [deleting EXCEPT ![u] = Spent]
  /\ \/ LET o == deleting[u].object
        IN  /\ client' = IF deleting[u].options.remove
                           THEN [client EXCEPT ![object[o].download] = "Absent"]
                           ELSE client
            /\ UNCHANGED <<object, faults>>
            /\ FinishDelete(o, deleting[u].options)
     \/ Fault /\ UNCHANGED <<trackVars, refreshVars, processVars, due, hubVars, restarts>>

-----------------------------------------------------------------------------
\* The process dies and starts again: the cache is empty, history stays.
Restart ==
  /\ restarts < MaxRestarts
  /\ restarts'  = restarts + 1
  /\ cache'     = [d \in Download |-> None]
  /\ queue'     = {}
  /\ rpc'       = [r \in Refresher |-> "idle"]
  /\ snapshot'  = [r \in Refresher |-> Nothing]
  /\ found'     = [r \in Refresher |-> {}]
  /\ checking'  = [r \in Refresher |-> None]
  /\ ppc'       = [p \in Processor |-> "idle"]
  /\ todo'      = [p \in Processor |-> {}]
  /\ importing' = [p \in Processor |-> None]
  /\ due'       = FALSE
  /\ marking'   = [o \in Obj |-> 0]
  /\ removing'  = [o \in Obj |-> 0]
  /\ deleting'  = [u \in User |-> IF deleting[u] = Spent THEN Spent ELSE None]
  /\ UNCHANGED <<object, history, grabs, completed, client, faults>>

\* The client has answered every call of the hub about d.
Answered(d) ==
  \A o \in Obj : object[o].download = d => marking[o] = 0 /\ removing[o] = 0

\* The client works on requests in order: those about d before a new grab.
ClientStep ==
  /\ \E d \in Download : (Grab(d) /\ Answered(d)) \/ Progress(d)
  /\ UNCHANGED <<refreshVars, processVars, due, hubVars, deleting, faults, restarts>>

\* trackDownload takes an object nobody refers to when it makes a new one.
Spare(d) == IF Keeps(d) THEN {cache[d]}
            ELSE IF Unreferenced = {} THEN {}
            ELSE {CHOOSE o \in Unreferenced : TRUE}

RefreshStep(r) ==
  \/ Refresh(r) \/ GetItems(r) \/ CheckResolves(r) \/ EndRefresh(r)
  \/ \E d \in Download : \E spare \in Spare(d) : ProcessClientItem(r, d, spare)

ProcessStep(p) ==
  \/ Process(p) \/ ProcessNext(p)
  \/ ImportSucceeds(p) \/ ImportIncomplete(p) \/ ImportFindsNothing(p) \/ ImportFails(p)

HubStep == \E o \in Obj : MarkResolves(o) \/ RemoveResolves(o)

UserStep ==
  \E u \in User :
    \/ \E d \in Download, options \in Options : Delete(u, d, options)
    \/ DeleteResolves(u)

Next ==
  \/ ClientStep
  \/ \E r \in Refresher : RefreshStep(r)
  \/ \E p \in Processor : ProcessStep(p)
  \/ HubStep
  \/ UserStep
  \/ Restart

Spec == Init /\ [][Next]_vars

\* Commands are scheduled again and again and every promise settles. Neither
\* progress of the client nor user or restart is promised.
FairSpec ==
  /\ Spec
  /\ \A r \in Refresher : WF_vars(RefreshStep(r))
  /\ \A p \in Processor : WF_vars(ProcessStep(p))
  /\ WF_vars(HubStep)

-----------------------------------------------------------------------------
\* A download is completed (DownloadCompletedEvent: history, marking, removal)
\* at most once per grab, restarts and failing calls included: one that is
\* alone in the list of execute(), which is not read again after an import.
CompletedOncePerGrab ==
  \A d \in Download : completed[d] <= grabs[d] + (IF d \in Foreign \cap Categorised THEN 1 ELSE 0)

\* What the cache says of a settled download is what a restart would rebuild
\* from DownloadHistory.
CacheSurvivesRestart ==
  \A d \in Download :
    cache[d] # None /\ object[cache[d]].state
                         \in {"Imported", "ImportFailed", "DownloadFailed", "Ignored"}
      => StateFromHistory(history[d]) = object[cache[d]].state

\* The states one tracked object goes through.
LegalStep ==
  {<<"Downloading", "DownloadFailedPending">>, <<"Downloading", "ImportPending">>,
   <<"DownloadFailedPending", "DownloadFailed">>,
   <<"ImportPending", "Importing">>, <<"ImportPending", "ImportFailed">>,
   <<"ImportPending", "Imported">>}

\* No interleaving of refreshes, imports and client calls takes a tracked
\* object backwards or sideways: an encrypted or failed download is never
\* imported, an imported one never imported again.
LegalTransitions ==
  [][\A d \in Download :
       cache[d] # None /\ cache'[d] = cache[d]
         => LET was == object[cache[d]].state
                is  == object'[cache[d]].state
            IN  was = is \/ <<was, is>> \in LegalStep]_vars

\* A download whose import was incomplete says why, after a restart too.
IncompleteSaysWhy ==
  \A d \in Download :
    cache[d] # None /\ object[cache[d]].state = "ImportFailed" => object[cache[d]].warned

Life == INSTANCE DownloadLife WITH
          phase <- history, present <- {d \in Download : client[d] # "Absent"}

\* Download tracking implements the life of a download: every grab ends in
\* one way, and the client loses nothing that was not imported or failed.
ImplementsLife == Life!Spec

\* The hub removes from the client only what was imported or has failed.
NothingRemovedEarly ==
  [][\A d \in Download :
       client[d] # "Absent" /\ client'[d] = "Absent"
         => history[d] \in {"Imported", "Failed"}]_vars

\* A download the client no longer has is not tracked anew.
NotTrackedAfterTheFact ==
  [][\A d \in Download :
       client[d] = "Absent" /\ cache[d] = None => cache'[d] = None]_vars

\* What the user ignored stays ignored until it is grabbed again.
IgnoredStaysIgnored ==
  [][\A d \in Download :
       history[d] = "Ignored" => history'[d] \in {"Ignored", "Grabbed"}]_vars

\* A grabbed download the client reports as failed does not stay like that:
\* it is marked as failed, or the user deletes it.
FailureIsHandled ==
  \A d \in Download :
    []<>~(client[d] = "Failed" /\ history[d] = "Grabbed")

\* A grabbed download the client has completed is imported or found
\* incomplete, unless the user deletes or ignores it.
CompletionIsHandled ==
  \A d \in Download :
    []<>~(client[d] = "Completed" /\ history[d] = "Grabbed")

\* An imported download is removed from the client once that is possible,
\* however often the removal fails at first and whatever the user deletes,
\* unless the user ignored or blocklisted it while it was being imported.
ImportedIsRemoved ==
  \A d \in Download :
    []<>(client[d] = "Completed" /\ history[d] = "Imported"
           => cache[d] # None /\ object[cache[d]].state \in {"Ignored", "DownloadFailed"})
=============================================================================
