------------------------ MODULE DownloadTrackingProofs ------------------------
(***************************************************************************)
(* What the tasks of download tracking do to the objects they share, for   *)
(* any number of downloads, refreshes and queue deletions, calls that fail *)
(* and restarts at any point.                                              *)
(***************************************************************************)
EXTENDS DownloadTracking, TLAPS

USE DownloadAssumption, NoneAssumption, HandlingAssumption, SwitchAssumption

\* What a step may make of the object o: its download stays, its state goes on.
Goes(o) ==
  /\ object'[o].download = object[o].download
  /\ \/ object'[o].state = object[o].state
     \/ <<object[o].state, object'[o].state>> \in LegalStep

\* The cache maps a download to an object about it.
Objects ==
  /\ object \in [Obj -> Tracked]
  /\ cache  \in [Download -> Obj \cup {None}]
  /\ \A d \in Download : cache[d] # None => object[cache[d]].download = d

\* What the client listed.
Listing ==
  /\ client   \in [Download -> Item \cup {"Absent"}]
  /\ snapshot \in [Refresher -> [Download -> Item \cup {"Absent"}]]

\* The object whose import is awaited is still to be imported.
ImportInHand ==
  \A p \in Processor : ppc[p] = "importing" =>
    importing[p] \in Obj /\ object[importing[p]].state = "ImportPending"

ProcessTypes ==
  /\ ppc       \in [Processor -> {"idle", "importing", "resumed"}]
  /\ importing \in [Processor -> Obj \cup {None}]
  /\ todo      \in [Processor -> SUBSET Obj]

IInv == Objects /\ Listing /\ ProcessTypes /\ ImportInHand

-----------------------------------------------------------------------------
LEMMA SpareFacts ==
  ASSUME NEW d \in Download, NEW spare \in Spare(d), Objects
  PROVE  /\ spare \in Obj /\ Target(d, spare) = spare
         /\ Keeps(d) => spare = cache[d]
         /\ ~Keeps(d) => ~Referenced(spare)
<1>1. CASE Keeps(d)
  BY <1>1 DEF Spare, Keeps, Target, Objects
<1>2. CASE ~Keeps(d)
  <2>1. Unreferenced # {} /\ spare = CHOOSE o \in Unreferenced : TRUE
    BY <1>2 DEF Spare
  <2>2. spare \in Unreferenced
    BY <2>1
  <2>3. QED
    BY <1>2, <2>2 DEF Unreferenced, Target
<1>3. QED
  BY <1>1, <1>2

LEMMA TrackedAsType ==
  ASSUME NEW d \in Download, NEW item \in Item, Objects
  PROVE  TrackedAs(d, item) \in Tracked
<1>1. StateFromHistory(history[d]) \in State
  BY DEF StateFromHistory, State
<1>2. Keeps(d) => object[cache[d]] \in Tracked
  BY DEF Keeps, Objects
<1>3. QED
  BY <1>1, <1>2 DEF TrackedAs, Tracked, Keeps

LEMMA FailedCheckFacts ==
  ASSUME NEW x \in Tracked
  PROVE  FailedCheck(x) \in Tracked /\ FailedCheck(x).download = x.download
BY DEF FailedCheck, Tracked, State

LEMMA CompletedCheckFacts ==
  ASSUME NEW x \in Tracked
  PROVE  /\ CompletedCheck(x) \in Tracked
         /\ CompletedCheck(x).download = x.download
         /\ \/ CompletedCheck(x).state = x.state
            \/ x.state = "Downloading" /\ CompletedCheck(x).state = "ImportPending"
BY DEF CompletedCheck, Tracked, State

\* An object of the cache, or one whose import is awaited, is referred to.
LEMMA CachedIsReferenced ==
  ASSUME NEW d \in Download, cache[d] # None, Objects
  PROVE  cache[d] \in Obj /\ Referenced(cache[d])
BY DEF Objects, Referenced, Cached

\* The cache stays, and objects keep their download and their type.
LEMMA ObjectsKept ==
  ASSUME Objects, cache' = cache, object' \in [Obj -> Tracked],
         \A o \in Obj : object'[o].download = object[o].download
  PROVE  Objects'
BY DEF Objects

-----------------------------------------------------------------------------
LEMMA InitHolds == Init => IInv
<1> SUFFICES ASSUME Init PROVE IInv
  OBVIOUS
<1>1. (CHOOSE d \in Download : TRUE) \in Download
  OBVIOUS
<1>2. Objects
  BY <1>1 DEF Init, TrackInit, Tracked, Item, State, Objects
<1>3. client \in [Download -> Item \cup {"Absent"}]
  BY DEF Init, TrackInit, Item
<1>4. Listing
  BY <1>3 DEF Init, Nothing, Listing
<1>5. QED
  BY <1>2, <1>4 DEF Init, ProcessTypes, ImportInHand, IInv

\* A refresh processes an item: the object that stands for the download is
\* kept with its state, or it is a new one in the state the history gives it.
LEMMA ItemFacts ==
  ASSUME IInv, NEW r \in Refresher, NEW d \in Download, NEW spare \in Spare(d),
         ProcessClientItem(r, d, spare)
  PROVE  /\ spare \in Obj /\ cache' = [cache EXCEPT ![d] = spare]
         /\ \A e \in Download : e # d /\ cache[e] # None => cache[e] # spare
         /\ Keeps(d) => spare = cache[d]
         /\ ~Keeps(d) => ~Referenced(spare)
         /\ \E z \in Tracked :
              /\ object' = [object EXCEPT ![spare] = z] /\ z.download = d
              /\ Keeps(d) => z.state = object[spare].state
              /\ ~Keeps(d) => \/ z.state = StateFromHistory(history[d])
                              \/ /\ StateFromHistory(history[d]) = "Downloading"
                                 /\ z.state = "DownloadFailedPending" /\ Grabbed(d)
<1>o. Objects
  BY DEF IInv
<1> DEFINE x == TrackedAs(d, snapshot[r][d])
           y == IF x.state = "Downloading" THEN FailedCheck(x) ELSE x
<1>1. /\ spare \in Obj /\ Target(d, spare) = spare
      /\ Keeps(d) => spare = cache[d]
      /\ ~Keeps(d) => ~Referenced(spare)
  BY <1>o, SpareFacts
<1>2. snapshot[r][d] \in Item
  BY DEF ProcessClientItem, IInv, Listing
<1>3. x \in Tracked /\ x.download = d
  BY <1>2, <1>o, TrackedAsType DEF TrackedAs
<1>4. y \in Tracked /\ y.download = d
  BY <1>3, FailedCheckFacts
<1>5. object' = [object EXCEPT ![spare] = y] /\ cache' = [cache EXCEPT ![d] = spare]
  BY <1>1 DEF ProcessClientItem
<1>6. Keeps(d) => y.state = object[spare].state /\ object[spare].download = d
  BY <1>1, <1>o DEF Keeps, TrackedAs, Objects
<1>7. ~Keeps(d) => x.state = StateFromHistory(history[d])
  BY DEF TrackedAs
<1>8. y.state = x.state \/ (x.state = "Downloading" /\ y.state = "DownloadFailedPending" /\ Grabbed(d))
  BY <1>3 DEF FailedCheck, Tracked
<1>9. ASSUME NEW e \in Download, e # d, cache[e] # None, cache[e] = spare
      PROVE  FALSE
  <2>1. Referenced(spare) /\ object[spare].download = e
    BY <1>o, <1>9, CachedIsReferenced DEF Objects
  <2>2. QED
    BY <2>1, <1>1, <1>6, <1>9
<1>10. QED
  BY <1>1, <1>4, <1>5, <1>6, <1>7, <1>8, <1>9

\* A refresh: an object that stands for a download already is kept with its
\* state, or left to those that refer to it.
LEMMA RefreshObjects ==
  ASSUME IInv, NEW r \in Refresher, RefreshStep(r)
  PROVE  /\ Objects'
         /\ \A o \in Obj : Referenced(o) => Goes(o)
         /\ \A o \in Obj : Referenced(o) /\ object[o].state = "ImportPending"
              => object'[o].state = "ImportPending"
<1>o. Objects
  BY DEF IInv
<1>1. CASE Refresh(r) \/ GetItems(r)
  BY <1>1, <1>o, ObjectsKept DEF Refresh, GetItems, trackVars, Goes, Objects
<1>2. CASE CheckResolves(r)
  <2> DEFINE o == checking[r]
  <2>1. \A q \in Obj : object[q] \in Tracked
    BY <1>o DEF Objects
  <2>2. /\ object' \in [Obj -> Tracked]
        /\ \A q \in Obj :
             /\ object'[q].download = object[q].download
             /\ \/ object'[q].state = object[q].state
                \/ object[q].state = "Downloading" /\ object'[q].state = "ImportPending"
    <3>1. CASE object' = [object EXCEPT ![o] = CompletedCheck(object[o])]
      <4>1. \A q \in Obj : object'[q] = IF q = o THEN CompletedCheck(object[q]) ELSE object[q]
        BY <3>1, <1>o DEF Objects
      <4>2. object' = [q \in Obj |-> object'[q]]
        BY <3>1, <1>o DEF Objects
      <4>3. QED
        BY <4>1, <4>2, <2>1, CompletedCheckFacts
    <3>2. CASE UNCHANGED object
      BY <3>2, <1>o DEF Objects
    <3>3. CASE object' = [object EXCEPT ![o].warned = object[o].warned \/ object[o].state = "Downloading"]
      BY <3>3, <2>1, <1>o DEF Tracked, Objects
    <3>4. QED
      BY <1>2, <3>1, <3>2, <3>3 DEF CheckResolves
  <2>3. cache' = cache
    BY <1>2 DEF CheckResolves
  <2>4. QED
    BY <1>o, <2>2, <2>3, ObjectsKept DEF Goes, LegalStep
<1>3. CASE EndRefresh(r)
  <2>1. PICK ids : object' = Untracked(ids)
    BY <1>3 DEF EndRefresh
  <2>2. /\ object' \in [Obj -> Tracked]
        /\ \A o \in Obj : object'[o].state = object[o].state
                          /\ object'[o].download = object[o].download
    BY <2>1, <1>o DEF Untracked, Tracked, Objects
  <2>3. QED
    BY <1>3, <1>o, <2>2, ObjectsKept DEF EndRefresh, Goes
<1>4. ASSUME NEW d \in Download, NEW spare \in Spare(d), ProcessClientItem(r, d, spare)
      PROVE  /\ Objects'
             /\ \A o \in Obj : Referenced(o) => Goes(o)
             /\ \A o \in Obj : Referenced(o) /\ object[o].state = "ImportPending"
                  => object'[o].state = "ImportPending"
  <2>1. /\ spare \in Obj /\ cache' = [cache EXCEPT ![d] = spare]
        /\ \A e \in Download : e # d /\ cache[e] # None => cache[e] # spare
        /\ Keeps(d) => spare = cache[d]
        /\ ~Keeps(d) => ~Referenced(spare)
    BY <1>4, ItemFacts
  <2>2. PICK z \in Tracked :
          /\ object' = [object EXCEPT ![spare] = z] /\ z.download = d
          /\ Keeps(d) => z.state = object[spare].state
    BY <1>4, ItemFacts
  <2>3. Objects'
    BY <1>o, <2>1, <2>2 DEF Objects
  <2>4. Keeps(d) => object[spare].download = d
    BY <1>o, <2>1 DEF Keeps, Objects
  <2>5. ASSUME NEW o \in Obj, Referenced(o) PROVE Goes(o) /\ object'[o].state = object[o].state
    BY <2>5, <1>o, <2>1, <2>2, <2>4 DEF Goes, Objects
  <2>6. QED
    BY <2>3, <2>5
<1>5. QED
  BY <1>1, <1>2, <1>3, <1>4 DEF RefreshStep

\* Going on with a list: what has failed is marked, and an object that is
\* still to be imported is taken in hand.
LEMMA AdvanceFacts ==
  ASSUME IInv, NEW p \in Processor, NEW os \in SUBSET Obj, Advance(p, os)
  PROVE  /\ Objects' /\ \A o \in Obj : Goes(o)
         /\ ProcessTypes' /\ ImportInHand'
<1>1. PICK handled \in SUBSET {o \in os : ~Importable(object[o])} :
        /\ object' = AfterFailing(handled)
        /\ \/ \E o \in os \ handled :
                 /\ Importable(object[o])
                 /\ importing' = [importing EXCEPT ![p] = o]
                 /\ todo'      = [todo EXCEPT ![p] = os \ (handled \cup {o})]
                 /\ ppc'       = [ppc EXCEPT ![p] = "importing"]
           \/ /\ importing' = [importing EXCEPT ![p] = None]
              /\ todo'      = [todo EXCEPT ![p] = {}]
              /\ ppc'       = [ppc EXCEPT ![p] = "idle"]
        /\ cache' = cache
  BY DEF Advance
<1>2. \A o \in Obj :
        /\ object'[o] \in Tracked /\ object'[o].download = object[o].download
        /\ \/ object'[o].state = object[o].state
           \/ object[o].state = "DownloadFailedPending" /\ object'[o].state = "DownloadFailed"
  <2>1. \A o \in Obj : object[o] \in Tracked
    BY DEF IInv, Objects
  <2>2. QED
    BY <1>1, <2>1 DEF AfterFailing, Failing, Tracked, State
<1>3. object' \in [Obj -> Tracked]
  BY <1>1, <1>2 DEF AfterFailing
<1>4. Objects' /\ \A o \in Obj : Goes(o)
  BY <1>1, <1>2, <1>3, ObjectsKept DEF IInv, Goes, LegalStep
<1>5. ProcessTypes'
  BY <1>1 DEF IInv, ProcessTypes
<1>6. ImportInHand'
  <2> SUFFICES ASSUME NEW q \in Processor, ppc'[q] = "importing"
               PROVE  importing'[q] \in Obj /\ object'[importing'[q]].state = "ImportPending"
    BY DEF ImportInHand
  <2>1. CASE q = p
    BY <1>1, <1>2, <2>1 DEF Importable, IInv, ProcessTypes
  <2>2. CASE q # p
    BY <1>1, <1>2, <2>2 DEF IInv, ProcessTypes, ImportInHand
  <2>3. QED
    BY <2>1, <2>2
<1>7. QED
  BY <1>4, <1>5, <1>6

\* An import settles: its object goes on, and with one processing command
\* nobody else had it in hand.
LEMMA SettlesFacts ==
  ASSUME IInv, \A p, q \in Processor : p = q,
         NEW p \in Processor, ppc[p] = "importing",
         NEW state \in {"Imported", "ImportFailed", "ImportPending", "Importing"},
         NEW warned \in BOOLEAN, Settles(p, importing[p], state, warned)
  PROVE  /\ Objects' /\ \A o \in Obj : Goes(o)
         /\ ProcessTypes' /\ ImportInHand'
<1>1. PICK o \in Obj : o = importing[p] /\ object[o].state = "ImportPending"
  BY DEF IInv, ImportInHand
<1>2. /\ object'    = [object EXCEPT ![o].state = state, ![o].warned = @ \/ warned]
      /\ importing' = [importing EXCEPT ![p] = None]
      /\ ppc'       = [ppc EXCEPT ![p] = "resumed"]
      /\ cache' = cache /\ todo' = todo
  BY <1>1 DEF Settles
<1>3. object[o] \in Tracked /\ object \in [Obj -> Tracked]
  BY DEF IInv, Objects
<1>4. /\ object' \in [Obj -> Tracked]
      /\ object'[o].download = object[o].download /\ object'[o].state = state
      /\ \A q \in Obj : q # o => object'[q] = object[q]
  BY <1>2, <1>3 DEF Tracked, State
<1>5. Objects' /\ \A q \in Obj : Goes(q)
  BY <1>1, <1>2, <1>4, ObjectsKept DEF IInv, Goes, LegalStep
<1>6. ProcessTypes' /\ ImportInHand'
  BY <1>2 DEF IInv, ProcessTypes, ImportInHand
<1>7. QED
  BY <1>5, <1>6

LEMMA ProcessFacts ==
  ASSUME IInv, \A p, q \in Processor : p = q, NEW p \in Processor, ProcessStep(p)
  PROVE  IInv' /\ \A o \in Obj : Goes(o)
<1>1. CASE Process(p) \/ ProcessNext(p)
  <2>1. PICK os \in SUBSET Obj : Advance(p, os)
    BY <1>1 DEF Process, ProcessNext, Cached, IInv, ProcessTypes
  <2>2. UNCHANGED <<client, snapshot>>
    BY <2>1 DEF Advance, refreshVars
  <2>3. QED
    BY <2>1, <2>2, AdvanceFacts DEF IInv, Listing
<1>2. CASE ImportSucceeds(p) \/ ImportIncomplete(p) \/ ImportFindsNothing(p) \/ ImportFails(p)
  <2>1. ppc[p] = "importing"
    BY <1>2 DEF ImportSucceeds, ImportIncomplete, ImportFindsNothing, ImportFails
  <2>2. importing[p] \in Obj /\ object[importing[p]].state = "ImportPending"
    BY <2>1 DEF IInv, ImportInHand
  <2>3. \E state \in {"Imported", "ImportFailed", "ImportPending", "Importing"}, warned \in BOOLEAN :
          Settles(p, importing[p], state, warned)
    BY <1>2, <2>2 DEF ImportSucceeds, ImportIncomplete, ImportFindsNothing, ImportFails
  <2>4. UNCHANGED <<client, snapshot>>
    BY <2>3 DEF Settles, refreshVars
  <2>5. QED
    BY <2>1, <2>3, <2>4, SettlesFacts DEF IInv, Listing
<1>3. QED
  BY <1>1, <1>2 DEF ProcessStep

\* The hub, the client and the user leave the states of objects alone.
LEMMA OthersFacts ==
  ASSUME IInv, ClientStep \/ HubStep \/ UserStep
  PROVE  IInv' /\ \A o \in Obj : Goes(o)
<1>1. /\ object' \in [Obj -> Tracked]
      /\ \A o \in Obj : object'[o].state = object[o].state
                        /\ object'[o].download = object[o].download
  <2>1. \A o \in Obj : object[o] \in Tracked
    BY DEF IInv, Objects
  <2>2. \/ UNCHANGED object
        \/ \E o \in Obj : object' = [object EXCEPT ![o].removed = TRUE]
    <3>1. CASE ClientStep
      BY <3>1 DEF ClientStep, Grab, Progress
    <3>2. CASE HubStep
      BY <3>2 DEF HubStep, MarkResolves, RemoveResolves, trackVars
    <3>3. CASE UserStep
      BY <3>3 DEF UserStep, Delete, DeleteResolves, trackVars
    <3>4. QED
      BY <3>1, <3>2, <3>3
  <2>3. CASE UNCHANGED object
    BY <2>3 DEF IInv, Objects
  <2>4. CASE \E o \in Obj : object' = [object EXCEPT ![o].removed = TRUE]
    <3>1. PICK o \in Obj : object' = [object EXCEPT ![o].removed = TRUE]
      BY <2>4
    <3>2. [object[o] EXCEPT !.removed = TRUE] \in Tracked
      BY <2>1 DEF Tracked
    <3>3. QED
      BY <2>1, <3>1, <3>2 DEF IInv, Objects, Tracked
  <2>5. QED
    BY <2>2, <2>3, <2>4
<1>2. cache' = cache \/ \E d \in Download : cache' = [cache EXCEPT ![d] = None]
  <2>1. CASE ClientStep
    BY <2>1 DEF ClientStep, Grab, Progress
  <2>2. CASE HubStep
    BY <2>2 DEF HubStep, MarkResolves, RemoveResolves, trackVars
  <2>3. ASSUME NEW u \in User, NEW d \in Download, NEW options \in Options, Delete(u, d, options)
        PROVE  cache' = cache \/ \E e : cache' = [cache EXCEPT ![e] = None]
    BY <2>3 DEF Delete, FinishDelete, StopTracking, trackVars
  <2>4. ASSUME NEW u \in User, DeleteResolves(u)
        PROVE  cache' = cache \/ \E e : cache' = [cache EXCEPT ![e] = None]
    BY <2>4 DEF DeleteResolves, FinishDelete, StopTracking, trackVars
  <2>5. cache' = cache \/ \E e : cache' = [cache EXCEPT ![e] = None]
    BY <2>1, <2>2, <2>3, <2>4 DEF UserStep
  <2>6. \A e : e \notin Download => [cache EXCEPT ![e] = None] = cache
    BY DEF IInv, Objects
  <2>7. QED
    BY <2>5, <2>6
<1>3. cache' \in [Download -> Obj \cup {None}] /\ \A d \in Download : cache'[d] \in {cache[d], None}
  BY <1>2 DEF IInv, Objects
<1>4. Objects'
  BY <1>1, <1>3 DEF IInv, Objects
<1>5. UNCHANGED <<snapshot, ppc, importing, todo>>
  BY DEF ClientStep, HubStep, UserStep, MarkResolves, RemoveResolves, Delete,
     DeleteResolves, FinishDelete, refreshVars, processVars
<1>6. client' \in [Download -> Item \cup {"Absent"}]
  BY DEF ClientStep, HubStep, UserStep, Grab, Progress, MarkResolves, RemoveResolves, Delete,
     DeleteResolves, FinishDelete, trackVars, IInv, Listing, Item
<1>7. IInv'
  BY <1>1, <1>4, <1>5, <1>6 DEF IInv, Listing, ProcessTypes, ImportInHand
<1>8. QED
  BY <1>1, <1>7 DEF Goes

LEMMA RefreshFacts ==
  ASSUME IInv, NEW r \in Refresher, RefreshStep(r)
  PROVE  IInv' /\ \A o \in Obj : Referenced(o) => Goes(o)
<1>1. UNCHANGED <<client, ppc, importing, todo>>
  BY DEF RefreshStep, Refresh, GetItems, CheckResolves, EndRefresh, ProcessClientItem,
     trackVars, processVars
<1>2. snapshot' \in [Refresher -> [Download -> Item \cup {"Absent"}]]
  BY DEF RefreshStep, Refresh, GetItems, CheckResolves, EndRefresh, ProcessClientItem,
     Nothing, Item, IInv, Listing
<1>3. ImportInHand'
  BY <1>1, RefreshObjects DEF IInv, ImportInHand, Referenced
<1>4. QED
  BY <1>1, <1>2, <1>3, RefreshObjects DEF IInv, Listing, ProcessTypes

LEMMA RestartFacts ==
  ASSUME IInv, Restart
  PROVE  IInv' /\ \A o \in Obj : Goes(o)
BY DEF Restart, IInv, Objects, Listing, ProcessTypes, ImportInHand, Nothing, Item, Goes

LEMMA StepFacts ==
  ASSUME IInv, \A p, q \in Processor : p = q, [Next]_vars
  PROVE  IInv' /\ \A o \in Obj : Referenced(o) => Goes(o)
<1>1. CASE UNCHANGED vars
  BY <1>1 DEF vars, trackVars, refreshVars, processVars, IInv, Objects, Listing,
     ProcessTypes, ImportInHand, Goes
<1>2. CASE Next
  BY <1>2, RefreshFacts, ProcessFacts, OthersFacts, RestartFacts DEF Next
<1>3. QED
  BY <1>1, <1>2

-----------------------------------------------------------------------------
\* With one processing command at a time, and however many refreshes, calls of
\* the hub, deletions and restarts come between its steps, the state of a
\* tracked download only goes forward: trackDownload keeps the object or
\* makes a new one, check() looks at the state again after its await.
THEOREM StatesGoForward ==
  ASSUME \A p, q \in Processor : p = q
  PROVE  Spec => LegalTransitions
<1>1. IInv /\ [Next]_vars => IInv'
  BY StepFacts
<1>2. IInv /\ [Next]_vars
        => [\A d \in Download :
              cache[d] # None /\ cache'[d] = cache[d]
                => LET was == object[cache[d]].state
                       is  == object'[cache[d]].state
                   IN  was = is \/ <<was, is>> \in LegalStep]_vars
  BY StepFacts, CachedIsReferenced DEF IInv, Goes
<1>3. QED
  BY <1>1, <1>2, InitHolds, PTL DEF Spec, LegalTransitions

-----------------------------------------------------------------------------
\* A task or a call of the hub has o in hand.
Busy(o) ==
  \/ marking[o] > 0 \/ removing[o] > 0
  \/ \E p \in Processor : o \in todo[p] \/ importing[p] = o

Counts == marking \in [Obj -> Nat] /\ removing \in [Obj -> Nat]

\* What somebody has in hand is about a download that is tracked.
BusyIsTracked == \A o \in Obj : Busy(o) => cache[object[o].download] # None

\* What a refresh has still to process, and has left the client, is tracked.
LeftIsTracked ==
  \A r \in Refresher, d \in Download :
    snapshot[r][d] # "Absent" /\ client[d] = "Absent" => cache[d] # None

TInv == Counts /\ BusyIsTracked /\ LeftIsTracked

LEMMA CallingFacts ==
  ASSUME Counts, NEW calls \in [Obj -> Nat], NEW os
  PROVE  /\ Calling(calls, os) \in [Obj -> Nat]
         /\ \A o \in Obj : Calling(calls, os)[o] > 0 => calls[o] > 0 \/ o \in os
BY DEF Calling

\* Without deletions nothing leaves the cache before the process dies, and
\* only tracked objects are taken in hand.
LEMMA TrackedStays ==
  ASSUME IInv, TInv, User = {}, ~Restart, Next
  PROVE  /\ Counts'
         /\ \A d \in Download : cache[d] # None => cache'[d] # None
         /\ \A o \in Obj : Busy(o)' => Busy(o) \/ o \in Cached
<1>t. Objects /\ ProcessTypes /\ Counts
  BY DEF IInv, TInv
<1>1. CASE ClientStep
  BY <1>1, <1>t DEF ClientStep, Grab, Progress, processVars, hubVars, Busy, Counts
<1>2. ASSUME NEW r \in Refresher, RefreshStep(r)
      PROVE  /\ Counts'
             /\ \A d \in Download : cache[d] # None => cache'[d] # None
             /\ \A o \in Obj : Busy(o)' => Busy(o)
  <2>1. UNCHANGED <<processVars, hubVars>>
    BY <1>2 DEF RefreshStep, Refresh, GetItems, CheckResolves, EndRefresh, ProcessClientItem
  <2>2. cache' = cache \/ \E d \in Download : \E spare \in Spare(d) : cache' = [cache EXCEPT ![d] = spare]
    BY <1>2, <1>t, SpareFacts DEF RefreshStep, Refresh, GetItems, CheckResolves, EndRefresh,
       ProcessClientItem, trackVars
  <2>3. \A d \in Download : cache[d] # None => cache'[d] # None
    BY <2>2, <1>t, SpareFacts DEF Objects
  <2>4. QED
    BY <2>1, <2>3, <1>t DEF processVars, hubVars, Busy, Counts
<1>3. ASSUME NEW o \in Obj, MarkResolves(o) \/ RemoveResolves(o)
      PROVE  /\ Counts' /\ cache' = cache
             /\ \A q \in Obj : Busy(q)' => Busy(q)
  <2>1. CASE MarkResolves(o)
    <3>1. /\ marking' = [marking EXCEPT ![o] = @ - 1] /\ marking[o] > 0
          /\ removing' = removing \/ removing' = Calling(removing, {o})
          /\ UNCHANGED <<cache, todo, importing>>
      BY <2>1 DEF MarkResolves, trackVars, processVars
    <3>2. /\ removing' \in [Obj -> Nat]
          /\ \A q \in Obj : removing'[q] > 0 => removing[q] > 0 \/ q = o
      BY <3>1, <1>t, CallingFacts DEF Counts
    <3>3. QED
      BY <3>1, <3>2, <1>t DEF Busy, Counts
  <2>2. CASE RemoveResolves(o)
    BY <2>2, <1>t DEF RemoveResolves, processVars, Busy, Counts
  <2>3. QED
    BY <1>3, <2>1, <2>2
<1>4. ASSUME NEW p \in Processor, ProcessStep(p)
      PROVE  /\ Counts' /\ cache' = cache
             /\ \A q \in Obj : Busy(q)' => Busy(q) \/ q \in Cached
  <2>1. ASSUME NEW os \in SUBSET Obj, \A o \in os : Busy(o) \/ o \in Cached, Advance(p, os)
        PROVE  /\ Counts' /\ cache' = cache
               /\ \A q \in Obj : Busy(q)' => Busy(q) \/ q \in Cached
    <3>1. /\ cache' = cache /\ marking' = marking
          /\ \E S \in SUBSET (os \cup Cached) : removing' = Calling(removing, S)
          /\ \E S \in SUBSET os : todo' = [todo EXCEPT ![p] = S]
          /\ \E o \in os \cup {None} : importing' = [importing EXCEPT ![p] = o]
      BY <2>1 DEF Advance, Failing, Finished
    <3>2. /\ removing' \in [Obj -> Nat]
          /\ \A q \in Obj : removing'[q] > 0 => removing[q] > 0 \/ q \in os \cup Cached
      BY <3>1, <1>t, CallingFacts DEF Counts
    <3>3. \A q \in Obj : (\E v \in Processor : q \in todo'[v] \/ importing'[v] = q)
                           => q \in os \/ \E v \in Processor : q \in todo[v] \/ importing[v] = q
      BY <3>1, <1>t DEF ProcessTypes
    <3>4. QED
      BY <2>1, <3>1, <3>2, <3>3, <1>t DEF Busy, Counts
  <2>2. CASE Process(p)
    <3>1. PICK os \in SUBSET Cached : Advance(p, os)
      BY <2>2 DEF Process
    <3>2. QED
      BY <2>1, <3>1 DEF Cached
  <2>3. CASE ProcessNext(p)
    <3>1. todo[p] \in SUBSET Obj /\ \A o \in todo[p] : Busy(o)
      BY <1>t DEF ProcessTypes, Busy
    <3>2. QED
      BY <2>1, <2>3, <3>1 DEF ProcessNext
  <2>4. CASE ImportSucceeds(p) \/ ImportIncomplete(p) \/ ImportFindsNothing(p) \/ ImportFails(p)
    <3>1. /\ importing' = [importing EXCEPT ![p] = None]
          /\ UNCHANGED <<cache, todo, removing>>
          /\ marking' = marking \/ marking' = Calling(marking, {importing[p]})
      BY <2>4 DEF ImportSucceeds, ImportIncomplete, ImportFindsNothing, ImportFails, Settles
    <3>2. /\ marking' \in [Obj -> Nat]
          /\ \A q \in Obj : marking'[q] > 0 => marking[q] > 0 \/ q = importing[p]
      BY <3>1, <1>t, CallingFacts DEF Counts
    <3>3. \A q \in Obj : (\E v \in Processor : q \in todo'[v] \/ importing'[v] = q)
                           => \E v \in Processor : q \in todo[v] \/ importing[v] = q
      BY <3>1, <1>t DEF ProcessTypes
    <3>4. QED
      BY <3>1, <3>2, <3>3, <1>t DEF Busy, Counts
  <2>5. QED
    BY <1>4, <2>2, <2>3, <2>4 DEF ProcessStep
<1>5. QED
  BY <1>1, <1>2, <1>3, <1>4 DEF Next, HubStep, UserStep

\* What a step may not do: track a download that has left the client.
NoneComesBack ==
  \A d \in Download : client[d] = "Absent" /\ cache[d] = None => cache'[d] = None

LEMMA TrackedStep ==
  ASSUME IInv, TInv, User = {}, \A p, q \in Processor : p = q, [Next]_vars
  PROVE  TInv' /\ NoneComesBack
<1>t. Objects /\ Listing /\ ProcessTypes /\ Counts /\ BusyIsTracked /\ LeftIsTracked
  BY DEF IInv, TInv
<1>1. CASE UNCHANGED vars
  BY <1>1, <1>t DEF vars, trackVars, refreshVars, processVars, hubVars, TInv, Counts,
     BusyIsTracked, LeftIsTracked, Busy,
     NoneComesBack
<1>2. CASE Restart
  BY <1>2, <1>t DEF Restart, Nothing, TInv, Counts, BusyIsTracked, LeftIsTracked, Busy,
     ProcessTypes, NoneComesBack
<1>3. CASE Next /\ ~Restart
  <2>1. /\ Counts'
        /\ \A d \in Download : cache[d] # None => cache'[d] # None
        /\ \A o \in Obj : Busy(o)' => Busy(o) \/ o \in Cached
    BY <1>3, TrackedStays
  <2>2. \A o \in Obj : Busy(o) \/ o \in Cached =>
          /\ object[o].download \in Download /\ cache[object[o].download] # None
          /\ object'[o].download = object[o].download
    <3> SUFFICES ASSUME NEW o \in Obj, Busy(o) \/ o \in Cached
                 PROVE  /\ object[o].download \in Download
                        /\ cache[object[o].download] # None
                        /\ object'[o].download = object[o].download
      OBVIOUS
    <3>1. object[o].download \in Download
      BY <1>t DEF Objects, Tracked
    <3>2. o \in Cached => cache[object[o].download] = o
      BY <1>t DEF Objects, Cached
    <3>3. cache[object[o].download] # None
      BY <1>t, <3>2 DEF BusyIsTracked
    <3>4. Referenced(o)
      BY <1>t DEF Referenced, Busy, Counts
    <3>5. QED
      BY <3>1, <3>3, <3>4, StepFacts DEF Goes
  <2>3. BusyIsTracked'
    BY <2>1, <2>2 DEF BusyIsTracked
  <2>4. LeftIsTracked' /\ NoneComesBack
    <3>1. CASE ClientStep
      <4>1. /\ UNCHANGED <<cache, snapshot>>
            /\ \E d \in Download, i \in Item : client' = [client EXCEPT ![d] = i]
        BY <3>1 DEF ClientStep, Grab, Progress, refreshVars, Item
      <4>2. QED
        BY <4>1, <1>t DEF LeftIsTracked, NoneComesBack, Listing, Item
    <3>2. ASSUME NEW r \in Refresher, RefreshStep(r) PROVE LeftIsTracked' /\ NoneComesBack
      <4>1. CASE Refresh(r) \/ GetItems(r) \/ CheckResolves(r) \/ EndRefresh(r)
        <5>1. UNCHANGED <<cache, client>>
          BY <4>1 DEF Refresh, GetItems, CheckResolves, EndRefresh, trackVars
        <5>2. \A q \in Refresher : snapshot'[q] \in {snapshot[q], client, Nothing}
          BY <4>1, <1>t DEF Refresh, GetItems, CheckResolves, EndRefresh, Listing
        <5>3. QED
          BY <5>1, <5>2, <1>t DEF LeftIsTracked, NoneComesBack, Nothing
      <4>2. ASSUME NEW d \in Download, NEW spare \in Spare(d), ProcessClientItem(r, d, spare)
            PROVE  LeftIsTracked' /\ NoneComesBack
        <5>1. /\ snapshot[r][d] # "Absent" /\ client' = client
              /\ snapshot' = [snapshot EXCEPT ![r][d] = "Absent"]
              /\ cache' = [cache EXCEPT ![d] = spare]
          BY <4>2, <1>t, SpareFacts DEF ProcessClientItem
        <5>2. \A q \in Refresher, e \in Download : snapshot'[q][e] \in {snapshot[q][e], "Absent"}
          BY <5>1, <1>t DEF Listing
        <5>3. QED
          BY <2>1, <5>1, <5>2, <1>t DEF LeftIsTracked, NoneComesBack, Objects
      <4>3. QED
        BY <3>2, <4>1, <4>2 DEF RefreshStep
    <3>3. ASSUME NEW p \in Processor, ProcessStep(p) PROVE LeftIsTracked' /\ NoneComesBack
      <4>1. UNCHANGED <<cache, client, snapshot>>
        BY <3>3 DEF ProcessStep, Process, ProcessNext, Advance, ImportSucceeds, ImportIncomplete,
           ImportFindsNothing, ImportFails, Settles, refreshVars
      <4>2. QED
        BY <4>1, <1>t DEF LeftIsTracked, NoneComesBack
    <3>4. ASSUME NEW o \in Obj, MarkResolves(o) \/ RemoveResolves(o) PROVE LeftIsTracked' /\ NoneComesBack
      <4>1. /\ UNCHANGED <<cache, snapshot>>
            /\ \/ client' = client
               \/ removing[o] > 0 /\ client' = [client EXCEPT ![object[o].download] = "Absent"]
        BY <3>4 DEF MarkResolves, RemoveResolves, trackVars, refreshVars
      <4>2. removing[o] > 0 => cache[object[o].download] # None
        BY <2>2 DEF Busy
      <4>3. QED
        BY <4>1, <4>2, <1>t DEF LeftIsTracked, NoneComesBack, Listing
    <3>5. QED
      BY <1>3, <3>1, <3>2, <3>3, <3>4 DEF Next, HubStep, UserStep
  <2>5. QED
    BY <2>1, <2>3, <2>4 DEF TInv
<1>4. QED
  BY <1>1, <1>2, <1>3

-----------------------------------------------------------------------------
\* Without deletions by the user, a download that left the client after it was
\* tracked is never tracked anew, although refreshes work off lists made before:
\* the hub removes only what the cache holds, and nothing but a restart, which
\* forgets the lists too, takes it from there.
THEOREM GoneStaysGone ==
  ASSUME \A p, q \in Processor : p = q, User = {}
  PROVE  Spec => NotTrackedAfterTheFact
<1>1. IInv /\ [Next]_vars => IInv'
  BY StepFacts
<1>2. Init => TInv
  BY DEF Init, Nothing, TInv, Counts, BusyIsTracked, LeftIsTracked, Busy
<1>3. IInv /\ TInv /\ [Next]_vars => TInv'
  BY TrackedStep
<1>4. IInv /\ TInv /\ [Next]_vars
        => [\A d \in Download :
              client[d] = "Absent" /\ cache[d] = None => cache'[d] = None]_vars
  BY TrackedStep DEF NoneComesBack
<1>5. QED
  BY <1>1, <1>2, <1>3, <1>4, InitHolds, PTL DEF Spec, NotTrackedAfterTheFact

-----------------------------------------------------------------------------
\* One processing command at a time, nothing deleted by the user, and either
\* one refresh at a time or a single download.
OneAtATime ==
  /\ \A p, q \in Processor : p = q
  /\ User = {}
  /\ (\A r, q \in Refresher : r = q) \/ (\A d, e \in Download : d = e)

\* What the cache says of a download.
Mode(d) == IF cache[d] = None THEN "None" ELSE object[cache[d]].state

\* Downloads that were grabbed, or that somebody else may have added.
Known(d) == Grabbed(d) \/ d \in Foreign

Tables ==
  /\ history   \in [Download -> Event]
  /\ grabs     \in [Download -> Nat]
  /\ completed \in [Download -> Nat]

\* What tasks await, and the client and the lists made from it.
Awaited ==
  /\ rpc      \in [Refresher -> {"idle", "fetching", "items", "checking"}]
  /\ checking \in [Refresher -> Obj \cup {None}]
  /\ \A r \in Refresher : rpc[r] # "checking" => checking[r] = None
  /\ \A p \in Processor : ppc[p] # "importing" => importing[p] = None

Expected ==
  /\ \A d \in Download : client[d] # "Absent" => Known(d)
  /\ \A d \in Download, r \in Refresher : snapshot[r][d] # "Absent" => Known(d)
  /\ \A d \in Download : Mode(d) # "None" => Known(d)

\* execute() has objects in hand that the cache holds, or that a refresh has
\* replaced while they were downloading and nobody checks any more.
InHand ==
  /\ \A p \in Processor, o \in Obj : o \in todo[p] \/ importing[p] = o =>
       \/ o \in Cached
       \/ object[o].state = "Downloading" /\ \A r \in Refresher : checking[r] # o
  /\ (\A d, e \in Download : d = e) => \A p \in Processor : todo[p] = {}

\* A download that has not come to an end in the cache has none in the history.
Unsettled == {"Downloading", "DownloadFailedPending", "ImportPending", "Importing"}

Agrees ==
  \A d \in Download : /\ Mode(d) \in Unsettled => history[d] \in {"None", "Grabbed"}
                      /\ history[d] = "None" => ~Grabbed(d)

\* Downloads that are completed for each grab have come to an end, those that
\* are to be imported may be completed once.
Allowance(d) == grabs[d] + (IF d \in Foreign \cap Categorised THEN 1 ELSE 0)

CountsAgree ==
  \A d \in Download :
    /\ completed[d] <= Allowance(d)
    /\ completed[d] = Allowance(d) => Allowance(d) = 0 \/ history[d] \notin {"None", "Grabbed"}
    /\ Mode(d) = "ImportPending" => Allowance(d) > 0

SInv == Tables /\ Awaited /\ Expected /\ InHand /\ Agrees /\ CountsAgree

-----------------------------------------------------------------------------
(* What a step does to one download.                                       *)

Unmoved(d) ==
  history'[d] = history[d] /\ grabs'[d] = grabs[d] /\ completed'[d] = completed[d]

Stays(d) == Unmoved(d) /\ Mode(d)' = Mode(d)

Forgotten(d) == Unmoved(d) /\ Mode(d)' = "None"

\* A refresh makes a new object, which may have failed already.
Anew(d) ==
  /\ Unmoved(d) /\ Known(d)
  /\ Mode(d) \in {"None", "Downloading"}
  /\ \/ Mode(d)' = StateFromHistory(history[d])
     \/ /\ StateFromHistory(history[d]) = "Downloading" /\ Grabbed(d)
        /\ Mode(d)' = "DownloadFailedPending"

\* A check finds it complete.
IsReady(d) ==
  /\ Unmoved(d)
  /\ Mode(d) = "Downloading" /\ Mode(d)' = "ImportPending"
  /\ Grabbed(d) \/ d \in Categorised

IsFailed(d) ==
  /\ Grabbed(d) /\ grabs'[d] = grabs[d] /\ completed'[d] = completed[d]
  /\ Mode(d) = "DownloadFailedPending" /\ Mode(d)' = "DownloadFailed"
  /\ history'[d] = "Failed"

\* Its import settles.
IsImported(d) ==
  /\ Mode(d) = "ImportPending" /\ grabs'[d] = grabs[d]
  /\ \/ /\ Mode(d)' = "Imported" /\ history'[d] = "Imported"
        /\ completed'[d] = completed[d] + 1
     \/ /\ Mode(d)' = "ImportFailed" /\ history'[d] = "Incomplete"
        /\ completed'[d] = completed[d]
     \/ Mode(d)' \in {"ImportPending", "Importing"} /\ Unmoved(d)

IsGrabbed(d) ==
  /\ client[d] = "Absent" /\ grabs[d] < MaxGrabs
  /\ grabs'[d] = grabs[d] + 1 /\ completed'[d] = completed[d]
  /\ history'[d] = "Grabbed" /\ Mode(d)' = Mode(d)
  /\ Answered(d)

Moves(d) ==
  \/ Stays(d) \/ Forgotten(d) \/ Anew(d) \/ IsReady(d)
  \/ IsFailed(d) \/ IsImported(d) \/ IsGrabbed(d)

\* An object of the cache stands for its download.
LEMMA CachedStandsFor ==
  ASSUME Objects, NEW o \in Obj, o \in Cached
  PROVE  object[o].download \in Download /\ cache[object[o].download] = o
BY DEF Objects, Cached, Tracked

\* Objects that keep their state keep the mode of their downloads.
LEMMA ModeStays ==
  ASSUME Objects, cache' = cache, NEW d \in Download,
         cache[d] # None => object'[cache[d]].state = object[cache[d]].state
  PROVE  Mode(d)' = Mode(d)
BY DEF Mode

-----------------------------------------------------------------------------
\* A refresh leaves the histories, the client and what others do alone.
LEMMA RefreshLeaves ==
  ASSUME NEW r \in Refresher, RefreshStep(r)
  PROVE  UNCHANGED <<history, grabs, completed, client, todo, importing, ppc, marking, removing>>
<1>1. CASE Refresh(r) \/ GetItems(r) \/ EndRefresh(r)
  BY <1>1 DEF Refresh, GetItems, EndRefresh, trackVars, processVars, hubVars
<1>2. CASE CheckResolves(r)
  BY <1>2 DEF CheckResolves, processVars, hubVars
<1>3. ASSUME NEW d \in Download, NEW spare \in Spare(d), ProcessClientItem(r, d, spare)
      PROVE  UNCHANGED <<history, grabs, completed, client, todo, importing, ppc, marking, removing>>
  BY <1>3 DEF ProcessClientItem, processVars, hubVars
<1>4. QED
  BY <1>1, <1>2, <1>3 DEF RefreshStep

LEMMA RefreshMoves ==
  ASSUME IInv, SInv, OneAtATime, NEW r \in Refresher, RefreshStep(r)
  PROVE  /\ \A d \in Download : Stays(d) \/ Anew(d) \/ IsReady(d)
         /\ Awaited' /\ InHand'
<1>o. Objects /\ Awaited /\ InHand /\ Expected
  BY DEF IInv, SInv
<1>u. UNCHANGED <<history, grabs, completed, todo, importing, ppc, client>>
  BY RefreshLeaves
<1>w. Awaited'
  <2>1. CASE Refresh(r) \/ GetItems(r) \/ EndRefresh(r)
    BY <2>1, <1>o, <1>u DEF Refresh, GetItems, EndRefresh, Awaited
  <2>2. CASE CheckResolves(r)
    BY <2>2, <1>o, <1>u DEF CheckResolves, Awaited
  <2>3. ASSUME NEW d \in Download, NEW spare \in Spare(d), ProcessClientItem(r, d, spare)
        PROVE  Awaited'
    BY <2>3, SpareFacts, <1>o, <1>u DEF ProcessClientItem, Awaited
  <2>4. QED
    BY <2>1, <2>2, <2>3 DEF RefreshStep
<1>1. CASE Refresh(r) \/ GetItems(r)
  <2>1. UNCHANGED <<cache, object, checking>>
    BY <1>1 DEF Refresh, GetItems, trackVars
  <2>2. InHand'
    BY <2>1, <1>u, <1>o DEF InHand, Cached
  <2>3. QED
    BY <2>1, <2>2, <1>u, <1>w, <1>o, ModeStays DEF Stays, Unmoved
<1>2. CASE CheckResolves(r)
  <2> DEFINE o == checking[r]
  <2>1. \A q \in Obj : object[q] \in Tracked
    BY <1>o DEF Objects
  <2>2. \A q \in Obj :
          \/ object'[q].state = object[q].state
          \/ /\ q = o /\ object[q].state = "Downloading" /\ object'[q].state = "ImportPending"
             /\ Grabbed(object[q].download) \/ object[q].download \in Categorised
    <3>1. CASE object' = [object EXCEPT ![o] = CompletedCheck(object[o])]
      BY <3>1, <1>o, <2>1 DEF Objects, CompletedCheck, Tracked
    <3>2. CASE UNCHANGED object
      BY <3>2
    <3>3. CASE object' = [object EXCEPT ![o].warned = object[o].warned \/ object[o].state = "Downloading"]
      BY <3>3, <2>1, <1>o DEF Tracked, Objects
    <3>4. QED
      BY <1>2, <3>1, <3>2, <3>3 DEF CheckResolves
  <2>3. cache' = cache /\ checking' = [checking EXCEPT ![r] = None]
    BY <1>2 DEF CheckResolves
  <2>4. \A q \in Refresher : checking'[q] \in {checking[q], None}
    BY <2>3, <1>o DEF Awaited
  <2>5. InHand'
    BY <2>2, <2>3, <2>4, <1>u, <1>o, NoneAssumption DEF InHand, Cached
  <2>6. ASSUME NEW d \in Download PROVE Stays(d) \/ IsReady(d)
    BY <2>2, <2>3, <1>u, <1>o DEF Stays, IsReady, Unmoved, Mode, Objects
  <2>7. QED
    BY <2>5, <2>6, <1>w
<1>3. CASE EndRefresh(r)
  <2>1. PICK ids : object' = Untracked(ids)
    BY <1>3 DEF EndRefresh
  <2>2. \A o \in Obj : object'[o].state = object[o].state
    BY <2>1, <1>o DEF Untracked, Tracked, Objects
  <2>3. UNCHANGED <<cache, checking>>
    BY <1>3 DEF EndRefresh
  <2>4. InHand'
    BY <2>2, <2>3, <1>u, <1>o DEF InHand, Cached
  <2>5. QED
    BY <2>2, <2>3, <2>4, <1>u, <1>w, <1>o, ModeStays DEF Stays, Unmoved, Objects
<1>4. ASSUME NEW d \in Download, NEW spare \in Spare(d), ProcessClientItem(r, d, spare)
      PROVE  InHand' /\ \A e \in Download : Stays(e) \/ Anew(e)
  <2>1. /\ spare \in Obj /\ cache' = [cache EXCEPT ![d] = spare]
        /\ \A e \in Download : e # d /\ cache[e] # None => cache[e] # spare
        /\ Keeps(d) => spare = cache[d]
        /\ ~Keeps(d) => ~Referenced(spare)
    BY <1>4, ItemFacts
  <2>2. PICK z \in Tracked :
          /\ object' = [object EXCEPT ![spare] = z]
          /\ Keeps(d) => z.state = object[spare].state
          /\ ~Keeps(d) => \/ z.state = StateFromHistory(history[d])
                          \/ /\ StateFromHistory(history[d]) = "Downloading"
                             /\ z.state = "DownloadFailedPending" /\ Grabbed(d)
    BY <1>4, ItemFacts
  <2>3. Known(d) /\ rpc[r] = "items" /\ checking[r] = None
    BY <1>4, <1>o DEF ProcessClientItem, Expected, Awaited
  <2>4. \A e \in Download : e # d => Mode(e)' = Mode(e)
    BY <2>1, <2>2, <1>o DEF Mode, Objects
  <2>m. Mode(d)' = z.state
    <3>1. cache'[d] = spare /\ object'[spare] = z
      BY <2>1, <2>2, <1>o DEF Objects
    <3>2. QED
      BY <3>1, <2>1, NoneAssumption DEF Mode
  <2>5. ASSUME Keeps(d) PROVE \A e \in Download : Stays(e)
    <3>1. Mode(d) = object[spare].state
      BY <2>1, <2>5 DEF Mode, Keeps
    <3>2. QED
      BY <3>1, <2>2, <2>m, <2>4, <2>5, <1>u DEF Stays, Unmoved
  <2>6. ASSUME ~Keeps(d) PROVE \A e \in Download : Stays(e) \/ Anew(e)
    <3>1. Mode(d) \in {"None", "Downloading"}
      BY <2>6 DEF Mode, Keeps
    <3>2. QED
      BY <3>1, <2>2, <2>m, <2>3, <2>4, <2>6, <1>u DEF Stays, Anew, Unmoved
  <2>7. checking' = checking \/ checking' = [checking EXCEPT ![r] = spare]
    BY <1>4, SpareFacts, <1>o DEF ProcessClientItem
  <2>c. \A v \in Refresher : checking'[v] \in {checking[v], spare}
    BY <2>7, <1>o DEF Awaited
  <2>8. ASSUME NEW p \in Processor, NEW q \in Obj, q \in todo[p] \/ importing[p] = q
        PROVE  /\ object'[q].state = object[q].state
               /\ \/ q \in Cached'
                  \/ object[q].state = "Downloading" /\ \A v \in Refresher : checking'[v] # q
    <3>1. q # spare \/ Keeps(d)
      BY <2>1, <2>8 DEF Referenced
    <3>2. object'[q].state = object[q].state
      BY <3>1, <2>1, <2>2, <1>o DEF Objects
    <3>3. CASE Keeps(d)
      <4>1. cache' = cache /\ spare \in Cached
        BY <3>3, <2>1, <1>o DEF Objects, Cached
      <4>2. QED
        BY <4>1, <3>2, <2>c, <2>8, <1>o DEF InHand, Cached
    <3>4. CASE ~Keeps(d)
      <4>1. CASE q \notin Cached
        BY <4>1, <3>1, <3>2, <3>4, <2>c, <2>8, <1>o DEF InHand
      <4>2. CASE \E e \in Download : e # d /\ cache[e] = q
        BY <4>2, <3>2, <2>1, <1>o DEF Cached, Objects
      <4>3. CASE cache[d] = q
        <5>1. object[q].state = "Downloading"
          BY <4>3, <3>4, NoneAssumption DEF Keeps
        <5>2. \A v, w \in Refresher : v = w
          <6>1. CASE \A e, f \in Download : e = f
            <7>1. importing[p] = q
              BY <6>1, <2>8, <1>o DEF InHand
            <7>2. ppc[p] = "importing" /\ object[q].state = "ImportPending"
              BY <7>1, <1>o, NoneAssumption DEF Awaited, IInv, ImportInHand
            <7>3. QED
              BY <7>2, <5>1
          <6>2. QED
            BY <6>1 DEF OneAtATime
        <5>3. \A v \in Refresher : checking'[v] # q
          BY <5>2, <2>3, <2>c, <3>1, <3>4, NoneAssumption
        <5>4. QED
          BY <5>1, <5>3, <3>2
      <4>4. QED
        BY <4>1, <4>2, <4>3 DEF Cached
    <3>5. QED
      BY <3>2, <3>3, <3>4
  <2>9. InHand'
    BY <2>8, <1>u, <1>o DEF InHand
  <2>10. QED
    BY <2>5, <2>6, <2>9
<1>5. QED
  BY <1>1, <1>2, <1>3, <1>4, <1>w DEF RefreshStep

\* Going on with a list marks what has failed, all of it in the cache.
LEMMA AdvanceMoves ==
  ASSUME IInv, SInv, OneAtATime, NEW p \in Processor, NEW os \in SUBSET Obj, Advance(p, os),
         \A o \in os : \/ o \in Cached
                       \/ object[o].state = "Downloading" /\ \A r \in Refresher : checking[r] # o,
         (\A d, e \in Download : d = e) => os \subseteq Cached
  PROVE  /\ \A d \in Download : Stays(d) \/ IsFailed(d)
         /\ Awaited' /\ InHand'
<1>o. Objects /\ Awaited /\ InHand /\ ProcessTypes
  BY DEF IInv, SInv
<1>1. PICK handled \in SUBSET {o \in os : ~Importable(object[o])} :
        /\ object' = AfterFailing(handled) /\ history' = Failed(handled)
        /\ \/ \E o \in os \ handled :
                 /\ Importable(object[o])
                 /\ importing' = [importing EXCEPT ![p] = o]
                 /\ todo'      = [todo EXCEPT ![p] = os \ (handled \cup {o})]
                 /\ ppc'       = [ppc EXCEPT ![p] = "importing"]
           \/ /\ importing' = [importing EXCEPT ![p] = None]
              /\ todo'      = [todo EXCEPT ![p] = {}]
              /\ ppc'       = [ppc EXCEPT ![p] = "idle"]
  BY DEF Advance
<1>2. UNCHANGED <<cache, grabs, completed, checking, rpc>>
  BY DEF Advance, refreshVars
<1>3. \A o \in Obj :
        \/ o \notin Failing(handled) /\ object'[o] = object[o]
        \/ /\ o \in Failing(handled) /\ o \in Cached /\ Grabbed(object[o].download)
           /\ object[o].state = "DownloadFailedPending" /\ object'[o].state = "DownloadFailed"
  <2>1. \A o \in Obj : object[o] \in Tracked
    BY <1>o DEF Objects
  <2>2. \A o \in Failing(handled) : o \in Cached
    BY DEF Failing
  <2>3. QED
    BY <1>1, <2>1, <2>2 DEF AfterFailing, Failing, Tracked
<1>4. ASSUME NEW d \in Download PROVE Stays(d) \/ IsFailed(d)
  <2>1. CASE \E o \in Failing(handled) : object[o].download = d
    <3>1. PICK o \in Failing(handled) : object[o].download = d
      BY <2>1
    <3>2. o \in Obj
      BY <3>1 DEF Failing
    <3>3. cache[d] = o /\ cache'[d] = o /\ o # None
      BY <1>2, <1>3, <1>o, <3>1, <3>2, CachedStandsFor, NoneAssumption
    <3>4. history'[d] = "Failed"
      BY <1>1, <2>1 DEF Failed
    <3>5. QED
      BY <1>2, <1>3, <3>1, <3>2, <3>3, <3>4 DEF IsFailed, Mode
  <2>2. CASE ~\E o \in Failing(handled) : object[o].download = d
    <3>1. history'[d] = history[d]
      BY <1>1, <2>2 DEF Failed
    <3>2. cache[d] # None => object'[cache[d]] = object[cache[d]]
      BY <1>3, <2>2, <1>o DEF Objects
    <3>3. QED
      BY <1>2, <3>1, <3>2 DEF Stays, Unmoved, Mode
  <2>3. QED
    BY <2>1, <2>2
<1>5. Awaited'
  BY <1>1, <1>2, <1>o DEF Awaited, ProcessTypes
<1>6. ASSUME NEW q \in Processor, NEW o \in Obj, o \in todo'[q] \/ importing'[q] = o
      PROVE  o \in Cached' \/ (object'[o].state = "Downloading" /\ \A r \in Refresher : checking'[r] # o)
  <2>1. q = p
    BY DEF OneAtATime
  <2>2. o \in os
    BY <1>1, <1>6, <1>o, <2>1, NoneAssumption DEF ProcessTypes
  <2>3. QED
    <3>1. Cached' = Cached
      BY <1>2 DEF Cached
    <3>2. CASE object[o].state = "Downloading" /\ \A r \in Refresher : checking[r] # o
      BY <1>2, <1>3, <3>2
    <3>3. QED
      BY <2>2, <3>1, <3>2
<1>7. ASSUME \A d, e \in Download : d = e, NEW q \in Processor PROVE todo'[q] = {}
  <2>1. q = p
    BY DEF OneAtATime
  <2>2. \A o, v \in os : o = v
    BY <1>7, <1>o, CachedStandsFor
  <2>3. QED
    BY <1>1, <1>o, <2>1, <2>2 DEF ProcessTypes
<1>8. QED
  BY <1>4, <1>5, <1>6, <1>7 DEF InHand

\* An import settles: the object in hand is the one in the cache.
LEMMA SettlesMoves ==
  ASSUME IInv, SInv, OneAtATime, NEW p \in Processor,
         ImportSucceeds(p) \/ ImportIncomplete(p) \/ ImportFindsNothing(p) \/ ImportFails(p)
  PROVE  /\ \A d \in Download : Stays(d) \/ IsImported(d)
         /\ Awaited' /\ InHand'
<1>o. Objects /\ Awaited /\ InHand /\ ProcessTypes /\ Tables
  BY DEF IInv, SInv
<1>p. ppc[p] = "importing"
  BY DEF ImportSucceeds, ImportIncomplete, ImportFindsNothing, ImportFails
<1>1. PICK o \in Obj : o = importing[p] /\ object[o].state = "ImportPending"
  BY <1>p DEF IInv, ImportInHand
<1>2. o \in Cached
  BY <1>1, <1>o DEF InHand
<1>3. PICK d \in Download : d = object[o].download /\ cache[d] = o
  BY <1>2, <1>o, CachedStandsFor
<1>4. PICK state \in {"Imported", "ImportFailed", "ImportPending", "Importing"}, warned \in BOOLEAN :
        /\ Settles(p, o, state, warned)
        /\ \/ state = "Imported" /\ history' = [history EXCEPT ![d] = "Imported"]
              /\ completed' = [completed EXCEPT ![d] = @ + 1]
           \/ state = "ImportFailed" /\ history' = [history EXCEPT ![d] = "Incomplete"]
              /\ completed' = completed
           \/ state \in {"ImportPending", "Importing"} /\ UNCHANGED <<history, completed>>
  BY <1>1, <1>3 DEF ImportSucceeds, ImportIncomplete, ImportFindsNothing, ImportFails
<1>5. /\ object'    = [object EXCEPT ![o].state = state, ![o].warned = @ \/ warned]
      /\ importing' = [importing EXCEPT ![p] = None]
      /\ ppc'       = [ppc EXCEPT ![p] = "resumed"]
      /\ UNCHANGED <<cache, grabs, todo, rpc, checking>>
  BY <1>4 DEF Settles, refreshVars
<1>6. object'[o].state = state /\ \A q \in Obj : q # o => object'[q] = object[q]
  BY <1>5, <1>o DEF Objects, Tracked
<1>7. ASSUME NEW e \in Download PROVE Stays(e) \/ IsImported(e)
  <2>1. CASE e = d
    <3>1. Mode(e) = "ImportPending" /\ Mode(e)' = state
      BY <1>1, <1>3, <1>5, <1>6, <2>1, NoneAssumption DEF Mode
    <3>2. QED
      BY <1>4, <1>5, <1>o, <2>1, <3>1 DEF IsImported, Tables, Unmoved
  <2>2. CASE e # d
    <3>1. Mode(e)' = Mode(e)
      BY <1>3, <1>5, <1>6, <2>2, <1>o DEF Mode, Objects
    <3>2. QED
      BY <1>4, <1>5, <1>o, <2>2, <3>1 DEF Stays, Tables, Unmoved
  <2>3. QED
    BY <2>1, <2>2
<1>8. Awaited'
  BY <1>5, <1>o DEF Awaited, ProcessTypes
<1>9. InHand'
  <2>1. Cached' = Cached
    BY <1>5 DEF Cached
  <2>2. \A q \in Processor, v \in Obj : importing'[q] = v => importing[q] = v
    BY <1>5, <1>o, NoneAssumption DEF ProcessTypes
  <2>3. ASSUME NEW q \in Processor, NEW v \in Obj, v \in todo[q] \/ importing[q] = v
        PROVE  v \in Cached' \/ (object'[v].state = "Downloading" /\ \A r \in Refresher : checking'[r] # v)
    <3>1. CASE v = o
      BY <1>2, <2>1, <3>1
    <3>2. CASE v # o
      BY <1>5, <1>6, <2>1, <2>3, <3>2, <1>o DEF InHand
    <3>3. QED
      BY <3>1, <3>2
  <2>4. todo' = todo
    BY <1>5
  <2>5. \A q \in Processor, v \in Obj : v \in todo'[q] \/ importing'[q] = v =>
          v \in Cached' \/ (object'[v].state = "Downloading" /\ \A r \in Refresher : checking'[r] # v)
    BY <2>2, <2>3, <2>4
  <2>6. QED
    BY <2>4, <2>5, <1>o DEF InHand
<1>10. QED
  BY <1>7, <1>8, <1>9

LEMMA ListMoves ==
  ASSUME IInv, SInv, OneAtATime, NEW p \in Processor, Process(p) \/ ProcessNext(p)
  PROVE  /\ \A d \in Download : Stays(d) \/ IsFailed(d)
         /\ Awaited' /\ InHand'
<1>1. CASE Process(p)
  BY <1>1, AdvanceMoves DEF Process, Cached
<1>2. CASE ProcessNext(p)
  <2>1. todo[p] \in SUBSET Obj
    BY DEF IInv, ProcessTypes
  <2>2. /\ \A o \in todo[p] : \/ o \in Cached
                              \/ object[o].state = "Downloading" /\ \A r \in Refresher : checking[r] # o
        /\ (\A d, e \in Download : d = e) => todo[p] \subseteq Cached
    BY <2>1 DEF SInv, InHand
  <2>3. QED
    BY <1>2, <2>1, <2>2, AdvanceMoves DEF ProcessNext
<1>3. QED
  BY <1>1, <1>2

LEMMA ProcessMoves ==
  ASSUME IInv, SInv, OneAtATime, NEW p \in Processor, ProcessStep(p)
  PROVE  /\ \A d \in Download : Stays(d) \/ IsFailed(d) \/ IsImported(d)
         /\ Awaited' /\ InHand'
BY ListMoves, SettlesMoves DEF ProcessStep

\* The client and the hub leave the cache and the states alone.
LEMMA OthersMove ==
  ASSUME IInv, SInv, ClientStep \/ HubStep
  PROVE  /\ \A d \in Download : Stays(d) \/ IsGrabbed(d)
         /\ Awaited' /\ InHand'
<1>o. Objects /\ Awaited /\ InHand /\ ProcessTypes /\ Tables
  BY DEF IInv, SInv
<1>1. UNCHANGED <<cache, todo, importing, ppc, rpc, checking, completed>>
  BY DEF ClientStep, HubStep, Grab, Progress, MarkResolves, RemoveResolves, trackVars,
     refreshVars, processVars
<1>2. \A o \in Obj : object'[o].state = object[o].state
  <2>1. \/ UNCHANGED object
        \/ \E o \in Obj : object' = [object EXCEPT ![o].removed = TRUE]
    BY DEF ClientStep, HubStep, Grab, Progress, MarkResolves, RemoveResolves, trackVars
  <2>2. QED
    BY <2>1, <1>o DEF Objects, Tracked
<1>3. \A d \in Download : Mode(d)' = Mode(d)
  BY <1>1, <1>2, <1>o, ModeStays DEF Objects
<1>4. \A d \in Download : UNCHANGED <<history, grabs>> \/ IsGrabbed(d) \/
                            (history'[d] = history[d] /\ grabs'[d] = grabs[d])
  <2>1. CASE HubStep
    BY <2>1 DEF HubStep, MarkResolves, RemoveResolves, trackVars
  <2>2. ASSUME NEW e \in Download, Grab(e) /\ Answered(e) PROVE
          \A d \in Download : IsGrabbed(d) \/ (history'[d] = history[d] /\ grabs'[d] = grabs[d])
    BY <2>2, <1>1, <1>3, <1>o DEF Grab, IsGrabbed, Tables
  <2>3. ASSUME NEW e \in Download, Progress(e) PROVE UNCHANGED <<history, grabs>>
    BY <2>3 DEF Progress
  <2>4. QED
    BY <2>1, <2>2, <2>3 DEF ClientStep
<1>5. Awaited' /\ InHand'
  BY <1>1, <1>2, <1>o DEF Awaited, InHand, Cached
<1>6. QED
  BY <1>1, <1>3, <1>4, <1>5 DEF Stays, Unmoved

LEMMA StepMoves ==
  ASSUME IInv, SInv, OneAtATime, [Next]_vars
  PROVE  (\A d \in Download : Moves(d)) /\ Awaited' /\ InHand'
<1>o. Objects /\ Awaited /\ InHand /\ ProcessTypes
  BY DEF IInv, SInv
<1>1. CASE UNCHANGED vars
  <2>1. UNCHANGED <<cache, object, history, grabs, completed, rpc, checking, ppc, todo, importing>>
    BY <1>1 DEF vars, trackVars, refreshVars, processVars
  <2>2. Awaited' /\ InHand'
    BY <2>1, <1>o DEF Awaited, InHand, Cached
  <2>3. \A d \in Download : Stays(d)
    BY <2>1, ModeStays, <1>o DEF Stays, Unmoved
  <2>4. QED
    BY <2>2, <2>3 DEF Moves
<1>2. CASE Restart
  <2>1. Awaited' /\ InHand'
    BY <1>2, <1>o, NoneAssumption DEF Restart, Awaited, InHand
  <2>2. \A d \in Download : Forgotten(d)
    BY <1>2 DEF Restart, Forgotten, Unmoved, Mode
  <2>3. QED
    BY <2>1, <2>2 DEF Moves
<1>3. CASE \E r \in Refresher : RefreshStep(r)
  BY <1>3, RefreshMoves DEF Moves
<1>4. CASE \E p \in Processor : ProcessStep(p)
  BY <1>4, ProcessMoves DEF Moves
<1>5. CASE ClientStep \/ HubStep
  BY <1>5, OthersMove DEF Moves
<1>6. ~UserStep
  BY DEF OneAtATime, UserStep
<1>7. QED
  BY <1>1, <1>2, <1>3, <1>4, <1>5, <1>6 DEF Next

\* The tables keep their types.
LEMMA TablesStep ==
  ASSUME Tables, IInv, OneAtATime, [Next]_vars
  PROVE  Tables'
<1>1. CASE UNCHANGED <<history, grabs, completed>>
  BY <1>1 DEF Tables
<1>2. CASE ClientStep
  BY <1>2 DEF ClientStep, Grab, Progress, Tables, Event
<1>3. ASSUME NEW p \in Processor, ProcessStep(p) PROVE Tables'
  <2>1. CASE ImportSucceeds(p) \/ ImportIncomplete(p) \/ ImportFindsNothing(p) \/ ImportFails(p)
    <3>1. PICK d, e :
            /\ e \in {"Imported", "Incomplete"}
            /\ history' = history \/ history' = [history EXCEPT ![d] = e]
            /\ completed' = completed \/ completed' = [completed EXCEPT ![d] = @ + 1]
            /\ grabs' = grabs
      BY <2>1 DEF ImportSucceeds, ImportIncomplete, ImportFindsNothing, ImportFails, Settles
    <3>2. QED
      BY <3>1 DEF Tables, Event
  <2>2. ASSUME NEW os, Advance(p, os) PROVE Tables'
    BY <2>2 DEF Advance, Failed, Tables, Event
  <2>3. QED
    BY <1>3, <2>1, <2>2 DEF ProcessStep, Process, ProcessNext
<1>4. ASSUME NEW r \in Refresher, RefreshStep(r) PROVE UNCHANGED <<history, grabs, completed>>
  BY <1>4, RefreshLeaves
<1>5. HubStep \/ Restart => UNCHANGED <<history, grabs, completed>>
  BY DEF HubStep, MarkResolves, RemoveResolves, Restart, trackVars
<1>6. ~UserStep
  BY DEF OneAtATime, UserStep
<1>7. QED
  BY <1>1, <1>2, <1>3, <1>4, <1>5, <1>6 DEF Next, vars, trackVars

\* Whatever is listed or tracked was grabbed or put there by somebody else.
LEMMA ExpectedStep ==
  ASSUME IInv, Tables, Expected, OneAtATime, [Next]_vars, \A d \in Download : Moves(d)
  PROVE  Expected'
<1>1. \A d \in Download : Known(d) => Known(d)'
  BY DEF Known, Grabbed, Tables, Moves, Stays, Forgotten, Anew, IsReady, IsFailed,
     IsImported, IsGrabbed, Unmoved
<1>2. ASSUME NEW d \in Download, Mode(d)' # "None" PROVE Known(d)
  BY <1>2 DEF Moves, Stays, Forgotten, Anew, IsReady, IsFailed, IsImported, IsGrabbed, Expected
<1>3. \A d \in Download : client'[d] # "Absent" => client[d] # "Absent" \/ Known(d)'
  <2>1. ASSUME NEW e \in Download, Grab(e)
        PROVE  \A d \in Download : client'[d] # "Absent" => client[d] # "Absent" \/ Known(d)'
    BY <2>1 DEF Grab, Known, Grabbed, Tables, IInv, Listing
  <2>2. ASSUME NEW e \in Download, Progress(e)
        PROVE  \A d \in Download : client'[d] # "Absent" => client[d] # "Absent"
    BY <2>2 DEF Progress, IInv, Listing
  <2>3. HubStep => \A d \in Download : client'[d] # "Absent" => client[d] # "Absent"
    BY DEF HubStep, MarkResolves, RemoveResolves, trackVars, IInv, Listing
  <2>4. ~ClientStep /\ ~HubStep => client' = client
    <3>1. ~UserStep
      BY DEF OneAtATime, UserStep
    <3>2. \A r \in Refresher : RefreshStep(r) => client' = client
      BY RefreshLeaves
    <3>3. \A p \in Processor : ProcessStep(p) => client' = client
      BY DEF ProcessStep, Process, ProcessNext, Advance, ImportSucceeds, ImportIncomplete,
         ImportFindsNothing, ImportFails, Settles
    <3>4. QED
      BY <3>1, <3>2, <3>3 DEF Next, Restart, vars, trackVars
  <2>5. QED
    BY <2>1, <2>2, <2>3, <2>4 DEF ClientStep
<1>4. \A r \in Refresher, d \in Download :
        snapshot'[r][d] # "Absent" => snapshot[r][d] # "Absent" \/ client[d] # "Absent"
  <2>1. ASSUME NEW q \in Refresher, RefreshStep(q)
        PROVE  \A r \in Refresher, d \in Download :
                 snapshot'[r][d] # "Absent" => snapshot[r][d] # "Absent" \/ client[d] # "Absent"
    BY <2>1 DEF RefreshStep, Refresh, GetItems, CheckResolves, EndRefresh, ProcessClientItem,
       Nothing, IInv, Listing
  <2>2. (\A r \in Refresher : ~RefreshStep(r)) /\ ~Restart => snapshot' = snapshot
    <3>1. ~UserStep
      BY DEF OneAtATime, UserStep
    <3>2. \A p \in Processor : ProcessStep(p) => snapshot' = snapshot
      BY DEF ProcessStep, Process, ProcessNext, Advance, ImportSucceeds, ImportIncomplete,
         ImportFindsNothing, ImportFails, Settles, refreshVars
    <3>3. ClientStep \/ HubStep => snapshot' = snapshot
      BY DEF ClientStep, HubStep, MarkResolves, RemoveResolves, refreshVars
    <3>4. QED
      BY <3>1, <3>2, <3>3 DEF Next, vars, refreshVars
  <2>3. QED
    BY <2>1, <2>2 DEF Restart, Nothing
<1>5. QED
  BY <1>1, <1>2, <1>3, <1>4 DEF Expected

\* An end in the cache comes with an end in the history, and an allowance is
\* used up by the completion that ends it.
LEMMA AgreesStep ==
  ASSUME SInv, NEW d \in Download, Moves(d)
  PROVE  /\ Mode(d)' \in Unsettled => history'[d] \in {"None", "Grabbed"}
         /\ history'[d] = "None" => ~Grabbed(d)'
         /\ completed'[d] <= Allowance(d)'
         /\ completed'[d] = Allowance(d)'
              => Allowance(d)' = 0 \/ history'[d] \notin {"None", "Grabbed"}
         /\ Mode(d)' = "ImportPending" => Allowance(d)' > 0
<1>1. /\ Mode(d) \in Unsettled => history[d] \in {"None", "Grabbed"}
      /\ history[d] = "None" => ~Grabbed(d)
      /\ completed[d] <= Allowance(d)
      /\ completed[d] = Allowance(d) => Allowance(d) = 0 \/ history[d] \notin {"None", "Grabbed"}
      /\ Mode(d) = "ImportPending" => Allowance(d) > 0
      /\ Mode(d) # "None" => Known(d)
      /\ history[d] \in Event /\ grabs[d] \in Nat /\ completed[d] \in Nat
      /\ Allowance(d) \in Nat
  BY DEF SInv, Agrees, CountsAgree, Expected, Tables, Allowance
<1>2. CASE Stays(d) \/ Forgotten(d)
  BY <1>1, <1>2 DEF Stays, Forgotten, Unmoved, Allowance, Grabbed, Unsettled
<1>3. CASE Anew(d)
  <2>1. StateFromHistory(history[d]) \in Unsettled => history[d] \in {"None", "Grabbed"}
    BY <1>1 DEF StateFromHistory, Unsettled, Event
  <2>2. StateFromHistory(history[d]) # "ImportPending"
    BY DEF StateFromHistory
  <2>3. QED
    BY <1>1, <1>3, <2>1, <2>2 DEF Anew, Unmoved, Allowance, Grabbed, Unsettled
<1>4. CASE IsReady(d)
  BY <1>1, <1>4 DEF IsReady, Unmoved, Allowance, Grabbed, Known, Unsettled
<1>5. CASE IsFailed(d)
  BY <1>1, <1>5 DEF IsFailed, Allowance, Grabbed, Unsettled
<1>6. CASE IsImported(d)
  BY <1>1, <1>6 DEF IsImported, Unmoved, Allowance, Grabbed, Unsettled
<1>7. CASE IsGrabbed(d)
  BY <1>1, <1>7 DEF IsGrabbed, Allowance, Grabbed, Unsettled
<1>8. QED
  BY <1>2, <1>3, <1>4, <1>5, <1>6, <1>7 DEF Moves

LEMMA SerialStep ==
  ASSUME IInv, SInv, OneAtATime, [Next]_vars
  PROVE  SInv'
<1>1. (\A d \in Download : Moves(d)) /\ Awaited' /\ InHand'
  BY StepMoves
<1>2. Tables' /\ Expected'
  BY <1>1, TablesStep, ExpectedStep DEF SInv
<1>3. Agrees' /\ CountsAgree'
  BY <1>1, AgreesStep DEF Agrees, CountsAgree
<1>4. QED
  BY <1>1, <1>2, <1>3 DEF SInv

LEMMA SerialInit == Init => SInv
<1> SUFFICES ASSUME Init PROVE SInv
  OBVIOUS
<1>1. \A d \in Download : Mode(d) = "None"
  BY DEF Init, TrackInit, Mode
<1>2. \A d \in Download : /\ history[d] = "None" /\ grabs[d] = 0 /\ completed[d] = 0
                          /\ client[d] # "Absent" => d \in Foreign
  BY DEF Init, TrackInit
<1>3. Tables
  BY DEF Init, TrackInit, Tables, Event
<1>4. Awaited /\ InHand
  BY NoneAssumption DEF Init, Awaited, InHand
<1>5. Expected
  BY <1>1, <1>2 DEF Init, Nothing, Expected, Known
<1>6. Agrees /\ CountsAgree
  BY <1>1, <1>2 DEF Agrees, CountsAgree, Allowance, Grabbed, Unsettled
<1>7. QED
  BY <1>3, <1>4, <1>5, <1>6 DEF SInv

\* Without overlapping work and deletions a download is completed at most once
\* for each grab, whatever fails and whenever the process starts again: a
\* completion writes the history and the cache in one step, what a restart
\* rebuilds from the history is not imported again, and what execute() has in
\* its list after an import is what the cache holds.
THEOREM CompletedOnce ==
  ASSUME OneAtATime
  PROVE  Spec => []CompletedOncePerGrab
<1>1. IInv /\ [Next]_vars => IInv'
  BY StepFacts DEF OneAtATime
<1>2. IInv /\ SInv /\ [Next]_vars => SInv'
  BY SerialStep
<1>3. SInv => CompletedOncePerGrab
  BY DEF SInv, CountsAgree, Allowance, CompletedOncePerGrab
<1>4. QED
  BY <1>1, <1>2, <1>3, InitHolds, SerialInit, PTL DEF Spec

-----------------------------------------------------------------------------
\* No download is grabbed that may have come to an end before: none is grabbed
\* twice, or imported without a grab.
GrabbedOnce == MaxGrabs <= 1 /\ Foreign \cap Categorised = {}

Settled == {"Imported", "ImportFailed", "DownloadFailed", "Ignored"}

\* An end in the cache is the one in the history, and only of a grab.
Survival ==
  \A d \in Download : /\ Mode(d) \in Settled => StateFromHistory(history[d]) = Mode(d)
                      /\ history[d] \notin {"None", "Grabbed"} => Grabbed(d)

\* What the hub asks the client about was imported, or has failed.
CallsSettled ==
  \A o \in Obj : /\ marking[o] > 0  => history[object[o].download] = "Imported"
                 /\ removing[o] > 0 => history[object[o].download] \in {"Imported", "Failed"}

LEMMA SurvivalStep ==
  ASSUME SInv, Survival, GrabbedOnce, \A d \in Download : Moves(d)
  PROVE  Survival'
<1> SUFFICES ASSUME NEW d \in Download
             PROVE  /\ Mode(d)' \in Settled => StateFromHistory(history[d])' = Mode(d)'
                    /\ history'[d] \notin {"None", "Grabbed"} => Grabbed(d)'
  BY DEF Survival
<1>1. /\ Mode(d) \in Settled => StateFromHistory(history[d]) = Mode(d)
      /\ history[d] \notin {"None", "Grabbed"} => Grabbed(d)
      /\ Mode(d) = "ImportPending" => Grabbed(d)
      /\ grabs[d] \in Nat
  BY DEF SInv, Survival, CountsAgree, Allowance, Tables, Grabbed, GrabbedOnce
<1>2. Unmoved(d) => StateFromHistory(history[d])' = StateFromHistory(history[d])
                    /\ Grabbed(d)' = Grabbed(d) /\ history'[d] = history[d]
  BY DEF Unmoved, StateFromHistory, Grabbed
<1>3. CASE Stays(d) \/ Forgotten(d) \/ IsReady(d)
  BY <1>1, <1>2, <1>3 DEF Stays, Forgotten, IsReady, Settled
<1>4. CASE Anew(d)
  BY <1>1, <1>2, <1>4 DEF Anew, Settled
<1>5. CASE IsFailed(d)
  BY <1>5 DEF IsFailed, StateFromHistory, Grabbed
<1>6. CASE IsImported(d)
  <2>1. Grabbed(d)'
    BY <1>1, <1>6 DEF IsImported, Grabbed
  <2>2. QED
    BY <1>6, <2>1 DEF IsImported, StateFromHistory, Settled
<1>7. CASE IsGrabbed(d)
  <2>1. ~Grabbed(d)
    BY <1>1, <1>7, MaxGrabsAssumption DEF IsGrabbed, GrabbedOnce, Grabbed
  <2>2. StateFromHistory(history[d]) = "Downloading"
    BY <1>1, <2>1 DEF StateFromHistory
  <2>3. Mode(d) \notin Settled
    BY <1>1, <2>2 DEF Settled
  <2>4. QED
    BY <1>7, <2>3 DEF IsGrabbed
<1>8. \A e \in Download : Moves(e)
  OBVIOUS
<1>9. QED
  BY <1>3, <1>4, <1>5, <1>6, <1>7, <1>8 DEF Moves

\* Without overlapping work and a second grab, what the cache says of a
\* download that has come to an end is what a restart makes of its history:
\* each end is written to both in one step, and nothing opens it again.
THEOREM RestartAgrees ==
  ASSUME OneAtATime, GrabbedOnce
  PROVE  Spec => []CacheSurvivesRestart
<1>1. IInv /\ [Next]_vars => IInv'
  BY StepFacts DEF OneAtATime
<1>2. IInv /\ SInv /\ [Next]_vars => SInv'
  BY SerialStep
<1>3. IInv /\ SInv /\ Survival /\ [Next]_vars => Survival'
  BY StepMoves, SurvivalStep
<1>4. Init => Survival
  BY DEF Init, TrackInit, Survival, Mode, Settled
<1>5. Survival => CacheSurvivesRestart
  BY DEF Survival, CacheSurvivesRestart, Mode, Settled
<1>6. QED
  BY <1>1, <1>2, <1>3, <1>4, <1>5, InitHolds, SerialInit, PTL DEF Spec

-----------------------------------------------------------------------------
\* The history of a download stays as long as the hub awaits an answer of the
\* client about it.
LEMMA AnswerAwaited ==
  ASSUME IInv, SInv, TInv, CallsSettled, OneAtATime, [Next]_vars,
         NEW o \in Obj, marking[o] > 0 \/ removing[o] > 0
  PROVE  /\ object[o].download \in Download
         /\ object'[o].download = object[o].download
         /\ history'[object[o].download] = history[object[o].download]
<1>d. PICK d \in Download : d = object[o].download
  BY DEF IInv, Objects, Tracked
<1>1. marking[o] \in Nat /\ removing[o] \in Nat
  BY DEF TInv, Counts
<1>2. Referenced(o)
  BY <1>1 DEF Referenced
<1>3. object'[o].download = d
  BY <1>2, <1>d, StepFacts DEF Goes, OneAtATime
<1>4. history[d] \in {"Imported", "Failed"}
  BY <1>d DEF CallsSettled
<1>5. Mode(d) \notin Unsettled
  BY <1>4 DEF SInv, Agrees
<1>6. ~Answered(d)
  BY <1>1, <1>d DEF Answered
<1>7. Moves(d)
  BY StepMoves
<1>8. Unmoved(d)
  BY <1>5, <1>6, <1>7 DEF Moves, Stays, Forgotten, Anew, IsReady, IsFailed, IsImported,
     IsGrabbed, Unsettled
<1>9. QED
  BY <1>3, <1>8, <1>d DEF Unmoved

\* The calls a list makes are about what has failed or is imported.
LEMMA AdvanceCalls ==
  ASSUME IInv, TInv, NEW p \in Processor, NEW os \in SUBSET Obj, Advance(p, os),
         Objects', Survival', \A o \in Obj : Goes(o)
  PROVE  /\ marking' = marking
         /\ \A o \in Obj : removing'[o] > 0 =>
              removing[o] > 0 \/ history'[object'[o].download] \in {"Imported", "Failed"}
<1>1. PICK handled \in SUBSET os :
        /\ history' = Failed(handled)
        /\ \/ removing' = Calling(removing, {q \in Failing(handled) : Removable(object[q])})
           \/ removing' = Calling(removing, {q \in Failing(handled) : Removable(object[q])}
                                              \cup Finished(object'))
        /\ cache' = cache /\ marking' = marking
  BY DEF Advance
<1>2. \A o \in Obj : removing'[o] > 0 =>
        removing[o] > 0 \/ o \in Failing(handled) \/ o \in Finished(object')
  BY <1>1, CallingFacts DEF TInv, Counts
<1>3. ASSUME NEW o \in Obj, o \in Failing(handled) PROVE history'[object'[o].download] = "Failed"
  <2>1. object'[o].download = object[o].download /\ object[o].download \in Download
    BY DEF Goes, IInv, Objects, Tracked
  <2>2. QED
    BY <1>1, <1>3, <2>1 DEF Failed
<1>4. ASSUME NEW o \in Obj, o \in Finished(object') PROVE history'[object'[o].download] = "Imported"
  <2>1. o \in Cached /\ object'[o].state = "Imported"
    BY <1>4 DEF Finished
  <2>2. PICK d \in Download : cache'[d] = o
    BY <1>1, <2>1 DEF Cached
  <2>3. object'[o].download = d /\ Mode(d)' = "Imported"
    BY <2>1, <2>2, NoneAssumption DEF Objects, Mode
  <2>4. StateFromHistory(history[d])' = "Imported"
    BY <2>3 DEF Survival, Settled
  <2>5. history'[d] = "Imported"
    BY <2>4 DEF StateFromHistory
  <2>6. QED
    BY <2>3, <2>5
<1>5. QED
  BY <1>1, <1>2, <1>3, <1>4

\* A step makes a call about what was imported or has failed, after a mark
\* without a change of history.
NewCalls ==
  \A o \in Obj :
    /\ marking'[o] > 0 => \/ marking[o] > 0
                          \/ history'[object'[o].download] = "Imported"
    /\ removing'[o] > 0 => \/ marking[o] > 0 /\ history'[object[o].download] = history[object[o].download]
                           \/ removing[o] > 0
                           \/ history'[object'[o].download] \in {"Imported", "Failed"}

LEMMA CallsStep ==
  ASSUME IInv, SInv, TInv, Survival, CallsSettled, OneAtATime, GrabbedOnce, [Next]_vars
  PROVE  CallsSettled'
<1>1. IInv' /\ SInv' /\ Survival'
  BY StepFacts, SerialStep, StepMoves, SurvivalStep DEF OneAtATime
<1>2. Counts
  BY DEF TInv
<1>3. SUFFICES NewCalls
  BY AnswerAwaited DEF CallsSettled, NewCalls
<1>4. ASSUME UNCHANGED <<marking, removing>> PROVE NewCalls
  BY <1>4 DEF NewCalls
<1>5. ASSUME Restart PROVE NewCalls
  BY <1>5 DEF Restart, NewCalls
<1>6. ASSUME NEW o \in Obj, MarkResolves(o)
      PROVE  \A q \in Obj : /\ marking'[q] > 0 => marking[q] > 0
                            /\ removing'[q] > 0 => removing[q] > 0 \/ q = o
  <2>1. /\ marking' = [marking EXCEPT ![o] = @ - 1]
        /\ removing' = removing \/ removing' = Calling(removing, {o})
    BY <1>6 DEF MarkResolves
  <2>2. QED
    BY <2>1, <1>2, CallingFacts DEF Counts
<1>7. ASSUME NEW o \in Obj, RemoveResolves(o)
      PROVE  \A q \in Obj : /\ marking'[q] > 0 => marking[q] > 0
                            /\ removing'[q] > 0 => removing[q] > 0
  BY <1>7, <1>2 DEF RemoveResolves, Counts
<1>8. ASSUME HubStep PROVE NewCalls
  <2>1. \A o \in Obj : MarkResolves(o) => marking[o] > 0
    BY DEF MarkResolves
  <2>2. \A o \in Obj : MarkResolves(o) => history' = history
    BY DEF MarkResolves, trackVars
  <2>3. QED
    BY <1>6, <1>7, <1>8, <2>1, <2>2 DEF HubStep, NewCalls
<1>9. ASSUME NEW p \in Processor, NEW os \in SUBSET Obj, Advance(p, os)
      PROVE  /\ marking' = marking
             /\ \A o \in Obj : removing'[o] > 0 =>
                  removing[o] > 0 \/ history'[object'[o].download] \in {"Imported", "Failed"}
  <2>1. \A o \in Obj : Goes(o)
    BY <1>9, AdvanceFacts
  <2>2. QED
    BY <1>1, <1>9, <2>1, AdvanceCalls DEF IInv
<1>10. ASSUME NEW p \in Processor, ImportSucceeds(p)
       PROVE  /\ removing' = removing
              /\ \A o \in Obj : marking'[o] > 0 =>
                   marking[o] > 0 \/ history'[object'[o].download] = "Imported"
  <2>1. PICK o \in Obj : o = importing[p]
    BY <1>10 DEF ImportSucceeds, IInv, ImportInHand
  <2>2. PICK d \in Download : d = object[o].download
    BY DEF IInv, Objects, Tracked
  <2>3. /\ marking' = Calling(marking, {o}) /\ removing' = removing
        /\ history' = [history EXCEPT ![d] = "Imported"]
    BY <1>10, <2>1, <2>2 DEF ImportSucceeds, Settles
  <2>4. history'[d] = "Imported"
    BY <2>3 DEF SInv, Tables
  <2>5. object'[o].download = d
    <3>1. Goes(o)
      BY <1>10, ProcessFacts DEF ProcessStep, OneAtATime
    <3>2. QED
      BY <2>2, <3>1 DEF Goes
  <2>6. \A q \in Obj : marking'[q] > 0 => marking[q] > 0 \/ q = o
    BY <2>3, <1>2, CallingFacts DEF Counts
  <2>7. QED
    BY <2>3, <2>4, <2>5, <2>6
<1>11. ASSUME NEW p \in Processor, ProcessStep(p) PROVE NewCalls
  <2>1. CASE Process(p) \/ ProcessNext(p)
    <3>1. PICK os \in SUBSET Obj : Advance(p, os)
      BY <2>1 DEF Process, ProcessNext, Cached, IInv, ProcessTypes
    <3>2. QED
      BY <3>1, <1>9 DEF NewCalls
  <2>2. CASE ImportSucceeds(p)
    BY <2>2, <1>10 DEF NewCalls
  <2>3. CASE ImportIncomplete(p) \/ ImportFindsNothing(p) \/ ImportFails(p)
    <3>1. UNCHANGED <<marking, removing>>
      BY <2>3 DEF ImportIncomplete, ImportFindsNothing, ImportFails, Settles
    <3>2. QED
      BY <3>1, <1>4
  <2>4. \/ Process(p) \/ ProcessNext(p)
        \/ ImportSucceeds(p)
        \/ ImportIncomplete(p) \/ ImportFindsNothing(p) \/ ImportFails(p)
    BY <1>11 DEF ProcessStep
  <2>5. QED
    BY <2>1, <2>2, <2>3, <2>4
<1>12. ASSUME ClientStep \/ \E r \in Refresher : RefreshStep(r) PROVE NewCalls
  <2>1. UNCHANGED <<marking, removing>>
    BY <1>12, RefreshLeaves DEF ClientStep, hubVars
  <2>2. QED
    BY <2>1, <1>4
<1>13. ~UserStep
  BY DEF OneAtATime, UserStep
<1>14. QED
  BY <1>4, <1>5, <1>8, <1>11, <1>12, <1>13 DEF Next, vars, hubVars

-----------------------------------------------------------------------------
(* Every step is one of DownloadLife, or a stutter.                        *)

Present == {d \in Download : client[d] # "Absent"}

LifeStep == [Life!Next]_<<history, Present>>

LEMMA StutterStep ==
  ASSUME UNCHANGED history, \A d \in Download : client'[d] = client[d]
  PROVE  LifeStep
BY DEF LifeStep, Present

\* An import ends what was open.
LEMMA ImportIsOpen ==
  ASSUME SInv, NEW d \in Download, Mode(d) = "ImportPending"
  PROVE  Life!Open(d)
BY DEF SInv, Agrees, Expected, Known, Unsettled, Life!Open

LEMMA GrabIsGrab ==
  ASSUME IInv, NEW d \in Download, Grab(d)
  PROVE  LifeStep
<1>1. d \notin Present /\ Present' = Present \cup {d}
  BY DEF Grab, Present, IInv, Listing
<1>2. Life!Grab(d)
  BY <1>1 DEF Grab, Life!Grab, Present
<1>3. QED
  BY <1>2 DEF LifeStep, Life!Next, Present

LEMMA ProgressIsStutter ==
  ASSUME IInv, NEW d \in Download, Progress(d)
  PROVE  LifeStep
<1>1. Present' = Present /\ history' = history
  BY DEF Progress, Present, IInv, Listing, Item
<1>2. QED
  BY <1>1 DEF LifeStep

\* All that has failed fails at once.
LEMMA AdvanceIsFail ==
  ASSUME IInv, SInv, NEW p \in Processor, NEW os, Advance(p, os),
         \A d \in Download : Stays(d) \/ IsFailed(d), history' \in [Download -> Event]
  PROVE  LifeStep
<1> DEFINE ds == {d \in Download : history'[d] # history[d]}
<1>1. client' = client
  BY DEF Advance
<1>2. \A d \in ds : history[d] = "Grabbed" /\ history'[d] = "Failed"
  <2> SUFFICES ASSUME NEW d \in Download, history'[d] # history[d]
               PROVE  history[d] = "Grabbed" /\ history'[d] = "Failed"
    OBVIOUS
  <2>1. IsFailed(d)
    BY DEF Stays, Unmoved
  <2>2. QED
    BY <2>1 DEF IsFailed, SInv, Agrees, Unsettled
<1>3. history' = [d \in Download |-> IF d \in ds THEN "Failed" ELSE history[d]]
  BY <1>2
<1>4. Life!Fail(ds)
  BY <1>1, <1>2, <1>3 DEF Life!Fail
<1>5. QED
  BY <1>4 DEF LifeStep, Life!Next, Present

LEMMA ImportIsFinish ==
  ASSUME IInv, SInv, OneAtATime, NEW p \in Processor,
         ImportSucceeds(p) \/ ImportIncomplete(p) \/ ImportFindsNothing(p) \/ ImportFails(p)
  PROVE  LifeStep
<1>1. client' = client
  BY DEF ImportSucceeds, ImportIncomplete, ImportFindsNothing, ImportFails, Settles
<1>2. PICK o \in Obj : o = importing[p] /\ object[o].state = "ImportPending"
  BY DEF ImportSucceeds, ImportIncomplete, ImportFindsNothing, ImportFails, IInv, ImportInHand
<1>3. PICK d \in Download : d = object[o].download /\ cache[d] = o
  BY <1>2, CachedStandsFor DEF SInv, InHand, IInv
<1>4. Life!Open(d)
  BY <1>2, <1>3, ImportIsOpen, NoneAssumption DEF Mode
<1>5. CASE history' = history
  BY <1>1, <1>5, StutterStep
<1>6. CASE history' = [history EXCEPT ![d] = "Imported"] \/ history' = [history EXCEPT ![d] = "Incomplete"]
  <2>1. Life!Finish(d, "Imported") \/ Life!Finish(d, "Incomplete")
    BY <1>1, <1>4, <1>6 DEF Life!Finish
  <2>2. QED
    BY <2>1 DEF LifeStep, Life!Next, Present
<1>7. QED
  BY <1>2, <1>3, <1>5, <1>6 DEF ImportSucceeds, ImportIncomplete, ImportFindsNothing, ImportFails

\* The hub removes what has ended well or failed.
LEMMA RemoveIsRemove ==
  ASSUME IInv, TInv, CallsSettled, NEW o \in Obj, RemoveResolves(o)
  PROVE  LifeStep
<1>1. PICK d \in Download : d = object[o].download
  BY DEF IInv, Objects, Tracked
<1>2. history' = history /\ history[d] \in {"Imported", "Failed"}
  BY <1>1 DEF RemoveResolves, CallsSettled
<1>3. CASE client' = client
  BY <1>2, <1>3, StutterStep
<1>4. CASE client' = [client EXCEPT ![d] = "Absent"]
  <2>1. Present' = Present \ {d}
    BY <1>4 DEF Present, IInv, Listing
  <2>2. CASE d \in Present
    <3>1. Life!Remove(d)
      BY <1>2, <2>1, <2>2 DEF Life!Remove, Present
    <3>2. QED
      BY <3>1 DEF LifeStep, Life!Next, Present
  <2>3. CASE d \notin Present
    BY <1>2, <2>1, <2>3 DEF LifeStep
  <2>4. QED
    BY <2>2, <2>3
<1>5. QED
  BY <1>1, <1>3, <1>4 DEF RemoveResolves

LEMMA StepIsLifeStep ==
  ASSUME IInv, SInv, TInv, CallsSettled, OneAtATime, [Next]_vars
  PROVE  LifeStep
<1>1. CASE UNCHANGED vars
  BY <1>1, StutterStep DEF vars, trackVars
<1>2. CASE ClientStep
  BY <1>2, GrabIsGrab, ProgressIsStutter DEF ClientStep
<1>3. CASE \E r \in Refresher : RefreshStep(r)
  <2>1. history' = history /\ client' = client
    BY <1>3, RefreshLeaves
  <2>2. QED
    BY <2>1, StutterStep
<1>4. ASSUME NEW p \in Processor, ProcessStep(p) PROVE LifeStep
  <2>1. CASE Process(p) \/ ProcessNext(p)
    <3>1. PICK os \in SUBSET Obj : Advance(p, os)
      BY <2>1 DEF Process, ProcessNext, Cached, IInv, ProcessTypes
    <3>2. Tables'
      BY TablesStep DEF SInv
    <3>3. \A d \in Download : Stays(d) \/ IsFailed(d)
      BY <2>1, ListMoves
    <3>4. QED
      BY <3>1, <3>2, <3>3, AdvanceIsFail DEF Tables
  <2>2. CASE ImportSucceeds(p) \/ ImportIncomplete(p) \/ ImportFindsNothing(p) \/ ImportFails(p)
    BY <2>2, ImportIsFinish
  <2>3. QED
    BY <1>4, <2>1, <2>2 DEF ProcessStep
<1>5. CASE HubStep
  <2>1. \A o \in Obj : MarkResolves(o) => history' = history /\ client' = client
    BY DEF MarkResolves, trackVars
  <2>2. QED
    BY <1>5, <2>1, StutterStep, RemoveIsRemove DEF HubStep
<1>6. CASE Restart
  BY <1>6, StutterStep DEF Restart
<1>7. ~UserStep
  BY DEF OneAtATime, UserStep
<1>8. QED
  BY <1>1, <1>2, <1>3, <1>4, <1>5, <1>6, <1>7 DEF Next

\* Without overlapping work and a second grab, download tracking implements
\* the life of a download: a grab ends once, and only what was imported or has
\* failed leaves the client, because the client answers what the hub has asked
\* about a download before it is sent a new release of that name.
THEOREM LifeImplemented ==
  ASSUME OneAtATime, GrabbedOnce
  PROVE  Spec => ImplementsLife
<1>1. IInv /\ [Next]_vars => IInv'
  BY StepFacts DEF OneAtATime
<1>2. IInv /\ SInv /\ [Next]_vars => SInv'
  BY SerialStep
<1>3. IInv /\ TInv /\ [Next]_vars => TInv'
  BY TrackedStep DEF OneAtATime
<1>4. IInv /\ SInv /\ Survival /\ [Next]_vars => Survival'
  BY StepMoves, SurvivalStep
<1>5. IInv /\ SInv /\ TInv /\ Survival /\ CallsSettled /\ [Next]_vars => CallsSettled'
  BY CallsStep
<1>6. Init => TInv /\ Survival /\ CallsSettled
  <2>1. Init => TInv
    BY DEF Init, Nothing, TInv, Counts, BusyIsTracked, LeftIsTracked, Busy
  <2>2. Init => Survival /\ CallsSettled
    BY DEF Init, TrackInit, Survival, Mode, Settled, CallsSettled
  <2>3. QED
    BY <2>1, <2>2
<1>7. Init => Life!Init
  BY DEF Init, TrackInit, Life!Init
<1>8. IInv /\ SInv /\ TInv /\ CallsSettled /\ [Next]_vars
        => [Life!Next]_<<history, {d \in Download : client[d] # "Absent"}>>
  BY StepIsLifeStep DEF LifeStep, Present
<1>9. QED
  BY <1>1, <1>2, <1>3, <1>4, <1>5, <1>6, <1>7, <1>8, InitHolds, SerialInit, PTL
     DEF Spec, ImplementsLife, Life!Spec

-----------------------------------------------------------------------------
(* Types, whatever overlaps: several processing commands and deletions too. *)

\* What a task awaits is an object as long as it does.
Awaiting ==
  /\ \A r \in Refresher : rpc[r] = "checking" => checking[r] \in Obj
  /\ \A p \in Processor : ppc[p] = "importing" => importing[p] \in Obj

Typed == TypeOK /\ Awaiting

LEMMA FaultType ==
  ASSUME faults \in 0..MaxFaults, Fault
  PROVE  faults' \in 0..MaxFaults
BY BoundAssumption DEF Fault

\* What the steps write into an object.
LEMMA FieldsTyped ==
  ASSUME NEW x \in Tracked
  PROVE  /\ [x EXCEPT !.removed = TRUE] \in Tracked
         /\ \A state \in State :
              /\ [x EXCEPT !.state = state] \in Tracked
              /\ \A b \in BOOLEAN : [x EXCEPT !.state = state, !.warned = b] \in Tracked
BY DEF Tracked

LEMMA UntrackedType ==
  ASSUME object \in [Obj -> Tracked], NEW ids
  PROVE  Untracked(ids) \in [Obj -> Tracked]
<1>1. \A o \in Obj : [object[o] EXCEPT !.isTrackable = FALSE] \in Tracked
  BY DEF Tracked
<1>2. QED
  BY <1>1 DEF Untracked

LEMMA AfterFailingType ==
  ASSUME object \in [Obj -> Tracked], NEW os
  PROVE  AfterFailing(os) \in [Obj -> Tracked]
<1>1. "DownloadFailed" \in State
  BY DEF State
<1>2. \A o \in Obj : [object[o] EXCEPT !.state = "DownloadFailed"] \in Tracked
  BY <1>1, FieldsTyped
<1>3. QED
  BY <1>2 DEF AfterFailing

LEMMA ObjectWritten ==
  ASSUME NEW obj \in [Obj -> Tracked], NEW o \in Obj, NEW x \in Tracked
  PROVE  [obj EXCEPT ![o] = x] \in [Obj -> Tracked]
OBVIOUS

LEMMA ShownType ==
  ASSUME NEW os \in SUBSET Obj, NEW obj \in [Obj -> Tracked]
  PROVE  Shown(os, obj) \subseteq Download
BY DEF Shown, Tracked

LEMMA ShownOfCacheType ==
  ASSUME NEW c, NEW obj \in [Obj -> Tracked]
  PROVE  ShownOfCache(c, obj) \subseteq Download
<1>1. {o \in Obj : (\E d \in Download : c[d] = o) /\ Trackable(obj[o])} \in SUBSET Obj
  OBVIOUS
<1>2. QED
  BY <1>1, ShownType DEF ShownOfCache

\* The number of calls to the client stays within its bound.
LEMMA CallingType ==
  ASSUME NEW calls \in [Obj -> 0..MaxCalls], NEW os, InBound(Calling(calls, os))
  PROVE  Calling(calls, os) \in [Obj -> 0..MaxCalls]
BY DEF Calling, InBound

LEMMA SpareType ==
  ASSUME TypeOK, NEW d \in Download, NEW spare \in Spare(d)
  PROVE  Target(d, spare) \in Obj
<1>1. CASE Keeps(d)
  BY <1>1 DEF Target, Keeps, TypeOK, TrackTypeOK
<1>2. CASE ~Keeps(d)
  BY <1>2 DEF Target, Spare, Unreferenced
<1>3. QED
  BY <1>1, <1>2

LEMMA TrackedAsTyped ==
  ASSUME TypeOK, NEW d \in Download, NEW item \in Item
  PROVE  TrackedAs(d, item) \in Tracked
<1>1. StateFromHistory(history[d]) \in State
  BY DEF StateFromHistory, State
<1>2. ASSUME Keeps(d) PROVE object[cache[d]].state \in State /\ object[cache[d]].warned \in BOOLEAN
  <2>1. cache[d] \in Obj /\ object \in [Obj -> Tracked]
    BY <1>2 DEF Keeps, TypeOK, TrackTypeOK
  <2>2. object[cache[d]] \in Tracked
    BY <2>1
  <2>3. QED
    BY <2>2 DEF Tracked
<1>3. (Keeps(d) /\ object[cache[d]].warned) \in BOOLEAN
  BY <1>2, Zenon
<1>4. (IF Keeps(d) THEN object[cache[d]].state ELSE StateFromHistory(history[d])) \in State
  BY <1>1, <1>2
<1>5. QED
  BY <1>3, <1>4 DEF TrackedAs, Tracked

LEMMA RefreshTyped ==
  ASSUME Typed, NEW r \in Refresher, RefreshStep(r)
  PROVE  Typed'
<1> USE DEF Typed, TypeOK, TrackTypeOK, Awaiting
<1>1. CASE Refresh(r)
  BY <1>1 DEF Refresh, trackVars, processVars, hubVars
<1>2. CASE GetItems(r)
  BY <1>2, FaultType DEF GetItems, trackVars, processVars, hubVars, Nothing
<1>3. CASE CheckResolves(r)
  <2> DEFINE o == checking[r]
  <2>1. o \in Obj /\ CompletedCheck(object[o]) \in Tracked
    BY <1>3, CompletedCheckFacts DEF CheckResolves
  <2>2. object' \in [Obj -> Tracked] /\ found' \in [Refresher -> SUBSET Obj] /\ faults' \in 0..MaxFaults
    <3>1. CASE object' = [object EXCEPT ![o] = CompletedCheck(@)]
               /\ found' = [found EXCEPT ![r] = @ \cup {o}] /\ UNCHANGED faults
      BY <2>1, <3>1
    <3>2. CASE Fault /\ UNCHANGED <<object, found>>
      BY <3>2, FaultType
    <3>3. CASE /\ Fault
               /\ object' = [object EXCEPT ![o].warned = @ \/ object[o].state = "Downloading"]
               /\ found'  = [found EXCEPT ![r] = @ \cup {o}]
      <4>1. PICK w \in BOOLEAN : w = (object[o].warned \/ object[o].state = "Downloading")
        BY Zenon
      <4>2. object' = [object EXCEPT ![o].warned = w]
        BY <2>1, <3>3, <4>1
      <4>3. object' \in [Obj -> Tracked]
        BY <2>1, <4>2 DEF Tracked
      <4>4. QED
        BY <2>1, <3>3, <4>3, FaultType
    <3>4. QED
      BY <1>3, <3>1, <3>2, <3>3 DEF CheckResolves
  <2>3. QED
    BY <1>3, <2>2 DEF CheckResolves, processVars, hubVars
<1>4. CASE EndRefresh(r)
  <2>1. PICK ids : object' = Untracked(ids)
    BY <1>4, Zenon DEF EndRefresh
  <2>2. object' \in [Obj -> Tracked]
    BY <2>1, UntrackedType
  <2>3. queue' \subseteq Download
    BY <1>4, <2>2, ShownType DEF EndRefresh
  <2>4. QED
    BY <1>4, <2>2, <2>3 DEF EndRefresh, processVars, hubVars
<1>5. ASSUME NEW d \in Download, NEW spare \in Spare(d), ProcessClientItem(r, d, spare)
      PROVE  Typed'
  <2>1. PICK o \in Obj : o = Target(d, spare)
    BY SpareType
  <2>2. snapshot[r][d] \in Item
    BY <1>5 DEF ProcessClientItem
  <2>3. PICK x \in Tracked : /\ x = TrackedAs(d, snapshot[r][d])
    BY <2>2, TrackedAsTyped
  <2>4. FailedCheck(x) \in Tracked
    BY FailedCheckFacts
  <2>5. /\ snapshot' = [snapshot EXCEPT ![r][d] = "Absent"]
        /\ object' = [object EXCEPT ![o] = x] \/ object' = [object EXCEPT ![o] = FailedCheck(x)]
        /\ cache'  = [cache EXCEPT ![d] = o]
        /\ \/ /\ checking' = [checking EXCEPT ![r] = o]
              /\ rpc'      = [rpc EXCEPT ![r] = "checking"]
              /\ UNCHANGED found
           \/ /\ found' = [found EXCEPT ![r] = @ \cup {o}]
              /\ UNCHANGED <<checking, rpc>>
        /\ UNCHANGED <<history, grabs, completed, client, queue, processVars, due,
                       hubVars, deleting, faults, restarts>>
    BY <1>5, <2>1, <2>3 DEF ProcessClientItem
  <2>6. object' \in [Obj -> Tracked] /\ cache' \in [Download -> Obj \cup {None}]
    <3>1. PICK y \in Tracked : object' = [object EXCEPT ![o] = y]
      BY <2>4, <2>5
    <3>2. object' \in [Obj -> Tracked]
      BY <3>1, ObjectWritten
    <3>3. cache' \in [Download -> Obj \cup {None}]
      BY <2>5
    <3>4. QED
      BY <3>2, <3>3
  <2>7. snapshot' \in [Refresher -> [Download -> Item \cup {"Absent"}]]
    BY <2>5
  <2>8. TrackTypeOK'
    BY <2>5, <2>6
  <2>9. /\ rpc' \in [Refresher -> {"idle", "fetching", "items", "checking"}]
        /\ found' \in [Refresher -> SUBSET Obj]
        /\ checking' \in [Refresher -> Obj \cup {None}]
        /\ \A v \in Refresher : rpc'[v] = "checking" => checking'[v] \in Obj
    <3>1. CASE /\ checking' = [checking EXCEPT ![r] = o]
               /\ rpc'      = [rpc EXCEPT ![r] = "checking"]
               /\ UNCHANGED found
      BY <3>1
    <3>2. CASE /\ found' = [found EXCEPT ![r] = @ \cup {o}]
               /\ UNCHANGED <<checking, rpc>>
      BY <3>2
    <3>3. QED
      BY <2>5, <3>1, <3>2
  <2>10. UNCHANGED <<processVars, due, hubVars, deleting, faults, restarts>>
    BY <2>5
  <2>11. QED
    BY <2>7, <2>8, <2>9, <2>10 DEF processVars, hubVars
<1>6. QED
  BY <1>1, <1>2, <1>3, <1>4, <1>5 DEF RefreshStep

LEMMA AdvanceTyped ==
  ASSUME Typed, NEW p \in Processor, NEW os \in SUBSET Obj, Advance(p, os), due' \in BOOLEAN
  PROVE  Typed'
<1> USE DEF Typed, TypeOK, TrackTypeOK, Awaiting
<1>1. PICK handled \in SUBSET os :
        /\ object'  = AfterFailing(handled)
        /\ history' = Failed(handled)
        /\ \/ /\ \E o \in os \ handled :
                   /\ importing' = [importing EXCEPT ![p] = o]
                   /\ todo'      = [todo EXCEPT ![p] = os \ (handled \cup {o})]
                   /\ ppc'       = [ppc EXCEPT ![p] = "importing"]
              /\ removing'  = Calling(removing, {q \in Failing(handled) : Removable(object[q])})
              /\ UNCHANGED queue
           \/ /\ importing' = [importing EXCEPT ![p] = None]
              /\ todo'      = [todo EXCEPT ![p] = {}]
              /\ ppc'       = [ppc EXCEPT ![p] = "idle"]
              /\ removing'  = Calling(removing, {q \in Failing(handled) : Removable(object[q])}
                                                  \cup Finished(object'))
              /\ queue'     = ShownOfCache(cache, object')
        /\ InBound(removing')
        /\ UNCHANGED <<cache, grabs, completed, client, refreshVars, marking, deleting,
                       faults, restarts>>
  BY DEF Advance
<1>2. object' \in [Obj -> Tracked]
  BY <1>1, AfterFailingType
<1>3. history' \in [Download -> Event]
  BY <1>1 DEF Failed, Event
<1>4. removing' \in [Obj -> 0..MaxCalls]
  BY <1>1, CallingType
<1>5. queue' \subseteq Download
  BY <1>1, <1>2, ShownOfCacheType
<1>6. /\ ppc' \in [Processor -> {"idle", "importing", "resumed"}]
      /\ todo' \in [Processor -> SUBSET Obj]
      /\ importing' \in [Processor -> Obj \cup {None}]
      /\ \A q \in Processor : ppc'[q] = "importing" => importing'[q] \in Obj
  <2>1. PICK o \in Obj \cup {None}, rest \in SUBSET Obj, at \in {"idle", "importing"} :
          /\ importing' = [importing EXCEPT ![p] = o] /\ todo' = [todo EXCEPT ![p] = rest]
          /\ ppc' = [ppc EXCEPT ![p] = at]
          /\ at = "importing" => o \in Obj
    <3>1. CASE \E o \in os \ handled :
                 /\ importing' = [importing EXCEPT ![p] = o]
                 /\ todo'      = [todo EXCEPT ![p] = os \ (handled \cup {o})]
                 /\ ppc'       = [ppc EXCEPT ![p] = "importing"]
      <4>1. PICK o \in os \ handled :
                 /\ importing' = [importing EXCEPT ![p] = o]
                 /\ todo'      = [todo EXCEPT ![p] = os \ (handled \cup {o})]
                 /\ ppc'       = [ppc EXCEPT ![p] = "importing"]
        BY <3>1
      <4>2. o \in Obj /\ os \ (handled \cup {o}) \in SUBSET Obj
        OBVIOUS
      <4>3. QED
        BY <4>1, <4>2
    <3>2. CASE /\ importing' = [importing EXCEPT ![p] = None]
               /\ todo'      = [todo EXCEPT ![p] = {}]
               /\ ppc'       = [ppc EXCEPT ![p] = "idle"]
      BY <3>2
    <3>3. QED
      BY <1>1, <3>1, <3>2
  <2>2. /\ ppc' \in [Processor -> {"idle", "importing", "resumed"}]
        /\ todo' \in [Processor -> SUBSET Obj]
    BY <2>1
  <2>3. importing' \in [Processor -> Obj \cup {None}]
    BY <2>1
  <2>4. ASSUME NEW q \in Processor, ppc'[q] = "importing" PROVE importing'[q] \in Obj
    <3>1. CASE q = p
      BY <2>1, <2>4, <3>1
    <3>2. CASE q # p
      BY <2>1, <2>4, <3>2
    <3>3. QED
      BY <3>1, <3>2
  <2>5. QED
    BY <2>2, <2>3, <2>4
<1>7. QED
  BY <1>1, <1>2, <1>3, <1>4, <1>5, <1>6 DEF refreshVars

LEMMA SettlesTyped ==
  ASSUME Typed, NEW p \in Processor, ppc[p] = "importing",
         NEW state \in State, NEW warned \in BOOLEAN, Settles(p, importing[p], state, warned),
         history' \in [Download -> Event], completed' \in [Download -> Nat],
         marking' \in [Obj -> 0..MaxCalls], faults' \in 0..MaxFaults
  PROVE  Typed'
<1> USE DEF Typed, TypeOK, TrackTypeOK, Awaiting
<1>1. PICK o \in Obj : o = importing[p]
  OBVIOUS
<1>2. PICK w \in BOOLEAN : w = (object[o].warned \/ warned)
  BY Zenon
<1>3. object' = [object EXCEPT ![o].state = state, ![o].warned = w]
  BY <1>1, <1>2 DEF Settles
<1>4. object' \in [Obj -> Tracked]
  <2>1. PICK x \in Tracked : x = [object[o] EXCEPT !.state = state, !.warned = w]
    BY FieldsTyped
  <2>2. object' = [object EXCEPT ![o] = x]
    BY <1>3, <2>1
  <2>3. QED
    BY <2>2, ObjectWritten
<1>5. QED
  BY <1>4 DEF Settles, refreshVars

LEMMA ProcessTyped ==
  ASSUME Typed, NEW p \in Processor, ProcessStep(p)
  PROVE  Typed'
<1>t. TypeOK /\ Awaiting
  BY DEF Typed
<1>1. CASE Process(p)
  <2>1. {o \in Cached : object[o].isTrackable} \in SUBSET Obj
    BY DEF Cached
  <2>2. QED
    BY <1>1, <2>1, AdvanceTyped DEF Process
<1>2. CASE ProcessNext(p)
  BY <1>2, <1>t, AdvanceTyped DEF ProcessNext, TypeOK
<1>3. CASE ImportSucceeds(p)
  <2>1. PICK o \in Obj : o = importing[p]
    BY <1>3, <1>t DEF ImportSucceeds, Awaiting
  <2>2. PICK d \in Download : d = object[o].download
    BY <1>t DEF TypeOK, TrackTypeOK, Tracked
  <2>3. /\ history'   = [history EXCEPT ![d] = "Imported"]
        /\ completed' = [completed EXCEPT ![d] = @ + 1]
        /\ marking'   = Calling(marking, {o}) /\ InBound(Calling(marking, {o}))
        /\ faults' = faults
    BY <1>3, <2>1, <2>2 DEF ImportSucceeds
  <2>4. marking' \in [Obj -> 0..MaxCalls]
    BY <1>t, <2>3, CallingType DEF TypeOK
  <2>5. history' \in [Download -> Event] /\ completed' \in [Download -> Nat]
    BY <1>t, <2>3 DEF TypeOK, TrackTypeOK, Event
  <2>6. ppc[p] = "importing" /\ Settles(p, importing[p], "Imported", FALSE) /\ "Imported" \in State
    BY <1>3 DEF ImportSucceeds, State
  <2>7. faults' \in 0..MaxFaults
    BY <1>t, <2>3 DEF TypeOK
  <2>8. QED
    BY <2>4, <2>5, <2>6, <2>7, SettlesTyped
<1>4. CASE ImportIncomplete(p)
  <2>1. ppc[p] = "importing" /\ Settles(p, importing[p], "ImportFailed", TRUE) /\ "ImportFailed" \in State
    BY <1>4 DEF ImportIncomplete, State
  <2>2. history' \in [Download -> Event]
    BY <1>4, <1>t DEF ImportIncomplete, TypeOK, TrackTypeOK, Event
  <2>3. UNCHANGED <<completed, marking, faults>>
    BY <1>4 DEF ImportIncomplete
  <2>4. QED
    BY <1>t, <2>1, <2>2, <2>3, SettlesTyped DEF TypeOK, TrackTypeOK
<1>5. CASE ImportFindsNothing(p)
  <2>1. PICK state \in {object[importing[p]].state, "ImportPending"}, warned \in BOOLEAN :
          Settles(p, importing[p], state, warned)
    BY <1>5 DEF ImportFindsNothing
  <2>2. ppc[p] = "importing" /\ UNCHANGED <<history, completed, marking>> /\ Fault
    BY <1>5 DEF ImportFindsNothing
  <2>3. state \in State
    BY <1>t, <2>1, <2>2 DEF TypeOK, TrackTypeOK, Tracked, Awaiting, State
  <2>4. faults' \in 0..MaxFaults
    BY <1>t, <2>2, FaultType DEF TypeOK
  <2>5. QED
    BY <1>t, <2>1, <2>2, <2>3, <2>4, SettlesTyped DEF TypeOK, TrackTypeOK
<1>6. CASE ImportFails(p)
  <2>1. ppc[p] = "importing" /\ Settles(p, importing[p], "Importing", FALSE) /\ "Importing" \in State
    BY <1>6 DEF ImportFails, State
  <2>2. UNCHANGED <<history, completed, marking, faults>>
    BY <1>6 DEF ImportFails
  <2>3. QED
    BY <1>t, <2>1, <2>2, SettlesTyped DEF TypeOK, TrackTypeOK
<1>7. QED
  BY <1>1, <1>2, <1>3, <1>4, <1>5, <1>6 DEF ProcessStep

LEMMA HubTyped ==
  ASSUME Typed, NEW o \in Obj, MarkResolves(o) \/ RemoveResolves(o)
  PROVE  Typed'
<1> USE DEF Typed, TypeOK, TrackTypeOK, Awaiting
<1>r. PICK x \in Tracked : x = [object[o] EXCEPT !.removed = TRUE]
  <2>1. object[o] \in Tracked
    OBVIOUS
  <2>2. QED
    BY <2>1, FieldsTyped
<1>1. CASE MarkResolves(o)
  <2>1. marking' \in [Obj -> 0..MaxCalls]
    BY <1>1, BoundAssumption DEF MarkResolves
  <2>2. removing' \in [Obj -> 0..MaxCalls]
    BY <1>1, CallingType DEF MarkResolves
  <2>3. QED
    BY <1>1, <2>1, <2>2 DEF MarkResolves, trackVars, refreshVars, processVars
<1>2. CASE RemoveResolves(o)
  <2>1. removing' \in [Obj -> 0..MaxCalls]
    BY <1>2, BoundAssumption DEF RemoveResolves
  <2>2. /\ client' \in [Download -> Item \cup {"Absent"}]
        /\ object' \in [Obj -> Tracked] /\ faults' \in 0..MaxFaults
    <3>1. CASE /\ client' = [client EXCEPT ![object[o].download] = "Absent"]
               /\ object' = [object EXCEPT ![o].removed = TRUE] /\ UNCHANGED faults
      <4>1. object' = [object EXCEPT ![o] = x]
        BY <1>r, <3>1
      <4>2. object' \in [Obj -> Tracked]
        BY <4>1, ObjectWritten
      <4>3. client' \in [Download -> Item \cup {"Absent"}]
        BY <3>1
      <4>4. QED
        BY <3>1, <4>2, <4>3
    <3>2. CASE Fault /\ UNCHANGED <<client, object>>
      BY <3>2, FaultType
    <3>3. QED
      BY <1>2, <3>1, <3>2 DEF RemoveResolves
  <2>3. QED
    BY <1>2, <2>1, <2>2 DEF RemoveResolves, refreshVars, processVars
<1>3. QED
  BY <1>1, <1>2

LEMMA FinishDeleteTyped ==
  ASSUME Typed, NEW o \in Obj, NEW options \in Options, FinishDelete(o, options), UNCHANGED object,
         client' \in [Download -> Item \cup {"Absent"}], faults' = faults,
         deleting' \in [User -> [object : Obj, options : Options] \cup {None, Spent}]
  PROVE  Typed'
<1> USE DEF Typed, TypeOK, TrackTypeOK, Awaiting
<1>1. PICK d \in Download : d = object[o].download
  BY DEF Tracked
<1>2. history' \in [Download -> Event]
  BY <1>1 DEF FinishDelete, Event
<1>3. removing' \in [Obj -> 0..MaxCalls]
  BY CallingType DEF FinishDelete
<1>4. cache' = [cache EXCEPT ![d] = None] /\ queue' = ShownOfCache(cache', object)
  BY <1>1 DEF FinishDelete, StopTracking
<1>5. queue' \subseteq Download
  BY <1>4, ShownOfCacheType
<1>6. QED
  BY <1>2, <1>3, <1>4, <1>5 DEF FinishDelete, refreshVars, processVars

LEMMA UserTyped ==
  ASSUME Typed, UserStep
  PROVE  Typed'
<1>t. TypeOK /\ Awaiting
  BY DEF Typed
<1>0. Ignoring \in Options /\ Spent = Spent
  BY DEF Ignoring, Options
<1>1. ASSUME NEW u \in User, NEW d \in Download, NEW options \in Options, Delete(u, d, options)
      PROVE  Typed'
  <2>1. cache[d] \in Obj
    BY <1>1, <1>t DEF Delete, TypeOK, TrackTypeOK
  <2>2. CASE options.remove \/ options.category
    <3>1. /\ deleting' = [deleting EXCEPT ![u] = [object |-> cache[d], options |-> options]]
          /\ UNCHANGED <<trackVars, refreshVars, processVars, due, hubVars, faults, restarts>>
      BY <1>1, <2>2 DEF Delete
    <3>2. [object |-> cache[d], options |-> options] \in [object : Obj, options : Options]
      BY <2>1
    <3>3. deleting' \in [User -> [object : Obj, options : Options] \cup {None, Spent}]
      BY <1>t, <3>1, <3>2 DEF TypeOK
    <3>4. QED
      BY <1>t, <3>1, <3>3
         DEF Typed, TypeOK, TrackTypeOK, Awaiting, trackVars, refreshVars, processVars, hubVars
  <2>3. CASE ~(options.remove \/ options.category)
    <3>1. /\ deleting' = [deleting EXCEPT ![u] = Spent]
          /\ UNCHANGED <<object, client, faults>> /\ FinishDelete(cache[d], options)
      BY <1>1, <2>3 DEF Delete
    <3>2. deleting' \in [User -> [object : Obj, options : Options] \cup {None, Spent}]
      BY <1>t, <3>1 DEF TypeOK
    <3>3. QED
      BY <1>t, <2>1, <3>1, <3>2, FinishDeleteTyped DEF TypeOK, TrackTypeOK
  <2>4. QED
    BY <2>2, <2>3
<1>2. ASSUME NEW u \in User, DeleteResolves(u)
      PROVE  Typed'
  <2>1. deleting[u] \in [object : Obj, options : Options]
    BY <1>2, <1>t DEF DeleteResolves, TypeOK
  <2>2. PICK o \in Obj, options \in Options : o = deleting[u].object /\ options = deleting[u].options
    BY <2>1
  <2>3. deleting' \in [User -> [object : Obj, options : Options] \cup {None, Spent}]
    BY <1>2, <1>t DEF DeleteResolves, TypeOK
  <2>4. CASE Fault /\ UNCHANGED <<trackVars, refreshVars, processVars, due, hubVars, restarts>>
    <3>1. faults' \in 0..MaxFaults
      BY <1>t, <2>4, FaultType DEF TypeOK
    <3>2. QED
      BY <1>t, <2>3, <2>4, <3>1
         DEF Typed, TypeOK, TrackTypeOK, Awaiting, trackVars, refreshVars, processVars, hubVars
  <2>5. ASSUME /\ client' = IF options.remove
                             THEN [client EXCEPT ![object[o].download] = "Absent"]
                             ELSE client
               /\ UNCHANGED <<object, faults>>
               /\ FinishDelete(o, options)
        PROVE  Typed'
    <3>1. client' \in [Download -> Item \cup {"Absent"}]
      BY <1>t, <2>5 DEF TypeOK, TrackTypeOK
    <3>2. QED
      BY <2>3, <2>5, <3>1, FinishDeleteTyped
  <2>6. QED
    BY <1>2, <2>2, <2>4, <2>5 DEF DeleteResolves
<1>3. QED
  BY <1>1, <1>2 DEF UserStep

LEMMA ClientTyped ==
  ASSUME Typed, ClientStep
  PROVE  Typed'
<1> USE DEF Typed, TypeOK, TrackTypeOK, Awaiting
<1>1. ASSUME NEW d \in Download, Grab(d) \/ Progress(d) PROVE TrackTypeOK'
  <2>1. CASE Grab(d)
    BY <2>1, MaxGrabsAssumption DEF Grab, Event, Item
  <2>2. CASE Progress(d)
    <3>1. client' \in [Download -> Item \cup {"Absent"}]
      BY <2>2 DEF Progress, Item
    <3>2. QED
      BY <2>2, <3>1 DEF Progress
  <2>3. QED
    BY <1>1, <2>1, <2>2
<1>2. TrackTypeOK'
  BY <1>1 DEF ClientStep
<1>3. QED
  BY <1>2 DEF ClientStep, refreshVars, processVars, hubVars

LEMMA RestartTyped ==
  ASSUME Typed, Restart
  PROVE  Typed'
<1> USE DEF Typed, TypeOK, TrackTypeOK, Awaiting
<1>1. restarts' \in 0..MaxRestarts
  BY BoundAssumption DEF Restart
<1>2. Nothing \in [Download -> Item \cup {"Absent"}]
  BY DEF Nothing
<1>3. deleting' \in [User -> [object : Obj, options : Options] \cup {None, Spent}]
  BY DEF Restart
<1>4. TrackTypeOK'
  BY DEF Restart
<1>5. /\ marking' \in [Obj -> 0..MaxCalls] /\ removing' \in [Obj -> 0..MaxCalls]
      /\ rpc' = [r \in Refresher |-> "idle"] /\ ppc' = [p \in Processor |-> "idle"]
  BY BoundAssumption DEF Restart
<1>6. /\ snapshot' = [r \in Refresher |-> Nothing] /\ found' = [r \in Refresher |-> {}]
      /\ checking' = [r \in Refresher |-> None] /\ todo' = [p \in Processor |-> {}]
      /\ importing' = [p \in Processor |-> None] /\ due' = FALSE /\ faults' = faults
  BY DEF Restart
<1>7. QED
  BY <1>1, <1>2, <1>3, <1>4, <1>5, <1>6

\* Every variable keeps its type, with any number of refreshes, processing
\* commands and deletions at once (trackedDownload.ts, and the locals of the
\* tasks between two awaits).
THEOREM TypeCorrect == Spec => []TypeOK
<1>1. Init => Typed
  <2> SUFFICES ASSUME Init PROVE Typed
    OBVIOUS
  <2>1. (CHOOSE d \in Download : TRUE) \in Download
    BY DownloadAssumption
  <2>2. TrackTypeOK
    BY <2>1, MaxGrabsAssumption DEF Init, TrackInit, TrackTypeOK, Tracked, Item, State, Event
  <2>3. Nothing \in [Download -> Item \cup {"Absent"}]
    BY DEF Nothing
  <2>4. /\ marking \in [Obj -> 0..MaxCalls] /\ removing \in [Obj -> 0..MaxCalls]
        /\ faults \in 0..MaxFaults /\ restarts \in 0..MaxRestarts
    BY BoundAssumption DEF Init
  <2>5. QED
    BY <2>2, <2>3, <2>4 DEF Init, Typed, TypeOK, Awaiting
<1>2. Typed /\ [Next]_vars => Typed'
  <2>1. Typed /\ UNCHANGED vars => Typed'
    BY DEF Typed, TypeOK, TrackTypeOK, Awaiting, vars, trackVars, refreshVars, processVars, hubVars
  <2>2. QED
    BY <2>1, ClientTyped, RefreshTyped, ProcessTyped, HubTyped, UserTyped, RestartTyped
       DEF Next, HubStep
<1>3. Typed => TypeOK
  BY DEF Typed
<1>4. QED
  BY <1>1, <1>2, <1>3, PTL DEF Spec
=============================================================================
