--------------------------- MODULE RefreshDebounce ---------------------------
(***************************************************************************)
(* The Debouncer of DownloadMonitoringService: grabs and imports ask for a *)
(* refresh, a timer gathers them, and every running refresh pauses it.     *)
(* Time is counted in units of which the debounce takes Duration.          *)
(***************************************************************************)
EXTENDS Integers, FiniteSets

CONSTANTS
  Refresher,   \* refresh commands that may run at a time
  Duration,    \* debounceDurationMs
  Restarts,    \* executeRestartsTimer
  MaxQueued    \* bound: refresh commands waiting in the command queue

ASSUME DurationAssumption  == Duration \in Nat \ {0}
ASSUME RestartsAssumption  == Restarts \in BOOLEAN
ASSUME MaxQueuedAssumption == MaxQueued \in Nat \ {0}
ASSUME FiniteAssumption    == IsFiniteSet(Refresher)

VARIABLES
  paused,     \* Debouncer.paused
  triggered,  \* Debouncer.triggered
  timer,      \* time left on Debouncer.timer, 0 when there is none
  running,    \* refreshes between pause() and resume()
  queued,     \* RefreshMonitoredDownloads commands in the queue
  unseen,     \* something happened that no refresh has been begun after
  waited      \* how long the debouncer was asked and not paused, at most
              \* Duration + 1

vars == <<paused, triggered, timer, running, queued, unseen, waited>>

TypeOK ==
  /\ paused    \in Int
  /\ triggered \in BOOLEAN
  /\ timer     \in 0..Duration
  /\ running   \subseteq Refresher
  /\ queued    \in 0..MaxQueued
  /\ unseen    \in BOOLEAN
  /\ waited    \in 0..(Duration + 1)

Init ==
  /\ paused    = 0
  /\ triggered = FALSE
  /\ timer     = 0
  /\ running   = {}
  /\ queued    = 0
  /\ unseen    = FALSE
  /\ waited    = 0

-----------------------------------------------------------------------------
\* Debouncer.execute, for BookGrabbedEvent and TrackImportedEvent. startTimer
\* stops a timer that is there whatever executeRestartsTimer says.
Execute ==
  /\ triggered' = TRUE
  /\ timer'     = IF paused = 0 THEN Duration ELSE IF Restarts THEN 0 ELSE timer
  /\ unseen'    = TRUE
  /\ UNCHANGED <<paused, running, queued, waited>>

\* Mutant of Resume: the timer is started only by the last trigger.
ResumeWithoutTimer(r) ==
  /\ r \in running
  /\ running' = running \ {r}
  /\ paused'  = paused - 1
  /\ UNCHANGED <<triggered, timer, queued, unseen, waited>>

\* Mutant of Pause: the timer of an earlier trigger goes on.
PauseWithTimer(r) ==
  /\ r \notin running /\ queued > 0
  /\ queued'  = queued - 1
  /\ running' = running \cup {r}
  /\ paused'  = paused + 1
  /\ unseen'  = FALSE
  /\ UNCHANGED <<triggered, timer, waited>>

\* A refresh command starts: Debouncer.pause.
Pause(r) ==
  /\ r \notin running /\ queued > 0
  /\ queued'  = queued - 1
  /\ running' = running \cup {r}
  /\ paused'  = paused + 1
  /\ timer'   = 0
  /\ unseen'  = FALSE
  /\ waited'  = 0
  /\ UNCHANGED triggered

\* It ends, the finally block: Debouncer.resume.
Resume(r) ==
  /\ r \in running
  /\ running' = running \ {r}
  /\ paused'  = paused - 1
  /\ timer'   = IF paused' = 0 /\ triggered THEN Duration ELSE timer
  /\ UNCHANGED <<triggered, queued, unseen, waited>>

\* The timer runs out. Its callback does nothing while somebody pauses.
Fire ==
  /\ IF paused = 0
       THEN /\ triggered' = FALSE
            /\ queued'    = queued + 1
            /\ waited'    = 0
       ELSE UNCHANGED <<triggered, queued, waited>>
  /\ timer' = 0

\* Time passes; a timer that runs out is served at once. The command queue
\* takes the command.
Tick ==
  /\ queued < MaxQueued
  /\ \/ timer = 1 /\ Fire
     \/ /\ timer # 1
        /\ timer'  = IF timer = 0 THEN 0 ELSE timer - 1
        /\ waited' = IF timer > 0 /\ waited <= Duration THEN waited + 1 ELSE waited
        /\ UNCHANGED <<triggered, queued>>
  /\ UNCHANGED <<paused, running, unseen>>

\* The scheduler queues a refresh of its own, once a minute.
Schedule ==
  /\ queued < MaxQueued
  /\ queued' = queued + 1
  /\ UNCHANGED <<paused, triggered, timer, running, unseen, waited>>

Next ==
  \/ Execute \/ Tick \/ Schedule
  \/ \E r \in Refresher : Pause(r) \/ Resume(r)

Spec == Init /\ [][Next]_vars

-----------------------------------------------------------------------------
\* What happened after the last refresh had begun is not forgotten: a refresh
\* is queued, or the timer runs, or whoever pauses will start it.
NothingForgotten ==
  unseen => queued > 0 \/ timer > 0 \/ (running # {} /\ triggered)

\* While a refresh runs no timer does: the two never push at the same time.
QuietWhileRefreshing == running # {} => timer = 0

\* A request is answered after Duration, further requests or not.
Punctual == waited <= Duration
=============================================================================
