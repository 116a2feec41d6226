--------------------------- MODULE CommandExecutor ---------------------------
(***************************************************************************)
(* The command subsystem as one machine: the workers of CommandExecutor    *)
(* over CommandManager, the module-level ProgressMessageContext they share,*)
(* the handlers that report a result through it, failing database writes,  *)
(* shutdown, and a crash followed by a restart at any point.               *)
(***************************************************************************)
EXTENDS CommandManager

CONSTANTS
  Handled,      \* names of the commands with a registered executor
  MaxRestarts   \* bound: how many times the process dies and starts again

ASSUME HandledAssumption     == Handled \subseteq Name
ASSUME MaxRestartsAssumption == MaxRestarts \in Nat

VARIABLES
  stage,      \* stage[w]: "idle", "yielded" (command in hand) or "running"
  context,    \* ProgressMessageContext.commandModel
  reported,   \* reported[c]: the last result the handler of c reported
  runs,       \* runs[c]: how often a handler was called for c, all restarts
  restarts    \* restarts so far

execVars == <<stage, context, reported, runs, restarts>>
vars     == <<queueVars, storeVars, execVars>>

Stage == {"idle", "yielded", "running"}

ExecTypeOK ==
  /\ TypeOK
  /\ StoreTypeOK
  /\ stage    \in [Worker -> Stage]
  /\ context  \in Command \cup {NoCommand}
  /\ reported \in [Command -> Result]
  /\ runs     \in [Command -> Nat]
  /\ restarts \in 0..MaxRestarts

ExecInit ==
  /\ Init
  /\ StoreInit
  /\ stage    = [w \in Worker |-> "idle"]
  /\ context  = NoCommand
  /\ reported = [c \in Command |-> "Unknown"]
  /\ runs     = [c \in Command |-> 0]
  /\ restarts = 0

-----------------------------------------------------------------------------
PushCommand(k) == Push(k) /\ UNCHANGED execVars

PushCommands(n) == PushMany(n) /\ UNCHANGED execVars

CancelCommand(c) == Cancel(c) /\ UNCHANGED execVars

Clean(old, ancient) == CleanCommands(old, ancient) /\ UNCHANGED execVars

\* The consumer loop hands w a command; executeCommand starts in a later
\* microtask.
Fetch(w, c) ==
  /\ Take(w, c)
  /\ stage' = [stage EXCEPT ![w] = "yielded"]
  /\ UNCHANGED <<storeVars, context, reported, runs, restarts>>

Idle(w) == (Park(w) \/ Leave(w)) /\ UNCHANGED <<storeVars, execVars>>

\* No executor is registered: executeCommand throws before its try block, so
\* neither start() nor fail() is reached.
ExecuteUnhandled(w) ==
  /\ stage[w] = "yielded" /\ body[task[w]].name \notin Handled
  /\ stage' = [stage EXCEPT ![w] = "idle"]
  /\ pc'    = [pc EXCEPT ![w] = "ready"]
  /\ task'  = [task EXCEPT ![w] = NoCommand]
  /\ UNCHANGED <<status, body, aborted, storeVars, context, reported, runs,
                 restarts>>

\* The context setter is reached only while the context is null.
Claimed(c) == IF context = NoCommand THEN c ELSE context

\* start() writes the row, the context is claimed if nobody holds it, and the
\* handler runs to its first await.
Execute(w) ==
  /\ stage[w] = "yielded" /\ body[task[w]].name \in Handled
  /\ row'     = [row EXCEPT ![task[w]] = "Started"]
  /\ context' = Claimed(task[w])
  /\ runs'    = [runs EXCEPT ![task[w]] = @ + 1]
  /\ stage'   = [stage EXCEPT ![w] = "running"]
  /\ UNCHANGED <<queueVars, pushed, result, dbErrors, reported, restarts>>

\* Mutant of Release: the context still points to the finished command.
ReleaseKeepingContext(w) ==
  /\ stage' = [stage EXCEPT ![w] = "idle"]
  /\ UNCHANGED <<context, reported, runs, restarts>>

\* The finally block: the context is released by the command it points to.
Release(w) ==
  /\ stage'   = [stage EXCEPT ![w] = "idle"]
  /\ context' = IF context = task[w] THEN NoCommand ELSE context
  /\ UNCHANGED <<reported, runs, restarts>>

\* repo.start throws: fail() is called for a handler that never ran.
ExecuteFails(w) ==
  /\ stage[w] = "yielded" /\ body[task[w]].name \in Handled
  /\ \/ EndWrittenLate(w)
     \/ EndLost(w)
  /\ UNCHANGED <<pushed, result>>
  /\ Release(w)

\* A running handler reports its result to whatever command the context is.
Report(w, r) ==
  /\ stage[w] = "running"
  /\ reported' = [reported EXCEPT ![task[w]] = r]
  /\ result'   = IF context = NoCommand THEN result
                 ELSE [result EXCEPT ![context] = r]
  /\ UNCHANGED <<queueVars, row, pushed, dbErrors, stage, context, runs, restarts>>

\* The handler resolves: complete().
Succeed(w) ==
  /\ stage[w] = "running"
  /\ result' = [result EXCEPT ![task[w]] = IF @ = "Unknown" THEN "Successful" ELSE @]
  /\ \/ EndWritten(w, "Completed")
     \/ EndWrittenLate(w)
     \/ EndLost(w)
  /\ UNCHANGED pushed
  /\ Release(w)

\* The handler rejects: fail().
Reject(w) ==
  /\ stage[w] = "running"
  /\ \/ EndWritten(w, "Failed")
     \/ EndLost(w)
  /\ UNCHANGED <<pushed, result>>
  /\ Release(w)

Shutdown == Abort /\ UNCHANGED <<storeVars, execVars>>

\* The process dies wherever it is and a new one handles ApplicationStarted:
\* started rows are orphaned, queued rows are queued again.
Restart ==
  /\ restarts < MaxRestarts
  /\ restarts' = restarts + 1
  /\ row'     = OrphanedRows
  /\ status'  = Requeued
  /\ body'    = [c \in Command |-> IF row[c] = "Queued" THEN Parsed(pushed[c]) ELSE body[c]]
  /\ result'  = [c \in Command |-> "Unknown"]
  /\ pc'      = [w \in Worker |-> "ready"]
  /\ task'    = [w \in Worker |-> NoCommand]
  /\ stage'   = [w \in Worker |-> "idle"]
  /\ aborted' = FALSE
  /\ context' = NoCommand
  /\ UNCHANGED <<pushed, dbErrors, reported, runs>>

-----------------------------------------------------------------------------
\* What a worker does when the event loop gets to it.
Proceed(w) ==
  \/ Idle(w)
  \/ \E c \in Command : Fetch(w, c)
  \/ ExecuteUnhandled(w)
  \/ Execute(w)
  \/ ExecuteFails(w)

Settle(w) == Succeed(w) \/ Reject(w)

ExecNext ==
  \/ \E k \in Kinds : PushCommand(k)
  \/ PushCommands(2)
  \/ \E c \in Command : CancelCommand(c)
  \/ \E old \in SUBSET Ended, ancient \in SUBSET Command :
       old \cup ancient # {} /\ Clean(old, ancient)
  \/ \E w \in Worker : Proceed(w) \/ Settle(w)
  \/ \E w \in Worker, r \in {"Successful", "Unsuccessful"} : Report(w, r)
  \/ Shutdown
  \/ Restart

\* The event loop gets to every worker, and every handler settles.
ExecFairness ==
  \A w \in Worker : WF_vars(Proceed(w)) /\ WF_vars(Settle(w))

ExecSpec == ExecInit /\ [][ExecNext]_vars /\ ExecFairness

-----------------------------------------------------------------------------
Holding(w, c) == stage[w] = "yielded" /\ task[w] = c
Running(w, c) == stage[w] = "running" /\ task[w] = c

LifeOf(c) ==
  CASE row[c] = "None" -> "new"
    [] row[c] = "Queued" /\ (status[c] = "Queued" \/ \E w \in Worker : Holding(w, c))
         -> "queued"
    [] row[c] = "Queued" /\ status[c] # "Queued" /\ ~\E w \in Worker : Holding(w, c)
         -> "dropped"
    [] row[c] = "Started" /\ \E w \in Worker : Running(w, c) -> "running"
    [] OTHER -> "ended"

Lifecycle == INSTANCE CommandLifecycle WITH life <- [c \in Command |-> LifeOf(c)]

\* The detailed machine keeps the promises of CommandLifecycle: whatever its
\* rows, items, workers and restarts do only moves a command along it.
ImplementsLifecycle == Lifecycle!LifeSpec

(* Safety *)

\* No handler is called twice for one command, crashes included: the row says
\* Started before the handler is called, and a started row is orphaned, not
\* queued again, by the next process.
RunsAtMostOnce == \A c \in Command : runs[c] <= 1

\* The queue and the table agree on what is still to be done: an item waiting
\* in memory has a queued row, and this process knows of every queued row.
QueueMirrorsTable ==
  \A c \in Command :
    /\ status[c] = "Queued" => row[c] = "Queued"
    /\ row[c] = "Queued" => status[c] # "Absent"

\* A started row belongs to a handler that is running; if it does not, a write
\* of its end was lost, and the next process will orphan it.
StartedRowIsRunning ==
  \A c \in Command : row[c] = "Started" =>
    \/ \E w \in Worker : Running(w, c)
    \/ dbErrors > 0 /\ status[c] \in {"Failed", "Removed"}

\* The shared progress context never outlives the command it points to,
\* although three workers claim and release it in any order.
ContextIsRunning ==
  context # NoCommand => \E w \in Worker : Running(w, context)

(* Liveness *)

\* A queued command with an executor is started, dropped or failed in the
\* end, even after an end whose write and wake-up were both lost.
EventuallyExecuted ==
  \A c \in Command :
    (status[c] = "Queued" /\ body[c].name \in Handled)
      ~> (status[c] # "Queued" \/ aborted)

\* A running handler's command leaves the table's Started state in the end:
\* by its own end, or as an orphan after a crash; unless the write was lost.
EventuallyEnds ==
  \A c \in Command :
    row[c] = "Started" ~> (row[c] # "Started" \/ dbErrors = MaxDbErrors)

(* What the documentation says of the code and the code does not do *)

\* A command equal to one in progress is not queued again.
NoDuplicateWork ==
  \A c, d \in QueuedOrStarted : c # d => pushed[c] # pushed[d]

\* Two commands that need the disk do not run at the same time.
DiskUsersRunApart ==
  \A w, v \in Worker : w # v /\ stage[w] = "running" /\ stage[v] = "running" =>
    ~(pushed[task[w]].requiresDiskAccess /\ pushed[task[v]].requiresDiskAccess)

\* The result a handler reports is the result of its own command.
ReportReachesItsCommand ==
  \A c \in Command :
    status[c] = "Completed" /\ reported[c] # "Unknown" => result[c] = reported[c]

\* A command whose execution threw is not left in progress.
InProgressIsHeld ==
  \A c \in Command : status[c] = "Started" => \E w \in Worker : task[w] = c
=============================================================================
