--------------------------- MODULE CommandManager ---------------------------
(***************************************************************************)
(* CommandQueueManager and CommandRepository on top of CommandQueue: every *)
(* command is a row of the Commands table and, while this process knows of *)
(* it, an item of the in-memory queue.  This module holds the operations;  *)
(* CommandExecutor drives them with its workers and restarts.              *)
(***************************************************************************)
EXTENDS CommandQueue

CONSTANTS
  Kinds,        \* commands the program pushes, as instances of their class
  MaxDbErrors   \* bound: how many writes of the repository may throw

ASSUME KindsAssumption ==
  Kinds # {} /\ Kinds \subseteq {k \in BodyType : k.class = k.name}

\* JSON.parse(JSON.stringify(body)): the own property name survives, the
\* getters of the class do not (an absent getter reads as undefined).
Parsed(k) ==
  [k EXCEPT !.class = "Object", !.requiresDiskAccess = FALSE,
            !.isExclusive = FALSE, !.isTypeExclusive = FALSE,
            !.isLongRunning = FALSE]

ASSUME ParsedAssumption == \A k \in Kinds : Parsed(k) \in Bodies
ASSUME MaxDbErrorsAssumption == MaxDbErrors \in Nat

VARIABLES
  row,        \* row[c]: Status column, "None" before insert, "Gone" after trim
  pushed,     \* pushed[c]: the command given to push, as stored in the row
  result,     \* result[c]: CommandResult of the in-memory model of c
  dbErrors    \* writes that threw so far

storeVars == <<row, pushed, result, dbErrors>>

RowStatus == {"None", "Queued", "Started", "Completed", "Failed",
              "Orphaned", "Gone"}
Result == {"Unknown", "Successful", "Unsuccessful"}

StoreTypeOK ==
  /\ row      \in [Command -> RowStatus]
  /\ pushed   \in [Command -> Kinds]
  /\ result   \in [Command -> Result]
  /\ dbErrors \in 0..MaxDbErrors

StoreInit ==
  /\ row      = [c \in Command |-> "None"]
  /\ pushed   = [c \in Command |-> CHOOSE k \in Kinds : TRUE]
  /\ result   = [c \in Command |-> "Unknown"]
  /\ dbErrors = 0

-----------------------------------------------------------------------------
QueuedOrStarted == Queued \cup Started

\* CommandEqualityComparer: the constructors first, then the own properties
\* (two commands of one class are taken to carry equal properties).
Equals(x, y) == x.class = y.class

Existing(k) ==
  {c \in QueuedOrStarted : body[c].name = k.name /\ Equals(body[c], k)}

\* INTEGER PRIMARY KEY: the next n ids.  An id the table gives out again after
\* a trim is a new element of Command here.
NextIds(n) ==
  {c \in Command : row[c] = "None"
                   /\ Cardinality({d \in Command : row[d] = "None" /\ d < c}) < n}

\* insert / insertMany return the models re-read from the rows just written,
\* and those are what the queue is given.
Insert(f) ==
  LET new == DOMAIN f IN
  /\ row'    = [c \in Command |-> IF c \in new THEN "Queued" ELSE row[c]]
  /\ pushed' = [c \in Command |-> IF c \in new THEN f[c] ELSE pushed[c]]
  /\ status' = [c \in Command |-> IF c \in new THEN "Queued" ELSE status[c]]
  /\ body'   = [c \in Command |-> IF c \in new THEN Parsed(f[c]) ELSE body[c]]
  /\ pc'     = Pulse(pc)
  /\ UNCHANGED <<task, aborted, result, dbErrors>>

\* push of a command that is already queued or started returns the existing
\* model and changes nothing.
Push(k) ==
  /\ Existing(k) = {}
  /\ \E f \in [NextIds(1) -> Kinds] :
       DOMAIN f # {} /\ (\A c \in DOMAIN f : f[c] = k) /\ Insert(f)

\* pushMany compares every command with the queue as it was before the call,
\* never with the rest of the batch.
PushMany(n) ==
  \E f \in [NextIds(n) -> Kinds] :
    /\ Cardinality(DOMAIN f) = n
    /\ \A c \in DOMAIN f : Existing(f[c]) = {}
    /\ Insert(f)

\* cancel takes the command out of the queue and leaves its row alone.
Cancel(c) ==
  /\ RemoveIfQueued(c)
  /\ UNCHANGED storeVars

\* cleanCommands: ended more than five minutes ago leaves the queue, ended
\* more than a day ago leaves the table.
CleanCommands(old, ancient) ==
  /\ ancient \subseteq {c \in Command : row[c] \in {"Completed", "Failed", "Orphaned"}}
  /\ ancient \cap Ended \subseteq old
  /\ RemoveMany(old)
  /\ row' = [c \in Command |-> IF c \in ancient THEN "Gone" ELSE row[c]]
  /\ UNCHANGED <<pushed, result, dbErrors>>

-----------------------------------------------------------------------------
\* update(): the model in memory first, then the row; only then the pulse.
EndWritten(w, s) ==
  /\ Finish(w, s)
  /\ row' = [row EXCEPT ![task[w]] = s]
  /\ UNCHANGED dbErrors

\* repo.end throws in complete() and succeeds in the fail() that follows.
EndWrittenLate(w) ==
  /\ dbErrors < MaxDbErrors
  /\ dbErrors' = dbErrors + 1
  /\ Finish(w, "Failed")
  /\ row' = [row EXCEPT ![task[w]] = "Failed"]

\* repo.end throws in fail(): the model is marked Failed, the row keeps its
\* status and pulseAllConsumers is never reached.
EndLost(w) ==
  /\ dbErrors < MaxDbErrors
  /\ dbErrors' = dbErrors + 1
  /\ status' = [status EXCEPT ![task[w]] = "Failed"]
  /\ pc'     = [pc EXCEPT ![w] = "ready"]
  /\ task'   = [task EXCEPT ![w] = NoCommand]
  /\ UNCHANGED <<body, aborted, row>>

\* Mutants of OrphanedRows: rows are kept as they are, or are queued again.
OrphanedRowsKept        == row
OrphanedRowsQueuedAgain == [c \in Command |-> IF row[c] = "Started" THEN "Queued" ELSE row[c]]

\* What is in the queue after handleApplicationStarted of a new process.
OrphanedRows == [c \in Command |-> IF row[c] = "Started" THEN "Orphaned" ELSE row[c]]

\* Mutants of Requeued: what was running is queued again; nothing is.
RequeuedWithStarted ==
  [c \in Command |-> IF row[c] \in {"Queued", "Started"} THEN "Queued" ELSE "Absent"]
RequeuedNothing == [c \in Command |-> "Absent"]

Requeued == [c \in Command |-> IF row[c] = "Queued" THEN "Queued" ELSE "Absent"]
=============================================================================
