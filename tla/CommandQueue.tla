---------------------------- MODULE CommandQueue ----------------------------
(***************************************************************************)
(* The in-memory command queue of messaging/commands/commandQueue.ts and   *)
(* the consumer loops that iterate it.  Node runs one piece of JavaScript  *)
(* at a time, so every action below is one run-to-completion step between  *)
(* two awaits.                                                             *)
(*                                                                         *)
(* A command is named by its database id.  Ids are allotted in the order   *)
(* in which commands are pushed, so they stand for queuedAt as well.       *)
(***************************************************************************)
EXTENDS Integers, FiniteSets

CONSTANTS
  Command,    \* ids of the command models that may ever be queued
  Worker,     \* consumers of getConsumingEnumerable
  Name,       \* command names (one per Command subclass)
  Bodies,     \* the bodies (flags) and priorities a command may have
  NoCommand   \* "this worker holds no command"

\* class is the constructor of the body object; a body that went through
\* JSON has the constructor Object and none of its class's getters.
BodyType == [name : Name, class : Name \cup {"Object"}, priority : Int,
             requiresDiskAccess : BOOLEAN, isExclusive : BOOLEAN,
             isTypeExclusive : BOOLEAN, isLongRunning : BOOLEAN]

ASSUME CommandAssumption == Command \subseteq Nat /\ NoCommand \notin Command
ASSUME BodiesAssumption  == Bodies \subseteq BodyType /\ Bodies # {}
\* The flags are getters of the Command subclass, the name is its name.
ASSUME OneClassPerName ==
  \A x, y \in Bodies : x.name = y.name => x.isTypeExclusive = y.isTypeExclusive

VARIABLES
  status,   \* status[c]: what the queue knows of c
  body,     \* body[c]: flags and priority of c, meaningful once c was added
  pc,       \* pc[w]: where the consumer loop of w is
  task,     \* task[w]: the command w was handed and has not finished
  aborted   \* the AbortSignal shared by the consumers has fired

queueVars == <<status, body, pc, task, aborted>>

Status == {"Absent", "Queued", "Started", "Completed", "Failed", "Removed"}
PC     == {"ready", "waiting", "busy", "done"}

TypeOK ==
  /\ status  \in [Command -> Status]
  /\ body    \in [Command -> Bodies]
  /\ pc      \in [Worker -> PC]
  /\ task    \in [Worker -> Command \cup {NoCommand}]
  /\ aborted \in BOOLEAN

Init ==
  /\ status  = [c \in Command |-> "Absent"]
  /\ body    = [c \in Command |-> CHOOSE b \in Bodies : TRUE]
  /\ pc      = [w \in Worker |-> "ready"]
  /\ task    = [w \in Worker |-> NoCommand]
  /\ aborted = FALSE

-----------------------------------------------------------------------------
Queued  == {c \in Command : status[c] = "Queued"}
Started == {c \in Command : status[c] = "Started"}
Ended   == {c \in Command : status[c] \in {"Completed", "Failed"}}

\* Mutant of Pulse: pulseAllConsumers resolves nobody.
PulseNobody(p) == p

\* Every waiter's promise is resolved; the loops run again one by one.
Pulse(p) == [w \in Worker |-> IF p[w] = "waiting" THEN "ready" ELSE p[w]]

\* Higher priority first, then the older command.
Before(c, d) ==
  \/ body[c].priority > body[d].priority
  \/ body[c].priority = body[d].priority /\ c < d

\* Mutant of Eligible: the disk-access filter is missing.
EligibleIgnoringDisk ==
  {c \in Queued : \A s \in Started :
     /\ body[s].isTypeExclusive => body[c].name # body[s].name
     /\ body[s].isLongRunning   => ~body[c].isExclusive}

\* The queued commands that no started command keeps back.
Eligible ==
  {c \in Queued : \A s \in Started :
     /\ body[s].requiresDiskAccess => ~body[c].requiresDiskAccess
     /\ body[s].isTypeExclusive    => body[c].name # body[s].name
     /\ body[s].isLongRunning      => ~body[c].isExclusive}

\* Mutant of IsNext: a running exclusive command keeps nobody back.
IsNextIgnoringStarted(c) ==
  /\ c \in Eligible
  /\ \A d \in Eligible \ {c} : Before(c, d)
  /\ body[c].isExclusive => Started = {}

\* Mutant of IsNext: exclusive commands are skipped while something runs.
IsNextSkippingExclusive(c) ==
  LET open == {d \in Eligible : body[d].isExclusive => Started = {}} IN
  /\ c \in open
  /\ \A d \in open \ {c} : Before(c, d)
  /\ \A s \in Started : ~body[s].isExclusive

\* c is what tryGet hands out in this state; in many states nothing is.
IsNext(c) ==
  /\ c \in Eligible
  /\ \A d \in Eligible \ {c} : Before(c, d)
  /\ \A s \in Started : ~body[s].isExclusive
  /\ body[c].isExclusive => Started = {}

-----------------------------------------------------------------------------
\* Mutant of Add: the item is pushed, nobody is woken.
AddWithoutPulse(c, b) ==
  /\ status[c] = "Absent"
  /\ status' = [status EXCEPT ![c] = "Queued"]
  /\ body'   = [body EXCEPT ![c] = b]
  /\ UNCHANGED <<pc, task, aborted>>

Add(c, b) ==
  /\ status[c] = "Absent"
  /\ status' = [status EXCEPT ![c] = "Queued"]
  /\ body'   = [body EXCEPT ![c] = b]
  /\ pc'     = Pulse(pc)
  /\ UNCHANGED <<task, aborted>>

RemoveIfQueued(c) ==
  /\ status[c] = "Queued"
  /\ status' = [status EXCEPT ![c] = "Removed"]
  /\ pc'     = Pulse(pc)
  /\ UNCHANGED <<body, task, aborted>>

\* cleanCommands removes the ended commands that are old enough.
RemoveMany(S) ==
  /\ S \subseteq Ended
  /\ status' = [c \in Command |-> IF c \in S THEN "Removed" ELSE status[c]]
  /\ pc'     = Pulse(pc)
  /\ UNCHANGED <<body, task, aborted>>

\* One turn of the consumer loop of w: take a command, park, or leave.
Take(w, c) ==
  /\ pc[w] = "ready" /\ ~aborted
  /\ IsNext(c)
  /\ status' = [status EXCEPT ![c] = "Started"]
  /\ pc'     = [pc EXCEPT ![w] = "busy"]
  /\ task'   = [task EXCEPT ![w] = c]
  /\ UNCHANGED <<body, aborted>>

Park(w) ==
  /\ pc[w] = "ready" /\ ~aborted
  /\ ~\E c \in Command : IsNext(c)
  /\ pc' = [pc EXCEPT ![w] = "waiting"]
  /\ UNCHANGED <<status, body, task, aborted>>

Leave(w) ==
  /\ pc[w] = "ready" /\ aborted
  /\ pc' = [pc EXCEPT ![w] = "done"]
  /\ UNCHANGED <<status, body, task, aborted>>

\* Mutant of Finish: complete() forgets to pulse.
FinishWithoutPulse(w, s) ==
  /\ pc[w] = "busy" /\ task[w] # NoCommand
  /\ status' = [status EXCEPT ![task[w]] = s]
  /\ pc'     = [pc EXCEPT ![w] = "ready"]
  /\ task'   = [task EXCEPT ![w] = NoCommand]
  /\ UNCHANGED <<body, aborted>>

\* complete() or fail() marks the command, then wakes every consumer.
Finish(w, s) ==
  /\ pc[w] = "busy" /\ task[w] # NoCommand
  /\ status' = [status EXCEPT ![task[w]] = s]
  /\ pc'     = [Pulse(pc) EXCEPT ![w] = "ready"]
  /\ task'   = [task EXCEPT ![w] = NoCommand]
  /\ UNCHANGED <<body, aborted>>

\* Mutant of Abort: no abort listener, parked consumers sleep on.
AbortWithoutPulse ==
  /\ ~aborted
  /\ aborted' = TRUE
  /\ UNCHANGED <<status, body, pc, task>>

Abort ==
  /\ ~aborted
  /\ aborted' = TRUE
  /\ pc'      = Pulse(pc)
  /\ UNCHANGED <<status, body, task>>

-----------------------------------------------------------------------------
Turn(w) == Park(w) \/ Leave(w) \/ \E c \in Command : Take(w, c)

Next ==
  \/ \E c \in Command : \E b \in Bodies : Add(c, b)
  \/ \E c \in Command : RemoveIfQueued(c)
  \/ \E S \in SUBSET Ended : S # {} /\ RemoveMany(S)
  \/ \E w \in Worker : Turn(w)
  \/ \E w \in Worker : \E s \in {"Completed", "Failed"} : Finish(w, s)
  \/ Abort

\* A consumer whose promise is resolved runs; a handler that was started
\* settles.  Nobody has to push, cancel, clean or abort.
Fairness ==
  \A w \in Worker :
    /\ WF_queueVars(Turn(w))
    /\ WF_queueVars(\E s \in {"Completed", "Failed"} : Finish(w, s))

Spec == Init /\ [][Next]_queueVars /\ Fairness

-----------------------------------------------------------------------------
(* Safety *)

\* An exclusive command runs alone, whatever was started before or after it
\* (the two early returns of tryGetInternal, together).
ExclusiveRunsAlone ==
  \A c \in Started : body[c].isExclusive => Started = {c}

\* Two started commands never both need the disk, and are never two of one
\* type-exclusive class (the filters of tryGetInternal).
ResourcesNotShared ==
  \A c, d \in Started : c # d =>
    /\ ~(body[c].requiresDiskAccess /\ body[d].requiresDiskAccess)
    /\ body[c].isTypeExclusive => body[c].name # body[d].name

\* Two workers never hold the same command and what a worker holds is marked
\* Started: a started command is hidden from every other consumer.
StartedIsHeldOnce ==
  \A c \in Command :
    status[c] = "Started" <=> \E w \in Worker :
      task[w] = c /\ \A v \in Worker \ {w} : task[v] # c

\* No lost wake-up: a consumer is parked only while tryGet has nothing for
\* it, and never once the signal was aborted (waitForPulse is entered in the
\* same synchronous stretch as the failed tryGet).
NoLostWakeup ==
  (\E w \in Worker : pc[w] = "waiting") =>
    ~aborted /\ ~\E c \in Command : IsNext(c)

\* "This will prevent other tasks from starting so the exclusive task
\* executes in the order it should": a command behind a queued exclusive one
\* starts first only if the exclusive one is kept back by a long-running
\* command, by a disk user it conflicts with, or by its own type.
ExclusiveKeepsItsTurn ==
  [][\A e, d \in Command :
       ( /\ status[e] = "Queued" /\ body[e].isExclusive
         /\ status[d] = "Queued" /\ status'[d] = "Started" /\ Before(e, d) )
       => \E s \in Started :
            \/ body[s].isLongRunning
            \/ body[s].requiresDiskAccess /\ body[e].requiresDiskAccess
            \/ body[s].isTypeExclusive /\ body[s].name = body[e].name]_queueVars

\* After the abort nothing is started any more, however many consumers were
\* between two turns.
NothingStartsAfterAbort ==
  [][aborted => Started' \subseteq Started]_queueVars

(* Liveness *)

\* A queued command is started or taken out of the queue in the end: neither
\* the exclusivity rules nor the parking of consumers wedge the queue.
EventuallyLeavesQueue ==
  \A c \in Command :
    status[c] = "Queued" ~> (status[c] # "Queued" \/ aborted)

\* After an abort every consumer loop ends (waitForShutdown returns).
ShutdownCompletes == aborted ~> \A w \in Worker : pc[w] = "done"
=============================================================================
