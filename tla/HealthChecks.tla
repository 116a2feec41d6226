----------------------------- MODULE HealthChecks -----------------------------
(***************************************************************************)
(* HealthCheckService: health checks run after the start, by a scheduled   *)
(* or manual command and when an event concerns them, in runs that await   *)
(* one check after the other and overlap.  Failures of the first fifteen   *)
(* minutes are not notified; the first event after them makes the startup  *)
(* checks run again and whatever fails by then be notified.                *)
(***************************************************************************)
EXTENDS Integers, FiniteSets

CONSTANTS
  Check,       \* the checks, numbered in the order they are registered
  Startup,     \* checkOnStartup
  Scheduled,   \* checkOnSchedule
  Event,       \* the types of events
  Failure,     \* HealthCheckFailedEvent
  Condition,   \* [Event -> [Check -> ...]]: the CHECK_ON entries of the checks
  Command,     \* CheckHealthCommands that may run at a time
  Handler,     \* events whose handler may be at work at a time
  MaxThrows,   \* bound on the checks that throw
  GraceThrows, \* whether a check of the run after the grace period may
  Nothing

Conditions == {"Always", "FailedOnly", "SuccessfulOnly", "Never"}

ASSUME ChecksAssumption ==
  /\ Check \subseteq Nat /\ Startup \subseteq Check /\ Scheduled \subseteq Check
  /\ Failure \in Event /\ Nothing \notin Event
  /\ Condition \in [Event -> [Check -> Conditions]]
  /\ Command \cap Handler = {}
  /\ MaxThrows \in Nat /\ GraceThrows \in BOOLEAN

Slot == Command \cup Handler

VARIABLES
  sick,      \* checks that would fail now
  results,   \* healthCheckResults: the checks whose failure is held
  run,       \* the calls of performHealthCheck under way
  late,      \* the startup grace period is over
  hasRun,    \* hasRunHealthChecksAfterGracePeriod
  isRunning, \* isRunningHealthChecksAfterGracePeriod
  notified,  \* per check the notifications of the failure that is held
  throws     \* checks that threw so far, bounded by MaxThrows

vars == <<sick, results, run, late, hasRun, isRunning, notified, throws>>

\* A call of performHealthCheck: the checks still to come, those that failed,
\* and for the run after the grace period the event that set it off.
Call == [checks : SUBSET Check, left : SUBSET Check, bad : SUBSET Check,
         event : Event \cup {Nothing}, applied : BOOLEAN]
NewCall(checks, e) ==
  [checks |-> checks, left |-> checks, bad |-> {}, event |-> e, applied |-> FALSE]
Idle == NewCall({}, Nothing)
Perform(checks) == NewCall(checks, Nothing)
GraceRun(e) == NewCall(Startup, e)

IsGrace(r) == r.event # Nothing
Busy(r) == r.checks # {} \/ IsGrace(r)

\* handleApplicationStarted has begun the first run.
Init ==
  /\ sick \in SUBSET Check
  /\ results = {}
  /\ \E h \in Handler : run = [t \in Slot |-> IF t = h THEN Perform(Startup) ELSE Idle]
  /\ late = FALSE /\ hasRun = FALSE /\ isRunning = FALSE
  /\ notified = [c \in Check |-> 0]
  /\ throws = 0

\* The run after the grace period is due: the next event begins it.
GraceDue == late /\ ~hasRun /\ ~isRunning

\* shouldExecute, for the checks that have an entry for the event.
Concerned(e) == {c \in Check : \/ Condition[e][c] = "Always"
                               \/ Condition[e][c] = "FailedOnly" /\ c \in results
                               \/ Condition[e][c] = "SuccessfulOnly" /\ c \notin results}

\* execute: every check for a manual command, the scheduled ones otherwise.
Execute(t, checks) ==
  /\ checks # {} /\ ~Busy(run[t])
  /\ run' = [run EXCEPT ![t] = Perform(checks)]
  /\ UNCHANGED <<sick, results, late, hasRun, isRunning, notified, throws>>

\* handleAsync up to its first await.
Handle(t, e) ==
  /\ ~Busy(run[t])
  /\ GraceDue \/ Concerned(e) # {}
  /\ run' = [run EXCEPT ![t] = IF GraceDue THEN GraceRun(e) ELSE Perform(Concerned(e))]
  /\ isRunning' = (isRunning \/ GraceDue)
  /\ UNCHANGED <<sick, results, late, hasRun, notified, throws>>

\* The next check of a run answers.
Answer(t) ==
  \E c \in run[t].left :
    /\ \A d \in run[t].left : c <= d
    /\ run' = [run EXCEPT ![t].left = @ \ {c},
                          ![t].bad = IF c \in sick THEN @ \cup {c} ELSE @]
    /\ UNCHANGED <<sick, results, late, hasRun, isRunning, notified, throws>>

\* A check throws, and with it the call: nothing of the run is kept, and the
\* flags stay as they are.
Throw(t) ==
  /\ throws < MaxThrows /\ throws' = throws + 1
  /\ run[t].left # {} /\ (IsGrace(run[t]) => GraceThrows)
  /\ run' = [run EXCEPT ![t] = Idle]
  /\ UNCHANGED <<sick, results, late, hasRun, isRunning, notified>>

\* Mutant of Kept: what a run found is added to what is there.
KeptAdding(r) == results \cup r.bad

\* What is held once the results of a run are in.
Kept(r) == (results \ r.checks) \cup r.bad

\* A failure that is not yet held is notified unless the grace period counts.
Apply(t) ==
  LET r   == run[t]
      new == r.bad \ results
      due == new # {} /\ GraceDue
  IN  /\ Busy(r) /\ r.left = {} /\ ~r.applied
      /\ results'  = Kept(r)
      /\ notified' = [c \in Check |-> IF c \notin Kept(r) THEN 0
                                      ELSE IF c \in new /\ hasRun THEN 1
                                      ELSE notified[c]]
      \* the handler sees HealthCheckFailedEvent too
      /\ run' = [run EXCEPT ![t] = IF IsGrace(r) THEN [r EXCEPT !.applied = TRUE]
                                   ELSE IF due THEN GraceRun(Failure)
                                   ELSE Idle]
      /\ isRunning' = (isRunning \/ due)
      /\ UNCHANGED <<sick, late, hasRun, throws>>

\* Mutant of Resume: only what the run itself found is notified.
ResumeWithItsOwn(t) ==
  LET r == run[t]
  IN  /\ r.applied
      /\ hasRun' = TRUE /\ isRunning' = FALSE
      /\ notified' = [c \in Check |-> notified[c] + (IF c \in r.bad \cap results THEN 1 ELSE 0)]
      /\ run' = [run EXCEPT ![t] = Perform(Concerned(r.event))]
      /\ UNCHANGED <<sick, results, late, throws>>

\* Mutant of Resume: the run does not count, and the next event begins another.
ResumeUnmarked(t) ==
  LET r == run[t]
  IN  /\ r.applied
      /\ isRunning' = FALSE
      /\ run' = [run EXCEPT ![t] = Perform(Concerned(r.event))]
      /\ UNCHANGED <<sick, results, late, hasRun, notified, throws>>

\* handleAsync after the run: every failure held by now is notified, and the
\* event goes to the checks it concerns.
Resume(t) ==
  LET r == run[t]
  IN  /\ r.applied
      /\ hasRun' = TRUE /\ isRunning' = FALSE
      /\ notified' = [c \in Check |-> notified[c] + (IF c \in results THEN 1 ELSE 0)]
      /\ run' = [run EXCEPT ![t] = Perform(Concerned(r.event))]
      /\ UNCHANGED <<sick, results, late, throws>>

GracePeriodEnds ==
  /\ ~late /\ late' = TRUE
  /\ UNCHANGED <<sick, results, run, hasRun, isRunning, notified, throws>>

\* Whatever a check looks at breaks or is put right.
Change(c) ==
  /\ sick' = IF c \in sick THEN sick \ {c} ELSE sick \cup {c}
  /\ UNCHANGED <<results, run, late, hasRun, isRunning, notified, throws>>

Proceed(t) == Answer(t) \/ Apply(t) \/ Resume(t)

Next ==
  \/ \E t \in Command : Execute(t, Scheduled) \/ Execute(t, Check)
  \/ \E t \in Handler, e \in Event : Handle(t, e)
  \/ \E t \in Slot : Proceed(t) \/ Throw(t)
  \/ GracePeriodEnds
  \/ \E c \in Check : Change(c)

\* The command is scheduled every six hours, commands that are executed every
\* minute are events, checks answer and the grace period ends.
Fairness ==
  /\ \A t \in Command : WF_vars(Execute(t, Scheduled))
  /\ WF_vars(\E t \in Handler, e \in Event : Handle(t, e))
  /\ \A t \in Slot : WF_vars(Proceed(t))
  /\ WF_vars(GracePeriodEnds)

Spec == Init /\ [][Next]_vars /\ Fairness

-----------------------------------------------------------------------------
TypeOK ==
  /\ sick \subseteq Check /\ results \subseteq Check
  /\ run \in [Slot -> Call]
  /\ {late, hasRun, isRunning} \subseteq BOOLEAN
  /\ notified \in [Check -> Nat]
  /\ throws \in 0 .. MaxThrows

\* Once the run after the grace period is over, every failure that is held was
\* notified exactly once, and none before: whichever runs overlap, no failure
\* falls between the two rules and none is told twice.
NotifiedOnce ==
  \A c \in Check : notified[c] = IF hasRun /\ c \in results THEN 1 ELSE 0

\* What the schedule looks at is shown as it is in the end: the answer of a
\* slower run never stands for ever.
ResultsCatchUp ==
  \A c \in Scheduled : /\ <>[](c \in sick) => <>[](c \in results)
                       /\ <>[](c \notin sick) => <>[](c \notin results)

\* A failure that stays is notified in the end, whatever happened to it
\* during the grace period.
FailuresAreNotified ==
  \A c \in Check : <>[](c \in results) => <>[](notified[c] = 1)
=============================================================================
