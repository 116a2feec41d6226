---------------------------- MODULE ProviderStatus ----------------------------
(***************************************************************************)
(* The back-off of providers that fail: ProviderStatusServiceBase and its  *)
(* copies for indexers and download clients. A provider is called by       *)
(* several commands at a time and each answer is recorded when it arrives. *)
(* Times are kept as what is left of them: disabled stands for             *)
(* disabledTill - now, grace for initialFailure +                          *)
(* minimumTimeSinceInitialFailureMs - now, startup for startTimeMs +       *)
(* minimumTimeSinceStartupMs - now, each 0 once it is over.                *)
(***************************************************************************)
EXTENDS Integers

CONSTANTS
  Provider,                        \* provider ids, all greater than 0
  TopLevel,                        \* the last index of the table of periods
  Periods,                         \* ESCALATION_BACKOFF_PERIODS_SECONDS
  MaximumEscalationLevel,          \* of the service of each provider
  MinimumTimeSinceInitialFailure,  \* of the service of each provider
  MinimumTimeSinceStartup,
  RetryAfters,                     \* minimumBackOffMs, 0 when none was asked
  MaxCalls                         \* bound: calls of one provider under way

ASSUME TopLevelAssumption == TopLevel \in Nat /\ TopLevel >= 2
ASSUME PeriodsAssumption ==
  /\ Periods \in [0..TopLevel -> Nat]
  /\ Periods[0] = 0
  /\ \A l, m \in 0..TopLevel : l <= m => Periods[l] <= Periods[m]
ASSUME ServiceAssumption ==
  /\ MaximumEscalationLevel \in [Provider -> 1..TopLevel]
  /\ MinimumTimeSinceInitialFailure \in [Provider -> Nat]
  /\ MinimumTimeSinceStartup \in Nat
ASSUME RetryAfterAssumption == RetryAfters \subseteq Nat /\ 0 \in RetryAfters
ASSUME MaxCallsAssumption   == MaxCalls \in Nat \ {0}

VARIABLES
  level,     \* escalationLevel
  disabled,  \* time left until disabledTill
  grace,     \* time left of the grace after the initial failure
  startup,   \* time left of the grace after the program's start
  calls      \* calls that have not answered

vars == <<level, disabled, grace, startup, calls>>

TypeOK ==
  /\ level    \in [Provider -> 0..TopLevel]
  /\ disabled \in [Provider -> 0..Periods[TopLevel]]
  /\ grace    \in [Provider -> Nat]
  /\ startup  \in 0..MinimumTimeSinceStartup
  /\ calls    \in [Provider -> 0..MaxCalls]
  /\ \A p \in Provider : /\ level[p] <= MaximumEscalationLevel[p]
                         /\ grace[p] <= MinimumTimeSinceInitialFailure[p]

Init ==
  /\ level    = [p \in Provider |-> 0]
  /\ disabled = [p \in Provider |-> 0]
  /\ grace    = [p \in Provider |-> 0]
  /\ startup  = MinimumTimeSinceStartup
  /\ calls    = [p \in Provider |-> 0]

Less(a, b) == IF a < b THEN a ELSE b

-----------------------------------------------------------------------------
\* isProviderStatusDisabled.
Blocked(p) == disabled[p] > 0

\* A caller that passes over blocked providers, as the scheduled ones do.
Call(p) ==
  /\ ~Blocked(p) /\ calls[p] < MaxCalls
  /\ calls' = [calls EXCEPT ![p] = @ + 1]
  /\ UNCHANGED <<level, disabled, grace, startup>>

\* A caller that does not: the test of a provider, a grab of a release that
\* is not pending because its client was unavailable.
CallAnyway(p) ==
  /\ calls[p] < MaxCalls
  /\ calls' = [calls EXCEPT ![p] = @ + 1]
  /\ UNCHANGED <<level, disabled, grace, startup>>

\* Mutant of Succeed: disabledTill survives a success.
SucceedStillDisabled(p) ==
  /\ calls[p] > 0
  /\ calls' = [calls EXCEPT ![p] = @ - 1]
  /\ level' = [level EXCEPT ![p] = IF @ = 0 THEN 0 ELSE @ - 1]
  /\ UNCHANGED <<disabled, grace, startup>>

\* Mutant of Succeed: the early return is taken at level 1 already.
SucceedAboveOne(p) ==
  /\ calls[p] > 0
  /\ calls'    = [calls EXCEPT ![p] = @ - 1]
  /\ level'    = [level EXCEPT ![p] = IF @ <= 1 THEN @ ELSE @ - 1]
  /\ disabled' = [disabled EXCEPT ![p] = IF level[p] <= 1 THEN @ ELSE 0]
  /\ UNCHANGED <<grace, startup>>

\* recordSuccess.
Succeed(p) ==
  /\ calls[p] > 0
  /\ calls'    = [calls EXCEPT ![p] = @ - 1]
  /\ level'    = [level EXCEPT ![p] = IF @ = 0 THEN 0 ELSE @ - 1]
  /\ disabled' = [disabled EXCEPT ![p] = IF level[p] = 0 THEN @ ELSE 0]
  /\ UNCHANGED <<grace, startup>>

\* The level after the loop that raises l until its period covers the wait r.
Raised(p, l, r) ==
  CHOOSE k \in l..MaximumEscalationLevel[p] :
    /\ k = MaximumEscalationLevel[p] \/ Periods[k] >= r
    /\ \A j \in l..(k - 1) : Periods[j] < r

\* What recordFailureInternal makes of the grace and of the level.
GraceOnFailure(p) ==
  IF level[p] = 0 THEN MinimumTimeSinceInitialFailure[p] ELSE grace[p]

LevelOnFailure(p, r, escalate) ==
  Raised(p,
         IF level[p] = 0 THEN 1
         ELSE IF escalate /\ grace[p] = 0 /\ startup = 0
              THEN Less(MaximumEscalationLevel[p], level[p] + 1)
              ELSE level[p],
         r)

\* Mutant of DisabledOnFailure: capped whether the program starts or not.
DisabledOnFailureCapped(p, r, l) ==
  LET until == IF GraceOnFailure(p) = 0 \/ r # 0 THEN Periods[l] ELSE disabled[p]
  IN  IF r = 0 THEN Less(until, Periods[2]) ELSE until

\* What it makes of disabledTill: nothing in the grace, the period of the
\* level otherwise, capped during the startup.
DisabledOnFailure(p, r, l) ==
  LET until == IF GraceOnFailure(p) = 0 \/ r # 0 THEN Periods[l] ELSE disabled[p]
  IN  IF startup > 0 /\ r = 0 THEN Less(until, Periods[2]) ELSE until

\* recordFailure with minimumBackOffMs r; recordConnectionFailure when
\* escalate is FALSE.
Fail(p, r, escalate) ==
  /\ calls[p] > 0
  /\ escalate \/ r = 0
  /\ calls'    = [calls EXCEPT ![p] = @ - 1]
  /\ level'    = [level EXCEPT ![p] = LevelOnFailure(p, r, escalate)]
  /\ grace'    = [grace EXCEPT ![p] = GraceOnFailure(p)]
  /\ disabled' = [disabled EXCEPT ![p] =
                    DisabledOnFailure(p, r, LevelOnFailure(p, r, escalate))]
  /\ UNCHANGED startup

\* handleProviderDeleted; a call that is under way is not stopped.
Delete(p) ==
  /\ level'    = [level EXCEPT ![p] = 0]
  /\ disabled' = [disabled EXCEPT ![p] = 0]
  /\ grace'    = [grace EXCEPT ![p] = 0]
  /\ UNCHANGED <<startup, calls>>

\* The statuses are rows of the database, the start time and the calls are not.
Restart ==
  /\ startup' = MinimumTimeSinceStartup
  /\ calls'   = [p \in Provider |-> 0]
  /\ UNCHANGED <<level, disabled, grace>>

Left(t) == IF t = 0 THEN 0 ELSE t - 1

Tick ==
  /\ startup > 0 \/ \E p \in Provider : disabled[p] > 0 \/ grace[p] > 0
  /\ disabled' = [p \in Provider |-> Left(disabled[p])]
  /\ grace'    = [p \in Provider |-> Left(grace[p])]
  /\ startup'  = Left(startup)
  /\ UNCHANGED <<level, calls>>

Fails(p) == \E r \in RetryAfters, e \in BOOLEAN : Fail(p, r, e)

Next ==
  \/ \E p \in Provider : \/ Call(p) \/ CallAnyway(p) \/ Succeed(p)
                         \/ Fails(p) \/ Delete(p)
  \/ Restart
  \/ Tick

Spec == Init /\ [][Next]_vars

\* Time passes, the scheduled callers come back, a call answers.
FairSpec ==
  /\ Spec
  /\ WF_vars(Tick)
  /\ \A p \in Provider : WF_vars(Call(p)) /\ WF_vars(Succeed(p) \/ Fails(p))

-----------------------------------------------------------------------------
\* A block never outlasts the period of the level the provider is at, however
\* successes and failures of overlapping calls are recorded: a provider that
\* is back at level 0 is not blocked, and no level is left with the block of
\* a higher one.
BlockedWithinLevel == \A p \in Provider : disabled[p] <= Periods[level[p]]

\* After the startup only time, a success or the deletion shortens a block: a
\* failure recorded late, by a call that was under way when the block was
\* set, does not.
FailuresNeverShorten ==
  [][\A p \in Provider : Fails(p) /\ startup = 0 => disabled'[p] >= disabled[p]]_vars

\* Once its calls succeed, a provider gets back to level 0 for good.
Recovers ==
  <>[][~Restart /\ \A p \in Provider : ~Fails(p)]_vars
    => \A p \in Provider : <>[](level[p] = 0)
=============================================================================
