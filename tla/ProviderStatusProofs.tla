------------------------- MODULE ProviderStatusProofs -------------------------
(***************************************************************************)
(* The back-off of ProviderStatus stays within its level, for any table of *)
(* periods that never falls, any services and any number of calls.         *)
(***************************************************************************)
EXTENDS ProviderStatus, WellFoundedInduction, TLAPS

LEMMA Least ==
  ASSUME NEW T \in SUBSET Nat, T # {}
  PROVE  \E x \in T : \A y \in T : x <= y
<1> DEFINE R == OpToRel(<, Nat)
<1>1. PICK x \in T : \A y \in T : ~ (<<y, x>> \in R)
  <2> HIDE DEF R
  <2>1. IsWellFoundedOn(R, Nat)
    BY NatLessThanWellFounded DEF R
  <2>2. QED
    BY <2>1, WFMin
<1>2. \A y \in T : y < x => <<y, x>> \in R
  BY DEF OpToRel
<1>3. \A y \in T : x <= y
  <2> SUFFICES ASSUME NEW y \in T PROVE x <= y
    OBVIOUS
  <2>1. ~(y < x)
    BY <1>1, <1>2
  <2>2. x \in Nat /\ y \in Nat
    OBVIOUS
  <2> HIDE DEF R
  <2>3. QED
    BY <2>1, <2>2
<1>4. QED
  BY <1>3

\* The loop stops: from l on there is a first level whose period covers r, or
\* the maximum.
LEMMA RaisedType ==
  ASSUME NEW p \in Provider, NEW r \in RetryAfters,
         NEW l \in 1..MaximumEscalationLevel[p]
  PROVE  /\ Raised(p, l, r) \in l..MaximumEscalationLevel[p]
         /\ Raised(p, l, r) \in 1..TopLevel
<1> DEFINE M       == MaximumEscalationLevel[p]
           Stop(k) == k = M \/ Periods[k] >= r
           Stops   == {k \in l..M : Stop(k)}
<1>1. M \in 1..TopLevel /\ r \in Nat /\ TopLevel \in Nat
  BY ServiceAssumption, TopLevelAssumption, RetryAfterAssumption
<1>2. \A k \in l..M : Periods[k] \in Nat
  BY <1>1, PeriodsAssumption
<1>3. Stops \in SUBSET Nat /\ M \in Stops
  BY <1>1
<1>4. PICK x \in Stops : \A y \in Stops : x <= y
  BY <1>3, Least
<1>5. x \in l..M /\ Stop(x) /\ \A j \in l..(x - 1) : Periods[j] < r
  <2>1. \A j \in l..(x - 1) : j \in l..M /\ j \notin Stops
    BY <1>1, <1>4
  <2>2. QED
    BY <1>1, <1>2, <1>4, <2>1
<1>6. Raised(p, l, r) \in l..M
  BY <1>5 DEF Raised
<1>7. QED
  BY <1>1, <1>6

LEMMA LeftType ==
  ASSUME NEW n \in Nat, NEW t \in 0..n
  PROVE  Left(t) \in 0..n /\ Left(t) <= t
BY DEF Left

\* A failure leaves the level between 1 and the maximum and never lowers it,
\* and the block it leaves is covered by that level.
LEMMA FailureType ==
  ASSUME TypeOK, NEW p \in Provider, NEW r \in RetryAfters, NEW e \in BOOLEAN
  PROVE  LET l == LevelOnFailure(p, r, e)
         IN  /\ l \in 1..MaximumEscalationLevel[p]
             /\ l \in 1..TopLevel
             /\ level[p] <= l
             /\ DisabledOnFailure(p, r, l) \in 0..Periods[TopLevel]
<1> DEFINE l    == LevelOnFailure(p, r, e)
           M    == MaximumEscalationLevel[p]
           from == IF level[p] = 0 THEN 1
                   ELSE IF e /\ grace[p] = 0 /\ startup = 0
                        THEN Less(M, level[p] + 1)
                        ELSE level[p]
<1>1. M \in 1..TopLevel /\ TopLevel \in Nat /\ level[p] \in 0..M
  BY ServiceAssumption, TopLevelAssumption DEF TypeOK
<1>2. from \in 1..M /\ level[p] <= from
  BY <1>1 DEF Less
<1>3. l = Raised(p, from, r)
  BY DEF LevelOnFailure
<1>4. l \in from..M /\ l \in 1..TopLevel
  <2> HIDE DEF from, l
  <2>1. QED
    BY <1>2, <1>3, RaisedType
<1>5. l \in 1..M /\ level[p] <= l
  BY <1>1, <1>2, <1>4
<1>6. DisabledOnFailure(p, r, l) \in 0..Periods[TopLevel]
  <2> HIDE DEF l
  <2>1. /\ Periods[l] \in 0..Periods[TopLevel]
        /\ Periods[2] \in 0..Periods[TopLevel]
        /\ disabled[p] \in 0..Periods[TopLevel]
        /\ Periods[TopLevel] \in Nat
    BY <1>1, <1>4, PeriodsAssumption, TopLevelAssumption DEF TypeOK
  <2>2. QED
    BY <2>1 DEF DisabledOnFailure, Less
<1>7. QED
  BY <1>4, <1>5, <1>6

\* Every variable keeps its type; in particular the level stays an index of
\* the table of periods and within the maximum of the service.
THEOREM TypeCorrect == Spec => []TypeOK
<1>0. Periods[TopLevel] \in Nat
  BY PeriodsAssumption, TopLevelAssumption
<1>1. Init => TypeOK
  BY <1>0, TopLevelAssumption, ServiceAssumption, MaxCallsAssumption DEF Init, TypeOK
<1>2. TypeOK /\ [Next]_vars => TypeOK'
  <2> SUFFICES ASSUME TypeOK, [Next]_vars PROVE TypeOK'
    OBVIOUS
  <2>a. MaxCalls \in Nat /\ TopLevel \in Nat /\ MinimumTimeSinceStartup \in Nat
    BY MaxCallsAssumption, TopLevelAssumption, ServiceAssumption
  <2>b. MaximumEscalationLevel \in [Provider -> 1..TopLevel]
    BY ServiceAssumption
  <2>c. MinimumTimeSinceInitialFailure \in [Provider -> Nat]
    BY ServiceAssumption
  <2>1. ASSUME NEW p \in Provider, Call(p) PROVE TypeOK'
    BY <2>1, <2>a DEF Call, TypeOK
  <2>2. ASSUME NEW p \in Provider, CallAnyway(p) PROVE TypeOK'
    BY <2>2, <2>a DEF CallAnyway, TypeOK
  <2>3. ASSUME NEW p \in Provider, Succeed(p) PROVE TypeOK'
    <3>1. /\ level' \in [Provider -> 0..TopLevel]
          /\ \A q \in Provider : level'[q] <= MaximumEscalationLevel[q]
      <4>1. /\ level[p] \in 0..TopLevel /\ level[p] <= MaximumEscalationLevel[p]
            /\ MaximumEscalationLevel[p] \in Int
        BY <2>b, <2>a DEF TypeOK
      <4>2. LET n == IF level[p] = 0 THEN 0 ELSE level[p] - 1
            IN  n \in 0..TopLevel /\ n <= MaximumEscalationLevel[p]
        BY <4>1, <2>a
      <4>3. QED
        BY <2>3, <4>2 DEF Succeed, TypeOK
    <3>2. disabled' \in [Provider -> 0..Periods[TopLevel]]
      BY <2>3, <1>0 DEF Succeed, TypeOK
    <3>3. calls' \in [Provider -> 0..MaxCalls]
      BY <2>3, <2>a DEF Succeed, TypeOK
    <3>4. QED
      BY <2>3, <3>1, <3>2, <3>3 DEF Succeed, TypeOK
  <2>4. ASSUME NEW p \in Provider, NEW r \in RetryAfters, NEW e \in BOOLEAN,
               Fail(p, r, e)
        PROVE  TypeOK'
    <3>1. GraceOnFailure(p) \in Nat /\ GraceOnFailure(p) <= MinimumTimeSinceInitialFailure[p]
      BY <2>c DEF GraceOnFailure, TypeOK
    <3>2. /\ level' \in [Provider -> 0..TopLevel]
          /\ \A q \in Provider : level'[q] <= MaximumEscalationLevel[q]
      <4> DEFINE l == LevelOnFailure(p, r, e)
      <4>1. /\ l \in 0..TopLevel /\ l <= MaximumEscalationLevel[p]
        BY FailureType, <2>a, <2>b
      <4> HIDE DEF l
      <4>2. level' = [level EXCEPT ![p] = l]
        BY <2>4 DEF Fail, l
      <4>3. QED
        BY <4>1, <4>2 DEF TypeOK
    <3>3. disabled' \in [Provider -> 0..Periods[TopLevel]]
      BY <2>4, FailureType DEF Fail, TypeOK
    <3>4. /\ grace' \in [Provider -> Nat]
          /\ \A q \in Provider : grace'[q] <= MinimumTimeSinceInitialFailure[q]
      BY <2>4, <3>1 DEF Fail, TypeOK
    <3>5. calls' \in [Provider -> 0..MaxCalls]
      BY <2>4, <2>a DEF Fail, TypeOK
    <3>6. QED
      BY <2>4, <3>2, <3>3, <3>4, <3>5 DEF Fail, TypeOK
  <2>5. ASSUME NEW p \in Provider, Delete(p) PROVE TypeOK'
    <3>1. \A q \in Provider : /\ 0 <= MaximumEscalationLevel[q]
                               /\ 0 <= MinimumTimeSinceInitialFailure[q]
      BY <2>a, <2>b, <2>c
    <3>2. QED
      BY <2>5, <2>a, <1>0, <3>1 DEF Delete, TypeOK
  <2>6. CASE Restart
    BY <2>6, <2>a DEF Restart, TypeOK
  <2>7. CASE Tick
    BY <2>7, <2>a, <2>c, <1>0 DEF Tick, TypeOK, Left
  <2>8. CASE UNCHANGED vars
    BY <2>8 DEF vars, TypeOK
  <2>9. QED
    BY <2>1, <2>2, <2>3, <2>4, <2>5, <2>6, <2>7, <2>8 DEF Next, Fails
<1>3. QED
  BY <1>1, <1>2, PTL DEF Spec

-----------------------------------------------------------------------------
LEMMA BlockOnFailure ==
  ASSUME TypeOK, BlockedWithinLevel,
         NEW p \in Provider, NEW r \in RetryAfters, NEW e \in BOOLEAN
  PROVE  LET l == LevelOnFailure(p, r, e)
         IN  /\ DisabledOnFailure(p, r, l) <= Periods[l]
             /\ startup = 0 => disabled[p] <= DisabledOnFailure(p, r, l)
<1> DEFINE l == LevelOnFailure(p, r, e)
<1>1. l \in 1..TopLevel /\ level[p] \in 0..TopLevel /\ level[p] <= l
  BY FailureType DEF TypeOK
<1> HIDE DEF l
<1>2. disabled[p] <= Periods[level[p]] /\ Periods[level[p]] <= Periods[l]
  BY <1>1, TopLevelAssumption, PeriodsAssumption DEF BlockedWithinLevel
<1>3. /\ disabled[p] \in Int /\ Periods[level[p]] \in Int
      /\ Periods[l] \in Int /\ Periods[2] \in Int
      /\ startup \in Nat
  BY <1>1, TopLevelAssumption, PeriodsAssumption, ServiceAssumption DEF TypeOK
<1>4. DisabledOnFailure(p, r, l) <= Periods[l]
  BY <1>2, <1>3 DEF DisabledOnFailure, Less
<1>5. startup = 0 => disabled[p] <= DisabledOnFailure(p, r, l)
  BY <1>2, <1>3 DEF DisabledOnFailure, Less
<1>6. QED
  BY <1>4, <1>5 DEF l

\* A block never outlasts the period of the provider's level
\* (recordSuccess lowers the level and clears the block in one step, and
\* recordFailureInternal sets both). It is inductive as it stands.
THEOREM Within == Spec => []BlockedWithinLevel
<1>1. Init => BlockedWithinLevel
  <2>1. Periods[0] = 0
    BY PeriodsAssumption
  <2>2. ASSUME Init, NEW q \in Provider PROVE disabled[q] = 0 /\ level[q] = 0
    BY <2>2 DEF Init
  <2>3. QED
    BY <2>1, <2>2 DEF BlockedWithinLevel
<1>2. TypeOK /\ BlockedWithinLevel /\ [Next]_vars => BlockedWithinLevel'
  <2> SUFFICES ASSUME TypeOK, BlockedWithinLevel, [Next]_vars,
                      NEW q \in Provider
               PROVE  disabled'[q] <= Periods[level'[q]]
    BY DEF BlockedWithinLevel
  <2>a. /\ disabled[q] <= Periods[level[q]]
        /\ disabled[q] \in Nat /\ Periods[level[q]] \in Nat
        /\ \A k \in 0..TopLevel : Periods[k] \in Nat /\ 0 <= Periods[k]
        /\ 0 \in 0..TopLevel
    BY PeriodsAssumption, TopLevelAssumption DEF TypeOK, BlockedWithinLevel
  <2>1. ASSUME NEW p \in Provider, Call(p) \/ CallAnyway(p)
        PROVE  disabled'[q] <= Periods[level'[q]]
    BY <2>1, <2>a DEF Call, CallAnyway
  <2>2. ASSUME NEW p \in Provider, Succeed(p)
        PROVE  disabled'[q] <= Periods[level'[q]]
    <3>1. CASE p # q \/ level[q] = 0
      BY <2>2, <2>a, <3>1 DEF Succeed, TypeOK
    <3>2. CASE p = q /\ level[q] # 0
      <4>1. disabled'[q] = 0 /\ level'[q] \in 0..TopLevel
        BY <2>2, <3>2, TopLevelAssumption DEF Succeed, TypeOK
      <4>2. QED
        BY <2>a, <4>1
    <3>3. QED
      BY <3>1, <3>2
  <2>3. ASSUME NEW p \in Provider, NEW r \in RetryAfters, NEW e \in BOOLEAN,
               Fail(p, r, e)
        PROVE  disabled'[q] <= Periods[level'[q]]
    <3>1. CASE p # q
      BY <2>3, <2>a, <3>1 DEF Fail, TypeOK
    <3>2. CASE p = q
      BY <2>3, <3>2, BlockOnFailure DEF Fail, TypeOK
    <3>3. QED
      BY <3>1, <3>2
  <2>4. ASSUME NEW p \in Provider, Delete(p)
        PROVE  disabled'[q] <= Periods[level'[q]]
    BY <2>4, <2>a DEF Delete, TypeOK
  <2>5. CASE Restart
    BY <2>5, <2>a DEF Restart
  <2>6. CASE Tick
    BY <2>6, <2>a DEF Tick, Left
  <2>7. CASE UNCHANGED vars
    BY <2>7, <2>a DEF vars
  <2>8. QED
    BY <2>1, <2>2, <2>3, <2>4, <2>5, <2>6, <2>7 DEF Next, Fails
<1>3. QED
  BY <1>1, <1>2, TypeCorrect, PTL DEF Spec

\* After the startup no recorded failure shortens a block, in whatever order
\* the answers of overlapping calls are recorded (recordFailureInternal). It
\* rests on the block fitting the level: the new block is the period of a
\* level that is not lower.
THEOREM NeverShorter == Spec => FailuresNeverShorten
<1>1. TypeOK /\ BlockedWithinLevel =>
        [\A p \in Provider : Fails(p) /\ startup = 0 => disabled'[p] >= disabled[p]]_vars
  <2> SUFFICES ASSUME TypeOK, BlockedWithinLevel,
                      NEW p \in Provider, Fails(p), startup = 0
               PROVE  disabled'[p] >= disabled[p]
    OBVIOUS
  <2>1. PICK r \in RetryAfters, e \in BOOLEAN : Fail(p, r, e)
    BY DEF Fails
  <2>2. disabled[p] <= DisabledOnFailure(p, r, LevelOnFailure(p, r, e))
    BY BlockOnFailure
  <2>3. disabled'[p] = DisabledOnFailure(p, r, LevelOnFailure(p, r, e))
    BY <2>1 DEF Fail, TypeOK
  <2>4. QED
    BY <2>2, <2>3
<1>2. QED
  BY <1>1, TypeCorrect, Within, PTL DEF FailuresNeverShorten
=============================================================================
