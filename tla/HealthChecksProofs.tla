-------------------------- MODULE HealthChecksProofs --------------------------
(***************************************************************************)
(* Every failure that is held after the grace period was notified exactly  *)
(* once, for any checks, events and number of runs that overlap, whichever *)
(* checks throw.                                                           *)
(***************************************************************************)
EXTENDS HealthChecks, TLAPS

\* There is at most one run after the grace period, it is marked while it is
\* under way, and only it has something to do after its results are in.
OneGraceRun ==
  /\ \A t \in Slot : IsGrace(run[t]) => isRunning /\ ~hasRun
  /\ \A t, u \in Slot : IsGrace(run[t]) /\ IsGrace(run[u]) => t = u
  /\ \A t \in Slot : run[t].applied => IsGrace(run[t])

IInv == TypeOK /\ OneGraceRun /\ NotifiedOnce

\* What a call looks like, and how a step changes the slot of one.
LEMMA CallTypes ==
  /\ Idle \in Call /\ ~IsGrace(Idle) /\ ~Idle.applied
  /\ \A S \in SUBSET Check :
       /\ Perform(S) \in Call /\ ~IsGrace(Perform(S)) /\ ~Perform(S).applied
  /\ \A e \in Event :
       /\ GraceRun(e) \in Call /\ IsGrace(GraceRun(e)) /\ ~GraceRun(e).applied
<1>1. Idle \in Call /\ ~IsGrace(Idle) /\ ~Idle.applied
  BY DEF Idle, NewCall, Call, IsGrace
<1>2. ASSUME NEW S \in SUBSET Check
      PROVE  Perform(S) \in Call /\ ~IsGrace(Perform(S)) /\ ~Perform(S).applied
  BY DEF Perform, NewCall, Call, IsGrace
<1>3. ASSUME NEW e \in Event
      PROVE  GraceRun(e) \in Call /\ IsGrace(GraceRun(e)) /\ ~GraceRun(e).applied
  <2>1. Startup \in SUBSET Check /\ e # Nothing
    BY ChecksAssumption
  <2>2. QED
    BY <2>1 DEF GraceRun, NewCall, Call, IsGrace
<1>4. QED
  BY <1>1, <1>2, <1>3

LEMMA InitHolds == Init => IInv
<1> SUFFICES ASSUME Init PROVE IInv
  OBVIOUS
<1>1. PICK h \in Handler : run = [t \in Slot |-> IF t = h THEN Perform(Startup) ELSE Idle]
  BY DEF Init
<1>2. \A t \in Slot : run[t] \in Call /\ ~IsGrace(run[t]) /\ ~run[t].applied
  BY <1>1, CallTypes, ChecksAssumption
<1>3. run \in [Slot -> Call]
  BY <1>1, <1>2
<1>4. {late, hasRun, isRunning} \subseteq BOOLEAN
  BY Zenon DEF Init
<1>5. TypeOK
  BY <1>3, <1>4, ChecksAssumption DEF Init, TypeOK
<1>6. OneGraceRun
  BY <1>2 DEF OneGraceRun
<1>7. NotifiedOnce
  BY DEF Init, NotifiedOnce
<1>8. QED
  BY <1>5, <1>6, <1>7 DEF IInv

\* A step that puts a call into one slot, which is a run after the grace
\* period only if none is under way, done, or in another slot.
LEMMA SlotKeeps ==
  ASSUME IInv, NEW t \in Slot, NEW r \in Call,
         run' = [run EXCEPT ![t] = r],
         r.applied => IsGrace(r),
         IsGrace(r) => isRunning' /\ ~hasRun' /\ \A u \in Slot \ {t} : ~IsGrace(run[u]),
         \A u \in Slot \ {t} : IsGrace(run[u]) => isRunning' /\ ~hasRun'
  PROVE  run' \in [Slot -> Call] /\ OneGraceRun'
<1>1. run' \in [Slot -> Call]
  BY DEF IInv, TypeOK
<1>2. run'[t] = r /\ \A u \in Slot \ {t} : run'[u] = run[u]
  BY DEF IInv, TypeOK
<1>3. \A u \in Slot : IsGrace(run'[u]) => isRunning' /\ ~hasRun'
  BY <1>2, Zenon
<1>4. \A u, v \in Slot : IsGrace(run'[u]) /\ IsGrace(run'[v]) => u = v
  <2>1. \A u, v \in Slot \ {t} : IsGrace(run[u]) /\ IsGrace(run[v]) => u = v
    BY Zenon DEF IInv, OneGraceRun
  <2>2. QED
    BY <1>2, <2>1, Zenon
<1>5. \A u \in Slot : run'[u].applied => IsGrace(run'[u])
  <2>1. \A u \in Slot \ {t} : run[u].applied => IsGrace(run[u])
    BY Zenon DEF IInv, OneGraceRun
  <2>2. QED
    BY <1>2, <2>1, Zenon
<1>6. OneGraceRun'
  BY <1>3, <1>4, <1>5 DEF OneGraceRun
<1>7. QED
  BY <1>1, <1>6

\* When a run after the grace period is due, there is none.
LEMMA NoneWhenDue ==
  ASSUME IInv, GraceDue
  PROVE  \A u \in Slot : ~IsGrace(run[u])
BY Zenon DEF IInv, OneGraceRun, GraceDue

LEMMA ConcernedType == \A e : Concerned(e) \in SUBSET Check
BY DEF Concerned

LEMMA ExecuteKeeps ==
  ASSUME IInv, NEW t \in Slot, NEW S \in SUBSET Check, Execute(t, S)
  PROVE  IInv'
<1>1. Perform(S) \in Call /\ ~IsGrace(Perform(S)) /\ ~Perform(S).applied
  BY CallTypes, Zenon
<1>2. \A u \in Slot : IsGrace(run[u]) => isRunning' /\ ~hasRun'
  BY Zenon DEF IInv, OneGraceRun, Execute
<1>3. run' \in [Slot -> Call] /\ OneGraceRun'
  <2>1. run' = [run EXCEPT ![t] = Perform(S)]
    BY DEF Execute
  <2>2. QED
    BY <1>1, <1>2, <2>1, SlotKeeps, Zenon
<1>4. TypeOK' /\ NotifiedOnce'
  BY <1>3 DEF IInv, TypeOK, NotifiedOnce, Execute
<1>5. QED
  BY <1>3, <1>4 DEF IInv

LEMMA HandleKeeps ==
  ASSUME IInv, NEW t \in Slot, NEW e \in Event, Handle(t, e)
  PROVE  IInv'
<1> DEFINE r == IF GraceDue THEN GraceRun(e) ELSE Perform(Concerned(e))
<1>1. r \in Call /\ ~r.applied /\ (IsGrace(r) => GraceDue)
  <2>1. CASE GraceDue
    BY <2>1, CallTypes, Zenon
  <2>2. CASE ~GraceDue
    <3>1. Concerned(e) \in SUBSET Check
      BY ConcernedType
    <3>2. QED
      BY <2>2, <3>1, CallTypes, Zenon
  <2>3. QED
    BY <2>1, <2>2
<1>2. run' = [run EXCEPT ![t] = r] /\ hasRun' = hasRun
  BY DEF Handle
<1>3. isRunning' = (isRunning \/ GraceDue)
  BY DEF Handle
<1>4. IsGrace(r) => isRunning' /\ ~hasRun' /\ \A u \in Slot \ {t} : ~IsGrace(run[u])
  BY <1>1, <1>2, <1>3, NoneWhenDue, Zenon DEF GraceDue
<1>5. \A u \in Slot \ {t} : IsGrace(run[u]) => isRunning' /\ ~hasRun'
  BY <1>2, <1>3, Zenon DEF IInv, OneGraceRun
<1>6. run' \in [Slot -> Call] /\ OneGraceRun'
  <2> HIDE DEF r
  <2>1. r.applied => IsGrace(r)
    BY <1>1
  <2>2. QED
    BY <1>1, <1>2, <1>4, <1>5, <2>1, SlotKeeps, Zenon
<1>7. isRunning' \in BOOLEAN
  BY <1>3, Zenon
<1>8. TypeOK' /\ NotifiedOnce'
  BY <1>6, <1>7 DEF IInv, TypeOK, NotifiedOnce, Handle
<1>9. QED
  BY <1>6, <1>8 DEF IInv

LEMMA AnswerKeeps ==
  ASSUME IInv, NEW t \in Slot, Answer(t)
  PROVE  IInv'
<1>1. PICK c \in run[t].left :
        run' = [run EXCEPT ![t].left = @ \ {c},
                           ![t].bad = IF c \in sick THEN @ \cup {c} ELSE @]
  BY DEF Answer
<1> DEFINE r == [run[t] EXCEPT !.left = @ \ {c},
                               !.bad = IF c \in sick THEN @ \cup {c} ELSE @]
<1>2. run[t] \in Call
  BY DEF IInv, TypeOK
<1>3. r \in Call /\ r.event = run[t].event /\ r.applied = run[t].applied
  BY <1>1, <1>2 DEF Call
<1>4. run' = [run EXCEPT ![t] = r]
  BY <1>1, <1>2 DEF IInv, TypeOK
<1>5. IsGrace(r) <=> IsGrace(run[t])
  BY <1>3 DEF IsGrace
<1>6. \A u \in Slot : IsGrace(run[u]) => isRunning' /\ ~hasRun'
  <2>1. isRunning' = isRunning /\ hasRun' = hasRun
    BY DEF Answer
  <2>2. QED
    BY <2>1, Zenon DEF IInv, OneGraceRun
<1>7. run' \in [Slot -> Call] /\ OneGraceRun'
  <2> HIDE DEF r
  <2>1. r.applied => IsGrace(r)
    BY <1>3, <1>5, Zenon DEF IInv, OneGraceRun
  <2>2. IsGrace(r) => isRunning' /\ ~hasRun' /\ \A u \in Slot \ {t} : ~IsGrace(run[u])
    BY <1>5, <1>6, Zenon DEF IInv, OneGraceRun
  <2>3. QED
    BY <1>3, <1>4, <1>6, <2>1, <2>2, SlotKeeps, Zenon
<1>8. TypeOK' /\ NotifiedOnce'
  BY <1>7 DEF IInv, TypeOK, NotifiedOnce, Answer
<1>9. QED
  BY <1>7, <1>8 DEF IInv

LEMMA ThrowKeeps ==
  ASSUME IInv, NEW t \in Slot, Throw(t)
  PROVE  IInv'
<1>1. \A u \in Slot : IsGrace(run[u]) => isRunning' /\ ~hasRun'
  BY Zenon DEF IInv, OneGraceRun, Throw
<1>2. run' \in [Slot -> Call] /\ OneGraceRun'
  <2>1. run' = [run EXCEPT ![t] = Idle]
    BY DEF Throw
  <2>2. QED
    BY <1>1, <2>1, CallTypes, SlotKeeps, Zenon
<1>3. throws' \in 0 .. MaxThrows
  BY ChecksAssumption DEF IInv, TypeOK, Throw
<1>4. TypeOK' /\ NotifiedOnce'
  BY <1>2, <1>3 DEF IInv, TypeOK, NotifiedOnce, Throw
<1>5. QED
  BY <1>2, <1>4 DEF IInv

\* The results of a run: what was held already keeps its notification, and
\* what is new gets one exactly when the grace period is over.
LEMMA ApplyKeeps ==
  ASSUME IInv, NEW t \in Slot, Apply(t)
  PROVE  IInv'
<1> DEFINE r == run[t]
           new == r.bad \ results
           due == new # {} /\ GraceDue
           n == IF IsGrace(r) THEN [r EXCEPT !.applied = TRUE]
                ELSE IF due THEN GraceRun(Failure) ELSE Idle
<1>1. r \in Call /\ r.bad \subseteq Check /\ r.checks \subseteq Check
  BY DEF IInv, TypeOK, Call
<1>2. /\ run' = [run EXCEPT ![t] = n]
      /\ isRunning' = (isRunning \/ due)
      /\ hasRun' = hasRun /\ results' = Kept(r)
      /\ notified' = [c \in Check |-> IF c \notin Kept(r) THEN 0
                                      ELSE IF c \in new /\ hasRun THEN 1
                                      ELSE notified[c]]
  BY DEF Apply
<1>3. n \in Call /\ (n.applied => IsGrace(n)) /\ (IsGrace(n) => IsGrace(r) \/ GraceDue)
  <2>1. CASE IsGrace(r)
    <3>1. n = [r EXCEPT !.applied = TRUE]
      BY <2>1, Zenon
    <3>2. n \in Call /\ n.event = r.event
      BY <1>1, <3>1 DEF Call
    <3>3. QED
      BY <2>1, <3>2 DEF IsGrace
  <2>2. CASE ~IsGrace(r) /\ due
    BY <2>2, CallTypes, ChecksAssumption, Zenon
  <2>3. CASE ~IsGrace(r) /\ ~due
    BY <2>3, CallTypes, Zenon
  <2>4. QED
    BY <2>1, <2>2, <2>3, Zenon
<1>4. \A u \in Slot \ {t} : IsGrace(run[u]) => isRunning' /\ ~hasRun'
  BY <1>2, Zenon DEF IInv, OneGraceRun
<1>5. IsGrace(n) => isRunning' /\ ~hasRun' /\ \A u \in Slot \ {t} : ~IsGrace(run[u])
  <2>1. CASE IsGrace(r)
    BY <1>2, <2>1, Zenon DEF IInv, OneGraceRun
  <2>2. CASE ~IsGrace(r)
    <3>1. IsGrace(n) => due
      BY <2>2, CallTypes, Zenon
    <3>2. QED
      BY <1>2, <3>1, NoneWhenDue, Zenon DEF GraceDue
  <2>3. QED
    BY <2>1, <2>2
<1>6. run' \in [Slot -> Call] /\ OneGraceRun'
  <2> HIDE DEF n
  <2>1. QED
    BY <1>2, <1>3, <1>4, <1>5, SlotKeeps, Zenon
<1>7. results' \subseteq Check
  BY <1>1, <1>2 DEF IInv, TypeOK, Kept
<1>8. notified' \in [Check -> Nat]
  BY <1>2 DEF IInv, TypeOK
<1>9. isRunning' \in BOOLEAN
  BY <1>2, Zenon
<1>10. TypeOK'
  BY <1>6, <1>7, <1>8, <1>9 DEF IInv, TypeOK, Apply
<1>11. NotifiedOnce'
  <2>1. CASE hasRun
    BY <1>2, <2>1 DEF IInv, NotifiedOnce, Kept
  <2>2. CASE ~hasRun
    BY <1>2, <2>2 DEF IInv, NotifiedOnce
  <2>3. QED
    BY <2>1, <2>2
<1>12. QED
  BY <1>6, <1>10, <1>11 DEF IInv

\* The run after the grace period notifies all that is held, once.
LEMMA ResumeKeeps ==
  ASSUME IInv, NEW t \in Slot, Resume(t)
  PROVE  IInv'
<1> DEFINE n == Perform(Concerned(run[t].event))
<1>1. IsGrace(run[t]) /\ ~hasRun /\ \A u \in Slot \ {t} : ~IsGrace(run[u])
  BY Zenon DEF IInv, OneGraceRun, Resume
<1>2. n \in Call /\ ~IsGrace(n) /\ ~n.applied
  BY ConcernedType, CallTypes, Zenon
<1>3. run' \in [Slot -> Call] /\ OneGraceRun'
  <2>1. run' = [run EXCEPT ![t] = n]
    BY DEF Resume
  <2> HIDE DEF n
  <2>2. QED
    BY <1>1, <1>2, <2>1, SlotKeeps, Zenon
<1>4. notified' \in [Check -> Nat]
  BY DEF IInv, TypeOK, Resume
<1>5. hasRun' \in BOOLEAN /\ isRunning' \in BOOLEAN
  BY Zenon DEF Resume
<1>6. TypeOK'
  BY <1>3, <1>4, <1>5 DEF IInv, TypeOK, Resume
<1>7. NotifiedOnce'
  BY <1>1 DEF IInv, NotifiedOnce, Resume
<1>8. QED
  BY <1>3, <1>6, <1>7 DEF IInv

LEMMA NextKeeps == IInv /\ [Next]_vars => IInv'
<1> SUFFICES ASSUME IInv, [Next]_vars PROVE IInv'
  OBVIOUS
<1>1. ASSUME NEW t \in Command, Execute(t, Scheduled) \/ Execute(t, Check)
      PROVE  IInv'
  BY <1>1, ExecuteKeeps, ChecksAssumption DEF Slot
<1>2. ASSUME NEW t \in Handler, NEW e \in Event, Handle(t, e)
      PROVE  IInv'
  BY <1>2, HandleKeeps DEF Slot
<1>3. ASSUME NEW t \in Slot, Proceed(t) \/ Throw(t)
      PROVE  IInv'
  BY <1>3, AnswerKeeps, ApplyKeeps, ResumeKeeps, ThrowKeeps DEF Proceed
<1>4. CASE GracePeriodEnds
  <2>1. late' \in BOOLEAN
    BY <1>4, Zenon DEF GracePeriodEnds
  <2>2. QED
    BY <1>4, <2>1 DEF IInv, TypeOK, OneGraceRun, NotifiedOnce, GracePeriodEnds
<1>5. ASSUME NEW c \in Check, Change(c)
      PROVE  IInv'
  BY <1>5 DEF IInv, TypeOK, OneGraceRun, NotifiedOnce, Change
<1>6. CASE UNCHANGED vars
  BY <1>6 DEF IInv, TypeOK, OneGraceRun, NotifiedOnce, vars
<1>7. QED
  BY <1>1, <1>2, <1>3, <1>4, <1>5, <1>6 DEF Next

LEMMA Inductive == Spec => []IInv
BY InitHolds, NextKeeps, PTL DEF Spec

\* Results, runs and the flags of the grace period keep their types
\* (healthCheckService.ts).
THEOREM TypeCorrect == Spec => []TypeOK
<1>1. IInv => TypeOK
  BY DEF IInv
<1>2. QED
  BY <1>1, Inductive, PTL

\* After the grace period every failure that is held was notified exactly once,
\* and before its end none (healthCheckService.ts:196-203 and :252-264).
THEOREM ToldOnce == Spec => []NotifiedOnce
<1>1. IInv => NotifiedOnce
  BY DEF IInv
<1>2. QED
  BY <1>1, Inductive, PTL
=============================================================================
