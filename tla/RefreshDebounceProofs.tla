------------------------ MODULE RefreshDebounceProofs ------------------------
(***************************************************************************)
(* No request for a refresh is forgotten, for any number of refreshes, any *)
(* length of the debounce and either value of executeRestartsTimer.        *)
(***************************************************************************)
EXTENDS RefreshDebounce, FiniteSetTheorems, TLAPS

\* The counter of the debouncer counts the refreshes that run.
Counted == paused = Cardinality(running)

IInv ==
  /\ TypeOK
  /\ Counted
  /\ NothingForgotten
  /\ QuietWhileRefreshing

\* What the counter says about the set it counts.
LEMMA CountedNumber ==
  ASSUME TypeOK, Counted
  PROVE  /\ IsFiniteSet(running)
         /\ paused \in Nat
         /\ paused = 0 <=> running = {}
<1>1. IsFiniteSet(running)
  BY FiniteAssumption, FS_Subset DEF TypeOK
<1>2. QED
  BY <1>1, FS_CardinalityType, FS_EmptySet DEF Counted

LEMMA InitHolds == Init => IInv
<1>1. Cardinality({}) = 0
  BY FS_EmptySet
<1>2. Init => triggered \in BOOLEAN /\ unseen \in BOOLEAN
  BY Zenon DEF Init
<1>3. Init => TypeOK
  BY <1>2, DurationAssumption, MaxQueuedAssumption DEF Init, TypeOK
<1>4. Init => Counted /\ NothingForgotten /\ QuietWhileRefreshing
  BY <1>1 DEF Init, Counted, NothingForgotten, QuietWhileRefreshing
<1>5. QED
  BY <1>3, <1>4 DEF IInv

\* A request starts the timer, or leaves it to the refresh that pauses it.
LEMMA ExecuteKeeps == ASSUME IInv, Execute PROVE IInv'
<1>1. paused \in Nat /\ (paused = 0 <=> running = {})
  BY CountedNumber DEF IInv
<1>2. TypeOK'
  BY DurationAssumption DEF IInv, TypeOK, Execute
<1>3. Counted'
  BY DEF IInv, Counted, Execute
<1>4. NothingForgotten'
  BY <1>1, DurationAssumption DEF IInv, NothingForgotten, Execute
<1>5. QuietWhileRefreshing'
  BY <1>1 DEF IInv, QuietWhileRefreshing, Execute
<1>6. QED
  BY <1>2, <1>3, <1>4, <1>5 DEF IInv

LEMMA PauseKeeps ==
  ASSUME IInv, NEW r \in Refresher, Pause(r)
  PROVE  IInv'
<1>1. IsFiniteSet(running) /\ paused \in Nat
  BY CountedNumber DEF IInv
<1>2. TypeOK'
  <2>1. triggered' \in BOOLEAN /\ unseen' \in BOOLEAN
    BY Zenon DEF IInv, TypeOK, Pause
  <2>2. QED
    BY <1>1, <2>1, DurationAssumption, MaxQueuedAssumption DEF IInv, TypeOK, Pause
<1>3. Counted'
  <2>1. Cardinality(running \cup {r}) = Cardinality(running) + 1
    BY <1>1, FS_AddElement DEF Pause
  <2>2. QED
    BY <2>1 DEF IInv, Counted, Pause
<1>4. NothingForgotten' /\ QuietWhileRefreshing'
  BY DEF NothingForgotten, QuietWhileRefreshing, Pause
<1>5. QED
  BY <1>2, <1>3, <1>4 DEF IInv

\* Only the last refresh that ends starts the timer, and only if it was
\* triggered; while others run, one of them is left to do it.
LEMMA ResumeKeeps ==
  ASSUME IInv, NEW r \in Refresher, Resume(r)
  PROVE  IInv'
<1>1. IsFiniteSet(running) /\ paused \in Nat
  BY CountedNumber DEF IInv
<1>2. Counted'
  <2>1. Cardinality(running \ {r}) = Cardinality(running) - 1
    BY <1>1, FS_RemoveElement DEF Resume
  <2>2. QED
    BY <2>1 DEF IInv, Counted, Resume
<1>3. TypeOK'
  BY <1>1, DurationAssumption DEF IInv, TypeOK, Resume
<1>4. paused' = 0 <=> running' = {}
  <2>1. IsFiniteSet(running')
    BY <1>1, FS_RemoveElement DEF Resume
  <2>2. QED
    BY <1>2, <2>1, FS_EmptySet DEF Counted
<1>5. timer = 0
  BY DEF IInv, QuietWhileRefreshing, Resume
<1>6. NothingForgotten'
  BY <1>4, <1>5, DurationAssumption DEF IInv, NothingForgotten, Resume
<1>7. QuietWhileRefreshing'
  BY <1>4, <1>5 DEF QuietWhileRefreshing, Resume
<1>8. QED
  BY <1>2, <1>3, <1>6, <1>7 DEF IInv

\* The timer runs out only while nobody pauses, so it is never in vain.
LEMMA TickKeeps == ASSUME IInv, Tick PROVE IInv'
<1>1. paused \in Nat /\ (paused = 0 <=> running = {})
  BY CountedNumber DEF IInv
<1>2. Counted'
  BY DEF IInv, Counted, Tick
<1>3. CASE timer = 1 /\ Fire
  <2>1. paused = 0 /\ running = {}
    BY <1>1, <1>3 DEF IInv, QuietWhileRefreshing
  <2>2. TypeOK'
    <3>1. triggered' \in BOOLEAN /\ unseen' \in BOOLEAN
      BY <1>3, <2>1, Zenon DEF IInv, TypeOK, Tick, Fire
    <3>2. QED
      BY <1>3, <2>1, <3>1, DurationAssumption, MaxQueuedAssumption
      DEF IInv, TypeOK, Tick, Fire
  <2>3. NothingForgotten' /\ QuietWhileRefreshing'
    BY <1>3, <2>1 DEF IInv, TypeOK, NothingForgotten, QuietWhileRefreshing,
                      Tick, Fire
  <2>4. QED
    BY <1>2, <2>2, <2>3 DEF IInv
<1>4. CASE ~(timer = 1 /\ Fire)
  <2>1. /\ timer # 1
        /\ timer'  = IF timer = 0 THEN 0 ELSE timer - 1
        /\ waited' = IF timer > 0 /\ waited <= Duration THEN waited + 1 ELSE waited
        /\ UNCHANGED <<paused, triggered, running, queued, unseen>>
    BY <1>4 DEF Tick
  <2>2. TypeOK'
    BY <2>1, DurationAssumption, MaxQueuedAssumption DEF IInv, TypeOK
  <2>3. NothingForgotten' /\ QuietWhileRefreshing'
    BY <2>1 DEF IInv, TypeOK, NothingForgotten, QuietWhileRefreshing
  <2>4. QED
    BY <1>2, <2>2, <2>3 DEF IInv
<1>5. QED
  BY <1>3, <1>4

LEMMA ScheduleKeeps == ASSUME IInv, Schedule PROVE IInv'
BY MaxQueuedAssumption
   DEF IInv, TypeOK, Counted, NothingForgotten, QuietWhileRefreshing, Schedule

LEMMA NextKeeps == IInv /\ [Next]_vars => IInv'
<1> SUFFICES ASSUME IInv, [Next]_vars PROVE IInv'
  OBVIOUS
<1>1. CASE Execute
  BY <1>1, ExecuteKeeps
<1>2. CASE Tick
  BY <1>2, TickKeeps
<1>3. CASE Schedule
  BY <1>3, ScheduleKeeps
<1>4. ASSUME NEW r \in Refresher, Pause(r) \/ Resume(r) PROVE IInv'
  BY <1>4, PauseKeeps, ResumeKeeps
<1>5. CASE UNCHANGED vars
  BY <1>5 DEF vars, IInv, TypeOK, Counted, NothingForgotten, QuietWhileRefreshing
<1>6. QED
  BY <1>1, <1>2, <1>3, <1>4, <1>5 DEF Next

LEMMA Inductive == Spec => []IInv
BY InitHolds, NextKeeps, PTL DEF Spec

\* The counter of pauses, the timer and the queue of refreshes keep their types
\* (debouncer.ts).
THEOREM TypeCorrect == Spec => []TypeOK
<1>1. IInv => TypeOK
  BY DEF IInv
<1>2. QED
  BY <1>1, Inductive, PTL

\* What happens while refreshes run, overlap, end and are queued leads to
\* another refresh, however many of them there are (debouncer.ts, resume).
THEOREM NothingLost == Spec => []NothingForgotten
<1>1. IInv => NothingForgotten
  BY DEF IInv
<1>2. QED
  BY <1>1, Inductive, PTL

\* The timer never runs while a refresh does: the callback's test of paused
\* is never what stops it (debouncer.ts, pause).
THEOREM Quiet == Spec => []QuietWhileRefreshing
<1>1. IInv => QuietWhileRefreshing
  BY DEF IInv
<1>2. QED
  BY <1>1, Inductive, PTL
=============================================================================
