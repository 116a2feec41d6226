---------------------------- MODULE CommandProofs ----------------------------
(***************************************************************************)
(* The command queue for any number of commands and consumers and any set  *)
(* of bodies, and the command subsystem around it with restarts and failed *)
(* writes: no handler is called twice for one command, rows and the shared *)
(* context tell who runs, and every step moves the commands along the life *)
(* that CommandLifecycle promises.                                         *)
(***************************************************************************)
EXTENDS CommandExecutor, TLAPS

(***************************************************************************)
(* The queue and its consumers (CommandQueue).                             *)
(***************************************************************************)
\* Every started command is in the hands of exactly one busy consumer.
Held ==
  /\ \A w \in Worker : pc[w] = "busy" <=> task[w] # NoCommand
  /\ \A w \in Worker : task[w] # NoCommand => status[task[w]] = "Started"
  /\ \A w, v \in Worker : task[w] = task[v] /\ task[w] # NoCommand => w = v
  /\ \A c \in Command : status[c] = "Started" => \E w \in Worker : task[w] = c

LEMMA PulseType ==
  ASSUME NEW p \in [Worker -> PC]
  PROVE  /\ Pulse(p) \in [Worker -> PC]
         /\ \A w \in Worker : Pulse(p)[w] # "waiting"
         /\ \A w \in Worker : Pulse(p)[w] = "busy" <=> p[w] = "busy"
BY DEF Pulse, PC

\* Every variable keeps its type (the statuses tryGet, update and
\* removeIfQueued assign, the four places a consumer loop can be at).
THEOREM TypeCorrect == Spec => []TypeOK
<1>1. Init => TypeOK
  BY BodiesAssumption DEF Init, TypeOK, Status, PC
<1>2. TypeOK /\ [Next]_queueVars => TypeOK'
  <2> SUFFICES ASSUME TypeOK, [Next]_queueVars PROVE TypeOK'
    OBVIOUS
  <2> USE DEF TypeOK, Status
  <2>1. ASSUME NEW c \in Command, NEW b \in Bodies, Add(c, b) PROVE TypeOK'
    BY <2>1, PulseType DEF Add
  <2>2. ASSUME NEW c \in Command, RemoveIfQueued(c) PROVE TypeOK'
    BY <2>2, PulseType DEF RemoveIfQueued
  <2>3. ASSUME NEW S \in SUBSET Ended, RemoveMany(S) PROVE TypeOK'
    BY <2>3, PulseType DEF RemoveMany
  <2>4. ASSUME NEW w \in Worker, Turn(w) PROVE TypeOK'
    BY <2>4 DEF Turn, Park, Leave, Take, PC
  <2>5. ASSUME NEW w \in Worker, NEW s \in {"Completed", "Failed"}, Finish(w, s)
        PROVE  TypeOK'
    BY <2>5, PulseType DEF Finish, PC
  <2>6. CASE Abort
    BY <2>6, PulseType DEF Abort
  <2>7. CASE UNCHANGED queueVars
    BY <2>7 DEF queueVars
  <2>8. QED
    BY <2>1, <2>2, <2>3, <2>4, <2>5, <2>6, <2>7 DEF Next
<1>3. QED
  BY <1>1, <1>2, PTL DEF Spec

-----------------------------------------------------------------------------
LEMMA HeldInvariant == Spec => []Held
<1>1. Init => Held
  BY DEF Init, Held
<1>2. TypeOK /\ Held /\ [Next]_queueVars => Held'
  <2> SUFFICES ASSUME TypeOK, Held, [Next]_queueVars PROVE Held'
    OBVIOUS
  <2> USE CommandAssumption DEF TypeOK, Held, Status, PC
  <2>1. ASSUME NEW c \in Command, NEW b \in Bodies, Add(c, b) PROVE Held'
    BY <2>1, PulseType DEF Add
  <2>2. ASSUME NEW c \in Command, RemoveIfQueued(c) PROVE Held'
    BY <2>2, PulseType DEF RemoveIfQueued
  <2>3. ASSUME NEW S \in SUBSET Ended, RemoveMany(S) PROVE Held'
    <3>1. \A c \in Command : status'[c] = "Started" <=> status[c] = "Started"
      BY <2>3 DEF RemoveMany, Ended
    <3>2. \A w \in Worker : pc'[w] = "busy" <=> pc[w] = "busy"
      BY <2>3, PulseType DEF RemoveMany
    <3>3. task' = task
      BY <2>3 DEF RemoveMany
    <3>4. QED
      BY <3>1, <3>2, <3>3
  <2>4. ASSUME NEW w \in Worker, Turn(w) PROVE Held'
    <3>1. CASE Park(w)
      BY <3>1 DEF Park
    <3>2. CASE Leave(w)
      BY <3>2 DEF Leave
    <3>3. ASSUME NEW c \in Command, Take(w, c) PROVE Held'
      BY <3>3 DEF Take, IsNext, Eligible, Queued
    <3>4. QED
      BY <2>4, <3>1, <3>2, <3>3 DEF Turn
  <2>5. ASSUME NEW w \in Worker, NEW s \in {"Completed", "Failed"}, Finish(w, s)
        PROVE  Held'
    BY <2>5, PulseType DEF Finish
  <2>6. CASE Abort
    BY <2>6, PulseType DEF Abort
  <2>7. CASE UNCHANGED queueVars
    BY <2>7 DEF queueVars
  <2>8. QED
    BY <2>1, <2>2, <2>3, <2>4, <2>5, <2>6, <2>7 DEF Next
<1>3. QED
  BY <1>1, <1>2, TypeCorrect, PTL DEF Spec

\* Two consumers never run the same command: the status tryGet assigns
\* before yielding hides a command from every other consumer loop.
THEOREM HeldOnce == Spec => []StartedIsHeldOnce
<1>1. TypeOK /\ Held => StartedIsHeldOnce
  BY CommandAssumption DEF TypeOK, Held, StartedIsHeldOnce
<1>2. QED
  BY <1>1, TypeCorrect, HeldInvariant, PTL

-----------------------------------------------------------------------------
\* The set of started commands grows only by Take.
LEMMA StartedGrowsByTake ==
  ASSUME TypeOK, Held, [Next]_queueVars,
         ~\E w \in Worker : \E c \in Command : Take(w, c)
  PROVE  /\ Started' \subseteq Started
         /\ \A c \in Started : body'[c] = body[c]
<1> USE DEF TypeOK, Held, Started, Status
<1>1. ASSUME NEW c \in Command, NEW b \in Bodies, Add(c, b)
      PROVE  Started' \subseteq Started /\ \A d \in Started : body'[d] = body[d]
  BY <1>1 DEF Add
<1>2. ASSUME NEW c \in Command, RemoveIfQueued(c)
      PROVE  Started' \subseteq Started /\ \A d \in Started : body'[d] = body[d]
  BY <1>2 DEF RemoveIfQueued
<1>3. ASSUME NEW S \in SUBSET Ended, RemoveMany(S)
      PROVE  Started' \subseteq Started /\ \A d \in Started : body'[d] = body[d]
  BY <1>3 DEF RemoveMany
<1>4. ASSUME NEW w \in Worker, Park(w) \/ Leave(w)
      PROVE  Started' \subseteq Started /\ \A d \in Started : body'[d] = body[d]
  BY <1>4 DEF Park, Leave
<1>5. ASSUME NEW w \in Worker, NEW s \in {"Completed", "Failed"}, Finish(w, s)
      PROVE  Started' \subseteq Started /\ \A d \in Started : body'[d] = body[d]
  BY <1>5 DEF Finish
<1>6. ASSUME Abort \/ UNCHANGED queueVars
      PROVE  Started' \subseteq Started /\ \A d \in Started : body'[d] = body[d]
  BY <1>6 DEF Abort, queueVars
<1>7. QED
  BY <1>1, <1>2, <1>3, <1>4, <1>5, <1>6 DEF Next, Turn

\* What a Take does to the started commands.
LEMMA TakeStarts ==
  ASSUME TypeOK, NEW w \in Worker, NEW c \in Command, Take(w, c)
  PROVE  Started' = Started \cup {c} /\ body' = body /\ c \notin Started
BY DEF TypeOK, Take, IsNext, Eligible, Queued, Started, Status

\* An exclusive command runs alone (the two early returns at the end of
\* tryGetInternal): with any number of workers, in any order of completions.
THEOREM ExclusiveAlone == Spec => []ExclusiveRunsAlone
<1>1. Init => ExclusiveRunsAlone
  BY DEF Init, ExclusiveRunsAlone, Started
<1>2. TypeOK /\ Held /\ ExclusiveRunsAlone /\ [Next]_queueVars
        => ExclusiveRunsAlone'
  <2> SUFFICES ASSUME TypeOK, Held, ExclusiveRunsAlone, [Next]_queueVars
               PROVE  ExclusiveRunsAlone'
    OBVIOUS
  <2>1. ASSUME NEW w \in Worker, NEW c \in Command, Take(w, c)
        PROVE  ExclusiveRunsAlone'
    <3>1. Started' = Started \cup {c} /\ body' = body /\ c \notin Started
      BY <2>1, TakeStarts
    <3>2. /\ \A s \in Started : ~body[s].isExclusive
          /\ body[c].isExclusive => Started = {}
      BY <2>1 DEF Take, IsNext
    <3>3. QED
      BY <3>1, <3>2 DEF ExclusiveRunsAlone
  <2>2. CASE ~\E w \in Worker : \E c \in Command : Take(w, c)
    <3>1. Started' \subseteq Started /\ \A c \in Started : body'[c] = body[c]
      BY <2>2, StartedGrowsByTake
    <3>2. QED
      BY <3>1 DEF ExclusiveRunsAlone
  <2>3. QED
    BY <2>1, <2>2
<1>3. QED
  BY <1>1, <1>2, TypeCorrect, HeldInvariant, PTL DEF Spec

\* Two started commands never both need the disk and are never two of one
\* type-exclusive class (the filters of tryGetInternal).
THEOREM ResourcesApart == Spec => []ResourcesNotShared
<1>1. Init => ResourcesNotShared
  BY DEF Init, ResourcesNotShared, Started
<1>2. TypeOK /\ Held /\ ResourcesNotShared /\ [Next]_queueVars
        => ResourcesNotShared'
  <2> SUFFICES ASSUME TypeOK, Held, ResourcesNotShared, [Next]_queueVars
               PROVE  ResourcesNotShared'
    OBVIOUS
  <2>1. ASSUME NEW w \in Worker, NEW c \in Command, Take(w, c)
        PROVE  ResourcesNotShared'
    <3>1. Started' = Started \cup {c} /\ body' = body /\ c \notin Started
      BY <2>1, TakeStarts
    <3>2. \A s \in Started :
            /\ body[s].requiresDiskAccess => ~body[c].requiresDiskAccess
            /\ body[s].isTypeExclusive    => body[c].name # body[s].name
      BY <2>1 DEF Take, IsNext, Eligible
    <3>3. \A s \in Started :
            body[c].isTypeExclusive => body[c].name # body[s].name
      BY <3>2, OneClassPerName DEF TypeOK, Started
    <3>4. QED
      BY <3>1, <3>2, <3>3 DEF ResourcesNotShared
  <2>2. CASE ~\E w \in Worker : \E c \in Command : Take(w, c)
    <3>1. Started' \subseteq Started /\ \A c \in Started : body'[c] = body[c]
      BY <2>2, StartedGrowsByTake
    <3>2. QED
      BY <3>1 DEF ResourcesNotShared
  <2>3. QED
    BY <2>1, <2>2
<1>3. QED
  BY <1>1, <1>2, TypeCorrect, HeldInvariant, PTL DEF Spec

-----------------------------------------------------------------------------
\* No consumer stays parked while tryGet has a command for it: every step
\* that can make a command available also resolves every waiter.
THEOREM WakeupsAreNotLost == Spec => []NoLostWakeup
<1>1. Init => NoLostWakeup
  BY DEF Init, NoLostWakeup
<1>2. TypeOK /\ NoLostWakeup /\ [Next]_queueVars => NoLostWakeup'
  <2> SUFFICES ASSUME TypeOK, NoLostWakeup, [Next]_queueVars
               PROVE  NoLostWakeup'
    OBVIOUS
  <2> USE DEF TypeOK, NoLostWakeup
  <2>1. ASSUME NEW c \in Command, NEW b \in Bodies, Add(c, b)
        PROVE  NoLostWakeup'
    BY <2>1, PulseType DEF Add
  <2>2. ASSUME NEW c \in Command, RemoveIfQueued(c) PROVE NoLostWakeup'
    BY <2>2, PulseType DEF RemoveIfQueued
  <2>3. ASSUME NEW S \in SUBSET Ended, RemoveMany(S) PROVE NoLostWakeup'
    BY <2>3, PulseType DEF RemoveMany
  <2>4. ASSUME NEW w \in Worker, Park(w) PROVE NoLostWakeup'
    BY <2>4 DEF Park, IsNext, Eligible, Queued, Started, Before
  <2>5. ASSUME NEW w \in Worker, Leave(w) PROVE NoLostWakeup'
    BY <2>5 DEF Leave
  <2>6. ASSUME NEW w \in Worker, NEW c \in Command, Take(w, c)
        PROVE  NoLostWakeup'
    BY <2>6 DEF Take
  <2>7. ASSUME NEW w \in Worker, NEW s \in {"Completed", "Failed"}, Finish(w, s)
        PROVE  NoLostWakeup'
    BY <2>7, PulseType DEF Finish
  <2>8. CASE Abort
    BY <2>8, PulseType DEF Abort
  <2>9. CASE UNCHANGED queueVars
    BY <2>9 DEF queueVars, IsNext, Eligible, Queued, Started, Before
  <2>10. QED
    BY <2>1, <2>2, <2>3, <2>4, <2>5, <2>6, <2>7, <2>8, <2>9 DEF Next, Turn
<1>3. QED
  BY <1>1, <1>2, TypeCorrect, PTL DEF Spec

-----------------------------------------------------------------------------
\* Once the signal is aborted no consumer loop takes another command, from
\* whatever point of its turn it resumes.
THEOREM AbortStopsStarts == Spec => NothingStartsAfterAbort
<1>1. TypeOK /\ Held /\ [Next]_queueVars
        => [aborted => Started' \subseteq Started]_queueVars
  <2> SUFFICES ASSUME TypeOK, Held, [Next]_queueVars, aborted
               PROVE  Started' \subseteq Started
    OBVIOUS
  <2>1. ~\E w \in Worker : \E c \in Command : Take(w, c)
    BY DEF Take
  <2>2. QED
    BY <2>1, StartedGrowsByTake
<1>2. QED
  BY <1>1, TypeCorrect, HeldInvariant, PTL DEF Spec, NothingStartsAfterAbort

\* A command behind a queued exclusive one overtakes it only while a started
\* command keeps the exclusive one back.
THEOREM ExclusiveInTurn == Spec => ExclusiveKeepsItsTurn
<1> DEFINE Overtaken(e, d) ==
      /\ status[e] = "Queued" /\ body[e].isExclusive
      /\ status[d] = "Queued" /\ status'[d] = "Started" /\ Before(e, d)
<1> DEFINE KeptBack(e) ==
      \E s \in Started :
         \/ body[s].isLongRunning
         \/ body[s].requiresDiskAccess /\ body[e].requiresDiskAccess
         \/ body[s].isTypeExclusive /\ body[s].name = body[e].name
<1>1. TypeOK /\ Held /\ [Next]_queueVars
        => [\A e, d \in Command : Overtaken(e, d) => KeptBack(e)]_queueVars
  <2> SUFFICES ASSUME TypeOK, Held, [Next]_queueVars,
                      NEW e \in Command, NEW d \in Command, Overtaken(e, d)
               PROVE  KeptBack(e)
    OBVIOUS
  <2>1. PICK w \in Worker, c \in Command : Take(w, c)
    <3>1. d \in Started' /\ d \notin Started
      BY DEF Started, TypeOK
    <3>2. QED
      BY <3>1, StartedGrowsByTake
  <2>2. c = d
    BY <2>1 DEF Take, TypeOK
  <2>3. e # d /\ ~Before(d, e)
    <3>1. body[e].priority \in Int /\ body[d].priority \in Int
      BY BodiesAssumption DEF TypeOK, BodyType
    <3>2. e \in Int /\ d \in Int
      BY CommandAssumption
    <3>3. QED
      BY <3>1, <3>2 DEF Before
  <2>4. e \notin Eligible
    BY <2>1, <2>2, <2>3 DEF Take, IsNext
  <2>5. QED
    BY <2>4 DEF Eligible, Queued
<1>2. QED
  BY <1>1, TypeCorrect, HeldInvariant, PTL DEF Spec, ExclusiveKeepsItsTurn

-----------------------------------------------------------------------------
(***************************************************************************)
(* Workers, rows and the progress context (CommandExecutor).               *)
(***************************************************************************)
USE CommandAssumption

\* What a worker holds agrees with its stage, and two workers hold different
\* commands.
Hands ==
  /\ \A w \in Worker : (stage[w] # "idle" <=> task[w] # NoCommand)
                       /\ (pc[w] = "busy" <=> task[w] # NoCommand)
  /\ \A w \in Worker : task[w] # NoCommand => status[task[w]] = "Started"
  /\ \A w, v \in Worker : task[w] = task[v] /\ task[w] # NoCommand => w = v

\* A command in hand that has not run yet is still queued in the table.
HandsAndRows ==
  \A w \in Worker : stage[w] = "yielded" => row[task[w]] = "Queued"

\* Unknown to the table, unknown to the queue; queued here, queued there.
Mirror ==
  \A c \in Command :
    /\ row[c] = "None" => status[c] = "Absent"
    /\ status[c] = "Queued" => row[c] = "Queued"
    /\ row[c] = "Queued" => status[c] # "Absent"

\* A command that ran has left the states in which it could be run again.
RunIsRecorded ==
  \A c \in Command :
    /\ runs[c] \in {0, 1}
    /\ runs[c] = 1 => row[c] \notin {"None", "Queued"}

IInv == ExecTypeOK /\ Hands /\ HandsAndRows /\ Mirror /\ RunIsRecorded

LEMMA PulseFacts ==
  ASSUME NEW p \in [Worker -> PC]
  PROVE  /\ Pulse(p) \in [Worker -> PC]
         /\ \A w \in Worker : Pulse(p)[w] = "busy" <=> p[w] = "busy"
BY DEF Pulse, PC

LEMMA ParsedIsBody ==
  ASSUME NEW k \in Kinds PROVE Parsed(k) \in Bodies
BY ParsedAssumption

LEMMA InitIInv == ExecInit => IInv
<1> SUFFICES ASSUME ExecInit PROVE IInv
  OBVIOUS
<1>1. TypeOK
  BY BodiesAssumption DEF ExecInit, Init, TypeOK, Status, PC
<1>2. StoreTypeOK
  BY KindsAssumption, MaxDbErrorsAssumption
  DEF ExecInit, StoreInit, StoreTypeOK, RowStatus, Result
<1>3. ExecTypeOK
  BY <1>1, <1>2, MaxRestartsAssumption DEF ExecInit, ExecTypeOK, Stage, Result
<1>4. Hands /\ HandsAndRows /\ Mirror /\ RunIsRecorded
  BY DEF ExecInit, Init, StoreInit, Hands, HandsAndRows, Mirror, RunIsRecorded
<1>5. QED
  BY <1>3, <1>4 DEF IInv

LEMMA InsertKeepsIInv ==
  ASSUME IInv, NEW f, f \in [DOMAIN f -> Kinds], DOMAIN f \subseteq Command,
         \A c \in DOMAIN f : row[c] = "None", Insert(f), UNCHANGED execVars
  PROVE  IInv'
<1> USE DEF IInv, ExecTypeOK, TypeOK, StoreTypeOK, Status, RowStatus, PC, Stage
<1>1. ExecTypeOK'
  BY PulseFacts, ParsedIsBody DEF Insert, execVars
<1>2. Hands'
  BY PulseFacts DEF Hands, Mirror, Insert, execVars
<1>3. HandsAndRows' /\ Mirror' /\ RunIsRecorded'
  BY DEF Hands, HandsAndRows, Mirror, RunIsRecorded, Insert, execVars
<1>4. QED
  BY <1>1, <1>2, <1>3

LEMMA PushKeepsIInv ==
  ASSUME IInv, \/ \E k \in Kinds : PushCommand(k)
               \/ PushCommands(2)
  PROVE  IInv'
<1>1. ASSUME NEW n, NEW f \in [NextIds(n) -> Kinds]
      PROVE  /\ f \in [DOMAIN f -> Kinds] /\ DOMAIN f \subseteq Command
             /\ \A c \in DOMAIN f : row[c] = "None"
  BY <1>1 DEF NextIds
<1>2. \E n : \E f \in [NextIds(n) -> Kinds] : Insert(f) /\ UNCHANGED execVars
  BY DEF PushCommand, PushCommands, Push, PushMany
<1>3. QED
  BY <1>1, <1>2, InsertKeepsIInv

LEMMA RemovalKeepsIInv ==
  ASSUME IInv, \/ \E c \in Command : CancelCommand(c)
               \/ \E old \in SUBSET Ended, ancient \in SUBSET Command :
                    Clean(old, ancient)
  PROVE  IInv'
<1> USE DEF IInv, ExecTypeOK, TypeOK, StoreTypeOK, Status, RowStatus, PC, Stage
<1>1. ASSUME NEW c \in Command, CancelCommand(c) PROVE IInv'
  BY <1>1, PulseFacts DEF CancelCommand, Cancel, RemoveIfQueued, storeVars,
     execVars, Hands, HandsAndRows, Mirror, RunIsRecorded
<1>2. ASSUME NEW old \in SUBSET Ended, NEW ancient \in SUBSET Command,
             Clean(old, ancient)
      PROVE  IInv'
  <2>1. ExecTypeOK'
    BY <1>2, PulseFacts DEF Clean, CleanCommands, RemoveMany, execVars
  <2>2. \A c \in Command : status[c] \in {"Queued", "Started", "Absent"}
                             => status'[c] = status[c]
    BY <1>2 DEF Clean, CleanCommands, RemoveMany, Ended
  <2>3. \A c \in Command : row[c] \in {"None", "Queued"} => row'[c] = row[c]
    BY <1>2 DEF Clean, CleanCommands
  <2>4. \A c \in Command : /\ status'[c] \in {status[c], "Removed"}
                           /\ row'[c] \in {row[c], "Gone"}
    BY <1>2 DEF Clean, CleanCommands, RemoveMany
  <2>5. /\ task' = task /\ stage' = stage /\ runs' = runs
        /\ \A w \in Worker : pc'[w] = "busy" <=> pc[w] = "busy"
    BY <1>2, PulseFacts DEF Clean, CleanCommands, RemoveMany, execVars
  <2>z. \A w \in Worker : task[w] # NoCommand =>
          status[task[w]] = "Started" /\ task[w] \in Command
    BY DEF Hands
  <2>6. Hands'
    BY <2>z, <2>2, <2>5 DEF Hands
  <2>7. HandsAndRows'
    BY <2>z, <2>3, <2>5 DEF Hands, HandsAndRows
  <2>8. Mirror'
    BY <2>2, <2>3, <2>4 DEF Mirror
  <2>9. RunIsRecorded'
    BY <2>4, <2>5 DEF RunIsRecorded
  <2>10. QED
    BY <2>1, <2>6, <2>7, <2>8, <2>9
<1>3. QED
  BY <1>1, <1>2

\* However an execution ends, in memory and in the table.
LEMMA EndKeepsIInv ==
  ASSUME IInv, NEW w \in Worker, stage[w] # "idle", Release(w),
         pushed' = pushed, result' \in [Command -> Result],
         NEW s \in {"Completed", "Failed"},
         EndWritten(w, s) \/ EndWrittenLate(w) \/ EndLost(w)
  PROVE  IInv'
<1> USE DEF IInv, ExecTypeOK, TypeOK, StoreTypeOK, Status, RowStatus, PC, Stage
<1> DEFINE c == task[w]
<1>1. /\ c \in Command /\ status[c] = "Started"
      /\ \A v \in Worker : v # w => task[v] # c
  BY DEF Hands
<1>2. /\ status' \in [Command -> Status] /\ status'[c] \in {"Completed", "Failed"}
      /\ \A d \in Command : d # c => status'[d] = status[d]
      /\ row' \in [Command -> RowStatus]
      /\ \A d \in Command : d # c => row'[d] = row[d]
      /\ row'[c] \in {row[c], "Completed", "Failed"}
      /\ pc' \in [Worker -> PC]
      /\ \A v \in Worker : v # w => (pc'[v] = "busy" <=> pc[v] = "busy")
      /\ pc'[w] = "ready"
      /\ task' = [task EXCEPT ![w] = NoCommand]
      /\ body' = body /\ aborted' = aborted
      /\ dbErrors' \in 0..MaxDbErrors
  <2>1. CASE EndWritten(w, s)
    BY <2>1, <1>1, PulseFacts DEF EndWritten, Finish
  <2>2. CASE EndWrittenLate(w)
    BY <2>2, <1>1, PulseFacts, MaxDbErrorsAssumption DEF EndWrittenLate, Finish
  <2>3. CASE EndLost(w)
    BY <2>3, <1>1, MaxDbErrorsAssumption DEF EndLost
  <2>4. QED
    BY <2>1, <2>2, <2>3
<1>3. /\ stage' = [stage EXCEPT ![w] = "idle"] /\ runs' = runs
      /\ context' \in Command \cup {NoCommand}
      /\ reported' = reported /\ restarts' = restarts
  BY DEF Release
<1>4. ExecTypeOK'
  BY <1>1, <1>2, <1>3
<1>5. Hands' /\ HandsAndRows'
  <2>1. \A v \in Worker : v # w /\ task[v] # NoCommand =>
          task[v] \in Command /\ task[v] # c /\ status[task[v]] = "Started"
    BY <1>1 DEF Hands
  <2>2. /\ task'[w] = NoCommand /\ stage'[w] = "idle"
        /\ \A v \in Worker : v # w => task'[v] = task[v] /\ stage'[v] = stage[v]
    BY <1>2, <1>3
  <2>3. Hands'
    <3> HIDE DEF ExecTypeOK, c
    <3>1. \A v \in Worker : (stage'[v] # "idle" <=> task'[v] # NoCommand)
                            /\ (pc'[v] = "busy" <=> task'[v] # NoCommand)
      BY <1>2, <2>2 DEF Hands
    <3>2. ASSUME NEW v \in Worker, task'[v] # NoCommand
          PROVE  status'[task'[v]] = "Started"
      <4>1. v # w /\ task'[v] = task[v]
        BY <2>2, <3>2
      <4>2. task[v] \in Command /\ task[v] # c /\ status[task[v]] = "Started"
        BY <2>1, <3>2, <4>1
      <4>3. status'[task[v]] = status[task[v]]
        BY <1>2, <4>2
      <4>4. QED
        BY <4>1, <4>2, <4>3
    <3>3. \A u, v \in Worker :
            task'[u] = task'[v] /\ task'[u] # NoCommand => u = v
      BY <2>2 DEF Hands
    <3>4. QED
      BY <3>1, <3>2, <3>3 DEF Hands
  <2>4. HandsAndRows'
    <3> HIDE DEF ExecTypeOK, c
    <3> SUFFICES ASSUME NEW v \in Worker, stage'[v] = "yielded"
                 PROVE  row'[task'[v]] = "Queued"
      BY DEF HandsAndRows
    <3>1. v # w /\ task'[v] = task[v] /\ stage[v] = "yielded"
      BY <2>2
    <3>2. task[v] \in Command /\ task[v] # c /\ row[task[v]] = "Queued"
      BY <2>1, <3>1 DEF Hands, HandsAndRows
    <3>3. row'[task[v]] = row[task[v]]
      BY <1>2, <3>2
    <3>4. QED
      BY <3>1, <3>2, <3>3
  <2>5. QED
    BY <2>3, <2>4
<1>6. Mirror' /\ RunIsRecorded'
  BY <1>1, <1>2, <1>3 DEF Mirror, RunIsRecorded
<1>7. QED
  BY <1>4, <1>5, <1>6

LEMMA ProceedKeepsIInv ==
  ASSUME IInv, NEW w \in Worker, Proceed(w)
  PROVE  IInv'
<1> USE DEF IInv, ExecTypeOK, TypeOK, StoreTypeOK, Status, RowStatus, PC, Stage
<1>1. CASE Idle(w)
  BY <1>1 DEF Idle, Park, Leave, storeVars, execVars, Hands, HandsAndRows,
     Mirror, RunIsRecorded
<1>2. ASSUME NEW c \in Command, Fetch(w, c) PROVE IInv'
  <2>1. status[c] = "Queued"
    BY <1>2 DEF Fetch, Take, IsNext, Eligible, Queued
  <2>2. ExecTypeOK'
    BY <1>2 DEF Fetch, Take, storeVars
  <2>3. Hands'
    BY <1>2, <2>1 DEF Fetch, Take, Hands
  <2>4. HandsAndRows'
    BY <1>2, <2>1 DEF Fetch, Take, HandsAndRows, Mirror, storeVars
  <2>5. Mirror' /\ RunIsRecorded'
    BY <1>2, <2>1 DEF Fetch, Take, Mirror, RunIsRecorded, storeVars
  <2>6. QED
    BY <2>2, <2>3, <2>4, <2>5
<1>3. CASE ExecuteUnhandled(w)
  BY <1>3 DEF ExecuteUnhandled, storeVars, Hands, HandsAndRows, Mirror,
     RunIsRecorded
<1>4. CASE Execute(w)
  <2>z. stage[w] = "yielded"
    BY <1>4 DEF Execute
  <2>a. task[w] \in Command /\ status[task[w]] = "Started"
    BY <2>z DEF Hands
  <2>b. row[task[w]] = "Queued"
    BY <2>z DEF HandsAndRows
  <2>1. /\ task[w] \in Command /\ row[task[w]] = "Queued"
        /\ status[task[w]] = "Started" /\ runs[task[w]] = 0
    BY <2>a, <2>b DEF RunIsRecorded
  <2>2. ExecTypeOK'
    BY <1>4, <2>1 DEF Execute, Claimed, queueVars
  <2>3. Hands' /\ HandsAndRows'
    BY <1>4, <2>1 DEF Execute, queueVars, Hands, HandsAndRows
  <2>4. Mirror' /\ RunIsRecorded'
    BY <1>4, <2>1 DEF Execute, queueVars, Mirror, RunIsRecorded
  <2>5. QED
    BY <2>2, <2>3, <2>4
<1>5. CASE ExecuteFails(w)
  <2>1. /\ EndWrittenLate(w) \/ EndLost(w)
        /\ Release(w) /\ UNCHANGED <<pushed, result>> /\ stage[w] = "yielded"
    BY <1>5 DEF ExecuteFails
  <2>2. QED
    BY <2>1, EndKeepsIInv
<1>6. QED
  BY <1>1, <1>2, <1>3, <1>4, <1>5 DEF Proceed

LEMMA SettleKeepsIInv ==
  ASSUME IInv, NEW w \in Worker, Settle(w)
  PROVE  IInv'
<1>1. CASE Succeed(w)
  <2>1. /\ \E s \in {"Completed", "Failed"} :
             EndWritten(w, s) \/ EndWrittenLate(w) \/ EndLost(w)
        /\ Release(w) /\ pushed' = pushed /\ stage[w] = "running"
        /\ result' = [result EXCEPT ![task[w]] = IF @ = "Unknown" THEN "Successful" ELSE @]
    BY <1>1 DEF Succeed
  <2>2. result' \in [Command -> Result]
    BY <2>1 DEF IInv, ExecTypeOK, StoreTypeOK, Result
  <2>3. QED
    BY <2>1, <2>2, EndKeepsIInv
<1>2. CASE Reject(w)
  <2>1. /\ EndWritten(w, "Failed") \/ EndLost(w)
        /\ Release(w) /\ UNCHANGED <<pushed, result>> /\ stage[w] = "running"
    BY <1>2 DEF Reject
  <2>2. result' \in [Command -> Result]
    BY <2>1 DEF IInv, ExecTypeOK, StoreTypeOK
  <2>3. QED
    BY <2>1, <2>2, EndKeepsIInv
<1>3. QED
  BY <1>1, <1>2 DEF Settle

LEMMA ReportKeepsIInv ==
  ASSUME IInv, NEW w \in Worker, NEW r \in {"Successful", "Unsuccessful"},
         Report(w, r)
  PROVE  IInv'
<1> USE DEF IInv, ExecTypeOK, TypeOK, StoreTypeOK
<1>1. ExecTypeOK'
  BY DEF Report, queueVars, Result
<1>2. Hands' /\ HandsAndRows' /\ Mirror' /\ RunIsRecorded'
  BY DEF Report, queueVars, Hands, HandsAndRows, Mirror, RunIsRecorded
<1>3. QED
  BY <1>1, <1>2

LEMMA RestartKeepsIInv ==
  ASSUME IInv, Restart
  PROVE  IInv'
<1> USE DEF IInv, ExecTypeOK, TypeOK, StoreTypeOK, Status, RowStatus, PC, Stage
<1>1. ExecTypeOK'
  <2>1. body' \in [Command -> Bodies]
    BY ParsedIsBody DEF Restart
  <2>2. row' \in [Command -> RowStatus] /\ status' \in [Command -> Status]
    BY DEF Restart, OrphanedRows, Requeued
  <2>3. restarts' \in 0..MaxRestarts
    BY MaxRestartsAssumption DEF Restart
  <2>4. QED
    BY <2>1, <2>2, <2>3 DEF Restart, Result
<1>2. Hands' /\ HandsAndRows'
  BY DEF Restart, Hands, HandsAndRows
<1>3. Mirror' /\ RunIsRecorded'
  BY DEF Restart, OrphanedRows, Requeued, Mirror, RunIsRecorded
<1>4. QED
  BY <1>1, <1>2, <1>3

LEMMA StepKeepsIInv == IInv /\ [ExecNext]_vars => IInv'
<1> SUFFICES ASSUME IInv, [ExecNext]_vars PROVE IInv'
  OBVIOUS
<1>1. CASE Shutdown
  BY <1>1, PulseFacts DEF Shutdown, Abort, storeVars, execVars, IInv,
     ExecTypeOK, TypeOK, StoreTypeOK, Hands, HandsAndRows, Mirror, RunIsRecorded
<1>2. CASE UNCHANGED vars
  BY <1>2 DEF vars, queueVars, storeVars, execVars, IInv,
     ExecTypeOK, TypeOK, StoreTypeOK, Hands, HandsAndRows, Mirror, RunIsRecorded
<1>3. QED
  BY <1>1, <1>2, PushKeepsIInv, RemovalKeepsIInv, ProceedKeepsIInv,
     SettleKeepsIInv, ReportKeepsIInv, RestartKeepsIInv DEF ExecNext

-----------------------------------------------------------------------------
\* Rows, items, workers and counters keep their types through every
\* operation, failed write and restart of the command subsystem.
THEOREM ExecTypeCorrect == ExecSpec => []ExecTypeOK
<1>1. IInv => ExecTypeOK
  BY DEF IInv
<1>2. QED
  BY <1>1, InitIInv, StepKeepsIInv, PTL DEF ExecSpec

\* No handler is called twice for one command, for any number of workers,
\* restarts at any point and failing writes: start() writes the row before
\* the handler is called, orphanStarted() keeps it out of the next queue.
THEOREM AtMostOnce == ExecSpec => []RunsAtMostOnce
<1>1. IInv => RunsAtMostOnce
  BY DEF IInv, RunIsRecorded, RunsAtMostOnce
<1>2. QED
  BY <1>1, InitIInv, StepKeepsIInv, PTL DEF ExecSpec

\* The in-memory queue and the table agree on what is still to be done.
THEOREM MirrorHolds == ExecSpec => []QueueMirrorsTable
<1>1. IInv => QueueMirrorsTable
  BY DEF IInv, Mirror, QueueMirrorsTable
<1>2. QED
  BY <1>1, InitIInv, StepKeepsIInv, PTL DEF ExecSpec

-----------------------------------------------------------------------------
\* start() writes the row before the handler is called, and only the end of
\* the handler, or the next process, writes it again.
RunningRowIsStarted ==
  \A w \in Worker : stage[w] = "running" => row[task[w]] = "Started"

\* Who runs what, and what is written of it: inductive together with IInv.
Context == ContextIsRunning /\ StartedRowIsRunning /\ RunningRowIsStarted

\* A step that leaves stages, context and started rows alone, and takes
\* nothing out of a worker's hands, disturbs neither part of Context.
LEMMA QuietKeepsContext ==
  ASSUME IInv, Context, context' = context, dbErrors' = dbErrors,
         \A w \in Worker : stage[w] = "running" <=> stage'[w] = "running",
         \A w \in Worker : stage[w] = "running" => task'[w] = task[w],
         \A c \in Command : row'[c] = "Started" <=> row[c] = "Started",
         \A c \in Command : row[c] = "Started" =>
           status'[c] = status[c] \/ status'[c] = "Removed"
  PROVE  Context'
<1>1. ContextIsRunning' /\ StartedRowIsRunning'
  BY DEF IInv, ExecTypeOK, StoreTypeOK, Context, ContextIsRunning,
     StartedRowIsRunning, Running
<1>2. RunningRowIsStarted'
  <2> SUFFICES ASSUME NEW w \in Worker, stage'[w] = "running"
               PROVE  row'[task'[w]] = "Started"
    BY DEF RunningRowIsStarted
  <2>1. task[w] \in Command /\ row[task[w]] = "Started"
    BY DEF IInv, ExecTypeOK, TypeOK, Hands, Context, RunningRowIsStarted
  <2>2. QED
    BY <2>1
<1>3. QED
  BY <1>1, <1>2 DEF Context

LEMMA EndKeepsContext ==
  ASSUME IInv, Context, NEW w \in Worker, stage[w] # "idle", Release(w),
         NEW s \in {"Completed", "Failed"},
         EndWritten(w, s) \/ EndWrittenLate(w) \/ EndLost(w)
  PROVE  Context'
<1> DEFINE c == task[w]
<1>1. /\ c \in Command /\ c # NoCommand
      /\ \A v \in Worker : v # w => task[v] # c
  BY DEF IInv, ExecTypeOK, TypeOK, Hands
<1>2. /\ \A v \in Worker : v # w => stage'[v] = stage[v] /\ task'[v] = task[v]
      /\ context' = IF context = c THEN NoCommand ELSE context
      /\ \A d \in Command : d # c => row'[d] = row[d] /\ status'[d] = status[d]
      /\ dbErrors \in Nat /\ dbErrors' \in Nat /\ dbErrors' >= dbErrors
      /\ row'[c] = "Started" => status'[c] = "Failed" /\ dbErrors' > 0
  BY <1>1, MaxDbErrorsAssumption DEF Release, EndWritten, EndWrittenLate, EndLost, Finish, IInv,
     ExecTypeOK, TypeOK, StoreTypeOK, Stage
<1> HIDE DEF c
<1>3. ContextIsRunning'
  BY <1>1, <1>2 DEF Context, ContextIsRunning, Running, IInv, ExecTypeOK, c
<1>4. StartedRowIsRunning'
  <2> SUFFICES ASSUME NEW d \in Command, row'[d] = "Started"
               PROVE  \/ \E v \in Worker : Running(v, d)'
                      \/ dbErrors' > 0 /\ status'[d] \in {"Failed", "Removed"}
    BY DEF StartedRowIsRunning
  <2>1. CASE d = c
    BY <2>1, <1>2
  <2>2. CASE d # c
    BY <2>2, <1>1, <1>2 DEF Context, StartedRowIsRunning, Running, c
  <2>3. QED
    BY <2>1, <2>2
<1>5. RunningRowIsStarted'
  <2> SUFFICES ASSUME NEW v \in Worker, stage'[v] = "running"
               PROVE  row'[task'[v]] = "Started"
    BY DEF RunningRowIsStarted
  <2>1. v # w
    BY DEF Release, IInv, ExecTypeOK
  <2>2. task[v] \in Command /\ row[task[v]] = "Started"
    BY <1>2, <2>1 DEF IInv, ExecTypeOK, TypeOK, Hands, Context, RunningRowIsStarted
  <2>3. QED
    BY <1>1, <1>2, <2>1, <2>2
<1>6. QED
  BY <1>3, <1>4, <1>5 DEF Context

LEMMA StepKeepsContext == IInv /\ Context /\ [ExecNext]_vars => Context'
<1> SUFFICES ASSUME IInv, Context, [ExecNext]_vars PROVE Context'
  OBVIOUS
<1>t. /\ row \in [Command -> RowStatus] /\ status \in [Command -> Status]
      /\ task \in [Worker -> Command \cup {NoCommand}]
      /\ stage \in [Worker -> Stage]
  BY DEF IInv, ExecTypeOK, TypeOK, StoreTypeOK
<1>1. CASE \/ \E k \in Kinds : PushCommand(k)
           \/ PushCommands(2)
  <2>1. \E n : \E f \in [NextIds(n) -> Kinds] : Insert(f) /\ UNCHANGED execVars
    BY <1>1 DEF PushCommand, PushCommands, Push, PushMany
  <2>2. QED
    BY <2>1, <1>t, QuietKeepsContext DEF Insert, NextIds, execVars
<1>2. CASE \E c \in Command : CancelCommand(c)
  BY <1>2, <1>t, QuietKeepsContext
  DEF CancelCommand, Cancel, RemoveIfQueued, storeVars, execVars
<1>3. CASE \E old \in SUBSET Ended, ancient \in SUBSET Command : Clean(old, ancient)
  BY <1>3, <1>t, QuietKeepsContext
  DEF Clean, CleanCommands, RemoveMany, execVars
<1>4. ASSUME NEW w \in Worker, Proceed(w) PROVE Context'
  <2>1. CASE Idle(w)
    BY <2>1, <1>t, QuietKeepsContext DEF Idle, Park, Leave, storeVars, execVars
  <2>2. ASSUME NEW c \in Command, Fetch(w, c) PROVE Context'
    <3>1. pc[w] = "ready" /\ status[c] = "Queued"
      BY <2>2 DEF Fetch, Take, IsNext, Eligible, Queued
    <3>2. stage[w] = "idle" /\ row[c] = "Queued"
      BY <3>1 DEF IInv, Hands, Mirror
    <3>3. QED
      BY <2>2, <3>1, <3>2, <1>t, QuietKeepsContext DEF Fetch, Take, storeVars
  <2>3. CASE ExecuteUnhandled(w)
    BY <2>3, <1>t, QuietKeepsContext DEF ExecuteUnhandled, storeVars
  <2>4. CASE Execute(w)
    <3>1. task[w] \in Command /\ task[w] # NoCommand
      BY <2>4, <1>t DEF Execute, IInv, Hands
    <3>2. /\ \A v \in Worker : stage[v] = "running" => stage'[v] = "running"
          /\ stage'[w] = "running" /\ task' = task /\ status' = status
          /\ dbErrors' = dbErrors /\ context' = Claimed(task[w])
          /\ \A c \in Command : c # task[w] => row'[c] = row[c]
      BY <2>4, <1>t, <3>1 DEF Execute, queueVars
    <3>3. ContextIsRunning'
      BY <3>1, <3>2 DEF Context, ContextIsRunning, Running, Claimed
    <3>4. StartedRowIsRunning'
      BY <3>1, <3>2 DEF Context, StartedRowIsRunning, Running
    <3>5. RunningRowIsStarted'
      <4> SUFFICES ASSUME NEW v \in Worker, stage'[v] = "running"
                   PROVE  row'[task'[v]] = "Started"
        BY DEF RunningRowIsStarted
      <4>1. row'[task[w]] = "Started"
        BY <2>4, <3>1, <1>t DEF Execute
      <4>2. v # w => stage[v] = "running"
        BY <2>4, <1>t DEF Execute
      <4>3. v # w => task[v] \in Command /\ row[task[v]] = "Started"
        BY <1>t, <4>2 DEF IInv, Hands, Context, RunningRowIsStarted
      <4>4. QED
        BY <3>2, <4>1, <4>3
    <3>6. QED
      BY <3>3, <3>4, <3>5 DEF Context
  <2>5. CASE ExecuteFails(w)
    BY <2>5, EndKeepsContext DEF ExecuteFails
  <2>6. QED
    BY <1>4, <2>1, <2>2, <2>3, <2>4, <2>5 DEF Proceed
<1>5. ASSUME NEW w \in Worker, Settle(w) PROVE Context'
  BY <1>5, EndKeepsContext DEF Settle, Succeed, Reject
<1>6. ASSUME NEW w \in Worker, NEW r \in {"Successful", "Unsuccessful"}, Report(w, r)
      PROVE  Context'
  BY <1>6, <1>t, QuietKeepsContext DEF Report, queueVars
<1>7. CASE Shutdown
  BY <1>7, <1>t, QuietKeepsContext DEF Shutdown, Abort, storeVars, execVars
<1>8. CASE Restart
  BY <1>8, <1>t DEF Restart, OrphanedRows, Context, ContextIsRunning,
     StartedRowIsRunning, RunningRowIsStarted
<1>9. CASE UNCHANGED vars
  BY <1>9, <1>t, QuietKeepsContext DEF vars, queueVars, storeVars, execVars
<1>10. QED
  BY <1>1, <1>2, <1>3, <1>4, <1>5, <1>6, <1>7, <1>8, <1>9 DEF ExecNext

LEMMA ContextAlways == ExecSpec => [](IInv /\ Context)
<1>1. ExecInit => Context
  BY DEF ExecInit, StoreInit, Context, ContextIsRunning, StartedRowIsRunning,
     RunningRowIsStarted
<1>2. QED
  BY <1>1, InitIInv, StepKeepsIInv, StepKeepsContext, PTL DEF ExecSpec

-----------------------------------------------------------------------------
\* The two questions LifeOf asks about the workers.
IsHeld(c) == \E w \in Worker : Holding(w, c)
IsRunning(c) == \E w \in Worker : Running(w, c)

\* What LifeOf depends on.
LEMMA LifeOfSame ==
  ASSUME NEW c \in Command, row'[c] = row[c],
         row[c] = "Queued" =>
           ((status'[c] = "Queued" \/ IsHeld(c)') <=> (status[c] = "Queued" \/ IsHeld(c))),
         row[c] = "Started" => (IsRunning(c)' <=> IsRunning(c))
  PROVE  LifeOf(c)' = LifeOf(c)
BY DEF LifeOf, IsHeld, IsRunning

LEMMA LifeMoves ==
  ASSUME NEW C \in SUBSET Command, NEW s,
         \A c \in C : LifeOf(c)' = s,
         \A c \in Command \ C : LifeOf(c)' = LifeOf(c)
  PROVE  Lifecycle!To(C, s)
BY DEF Lifecycle!To

LEMMA LifeStands ==
  ASSUME \A c \in Command : LifeOf(c)' = LifeOf(c)
  PROVE  UNCHANGED [c \in Command |-> LifeOf(c)]
OBVIOUS

\* The step as CommandLifecycle sees it.
LifeStep == [Lifecycle!LifeNext]_([c \in Command |-> LifeOf(c)])

\* A step that leaves workers, and what is queued or started, alone.
LEMMA QuietIsStutter ==
  ASSUME task' = task, stage' = stage,
         \A c \in Command : \/ row'[c] = row[c] /\ (status'[c] = "Queued" <=> status[c] = "Queued")
                            \/ {row[c], row'[c]} \subseteq {"Completed", "Failed", "Orphaned", "Gone"}
  PROVE  LifeStep
<1>1. ASSUME NEW c \in Command PROVE LifeOf(c)' = LifeOf(c)
  BY <1>1 DEF LifeOf, Holding, Running
<1>2. QED
  BY <1>1, LifeStands DEF LifeStep

LEMMA PushIsAccept ==
  ASSUME IInv, \/ \E k \in Kinds : PushCommand(k)
               \/ PushCommands(2)
  PROVE  LifeStep
<1>1. PICK n : \E f \in [NextIds(n) -> Kinds] : Insert(f) /\ UNCHANGED execVars
  BY DEF PushCommand, PushCommands, Push, PushMany
<1>2. PICK f \in [NextIds(n) -> Kinds] : Insert(f) /\ UNCHANGED execVars
  BY <1>1
<1>3. DOMAIN f \subseteq Command /\ \A c \in DOMAIN f : row[c] = "None"
  BY DEF NextIds
<1>4. \A c \in DOMAIN f : LifeOf(c) = "new" /\ LifeOf(c)' = "queued"
  BY <1>2, <1>3 DEF Insert, LifeOf
<1>5. \A c \in Command \ DOMAIN f : LifeOf(c)' = LifeOf(c)
  BY <1>2, <1>3 DEF Insert, execVars, LifeOf, Holding, Running
<1>6. Lifecycle!To(DOMAIN f, "queued")
  BY <1>3, <1>4, <1>5, LifeMoves
<1>7. Lifecycle!Accept
  BY <1>3, <1>4, <1>6 DEF Lifecycle!Accept
<1>8. QED
  BY <1>7 DEF LifeStep, Lifecycle!LifeNext

\* One command moves, the others stay: how the single moves are recognised.
LEMMA OneMoves ==
  ASSUME NEW c \in Command,
         \A d \in Command : d # c => LifeOf(d)' = LifeOf(d),
         \/ LifeOf(c) = "queued" /\ LifeOf(c)' \in {"dropped", "running", "ended"}
         \/ LifeOf(c) = "running" /\ LifeOf(c)' = "ended"
  PROVE  LifeStep
<1>1. Lifecycle!To({c}, LifeOf(c)')
  BY LifeMoves
<1>2. Lifecycle!Drop(c) \/ Lifecycle!Run(c) \/ Lifecycle!End(c)
  BY <1>1 DEF Lifecycle!Drop, Lifecycle!Run, Lifecycle!End
<1>3. QED
  BY <1>2 DEF LifeStep, Lifecycle!LifeNext

LEMMA CancelIsDrop ==
  ASSUME IInv, NEW c \in Command, CancelCommand(c)
  PROVE  LifeStep
<1>1. /\ status[c] = "Queued" /\ row[c] = "Queued"
      /\ status \in [Command -> Status]
      /\ \A w \in Worker : ~Holding(w, c)
  BY DEF CancelCommand, Cancel, RemoveIfQueued, IInv, ExecTypeOK, TypeOK,
     Mirror, Hands, Holding
<1>2. /\ status' = [status EXCEPT ![c] = "Removed"]
      /\ row' = row /\ task' = task /\ stage' = stage
  BY DEF CancelCommand, Cancel, RemoveIfQueued, storeVars, execVars
<1>3. LifeOf(c) = "queued" /\ LifeOf(c)' = "dropped"
  BY <1>1, <1>2 DEF LifeOf, Holding
<1>4. \A d \in Command : d # c => LifeOf(d)' = LifeOf(d)
  BY <1>1, <1>2 DEF LifeOf, Holding, Running
<1>5. QED
  BY <1>3, <1>4, OneMoves

\* However an execution ends: the command it ends was queued or running, and
\* is over, or dropped if the handler never ran and nothing was written.
LEMMA EndIsMove ==
  ASSUME IInv, Context, NEW w \in Worker, stage[w] # "idle", Release(w),
         NEW s \in {"Completed", "Failed"},
         EndWritten(w, s) \/ EndWrittenLate(w) \/ EndLost(w)
  PROVE  LifeStep
<1>0. PICK c \in Command : c = task[w]
  BY DEF IInv, ExecTypeOK, TypeOK, Hands
<1>1. /\ c # NoCommand /\ status[c] = "Started"
      /\ \A v \in Worker : v # w => task[v] # c
  BY <1>0 DEF IInv, ExecTypeOK, TypeOK, Hands
<1>2. /\ \A v \in Worker : v # w => stage'[v] = stage[v] /\ task'[v] = task[v]
      /\ \A d \in Command : d # c => row'[d] = row[d] /\ status'[d] = status[d]
      /\ row'[c] \in {row[c], "Completed", "Failed"}
      /\ status'[c] \in {"Completed", "Failed"}
      /\ stage'[w] = "idle" /\ task'[w] = NoCommand
  BY <1>0, <1>1 DEF Release, EndWritten, EndWrittenLate, EndLost, Finish, IInv,
     ExecTypeOK, TypeOK, StoreTypeOK, Stage
<1>3. \/ stage[w] = "yielded" /\ row[c] = "Queued"
      \/ stage[w] = "running" /\ row[c] = "Started"
  BY <1>0 DEF IInv, ExecTypeOK, Stage, HandsAndRows, Context, RunningRowIsStarted
<1>4. /\ stage[w] = "yielded" => IsHeld(c)
      /\ stage[w] = "running" => IsRunning(c)
      /\ ~IsHeld(c)' /\ ~IsRunning(c)'
  BY <1>0, <1>1, <1>2 DEF IsHeld, IsRunning, Holding, Running
<1>5. \/ LifeOf(c) = "queued" /\ LifeOf(c)' \in {"dropped", "ended"}
      \/ LifeOf(c) = "running" /\ LifeOf(c)' = "ended"
  BY <1>2, <1>3, <1>4 DEF LifeOf, IsHeld, IsRunning
<1>6. ASSUME NEW d \in Command, d # c PROVE LifeOf(d)' = LifeOf(d)
  <2>1. (IsHeld(d)' <=> IsHeld(d)) /\ (IsRunning(d)' <=> IsRunning(d))
    BY <1>0, <1>1, <1>2, <1>6 DEF IsHeld, IsRunning, Holding, Running
  <2>2. row'[d] = row[d] /\ status'[d] = status[d]
    BY <1>2, <1>6
  <2>3. QED
    BY <2>1, <2>2, LifeOfSame
<1>7. QED
  BY <1>5, <1>6, OneMoves

LEMMA ProceedIsLifeStep ==
  ASSUME IInv, Context, NEW w \in Worker, Proceed(w)
  PROVE  LifeStep
<1>t. /\ row \in [Command -> RowStatus] /\ status \in [Command -> Status]
      /\ task \in [Worker -> Command \cup {NoCommand}]
      /\ stage \in [Worker -> Stage]
  BY DEF IInv, ExecTypeOK, TypeOK, StoreTypeOK
<1>1. CASE Idle(w)
  BY <1>1, QuietIsStutter DEF Idle, Park, Leave, storeVars, execVars
<1>2. ASSUME NEW c \in Command, Fetch(w, c) PROVE LifeStep
  <2>1. pc[w] = "ready" /\ status[c] = "Queued"
    BY <1>2 DEF Fetch, Take, IsNext, Eligible, Queued
  <2>2. stage[w] = "idle" /\ row[c] = "Queued"
    BY <2>1 DEF IInv, Hands, Mirror
  <2>3. /\ status' = [status EXCEPT ![c] = "Started"] /\ row' = row
        /\ task' = [task EXCEPT ![w] = c]
        /\ stage' = [stage EXCEPT ![w] = "yielded"]
    BY <1>2 DEF Fetch, Take, storeVars
  <2>4. /\ IsHeld(c)'
        /\ \A d \in Command : d # c => (IsHeld(d)' <=> IsHeld(d))
        /\ \A d \in Command : IsRunning(d)' <=> IsRunning(d)
    BY <2>2, <2>3, <1>t DEF IsHeld, IsRunning, Holding, Running
  <2>5. \A d \in Command : LifeOf(d)' = LifeOf(d)
    BY <2>1, <2>2, <2>3, <2>4, <1>t, LifeOfSame
  <2>6. QED
    BY <2>5, LifeStands DEF LifeStep
<1>3. CASE ExecuteUnhandled(w) \/ Execute(w)
  <2>1. stage[w] = "yielded"
    BY <1>3 DEF ExecuteUnhandled, Execute
  <2>0. PICK c \in Command : c = task[w]
    BY <2>1, <1>t DEF IInv, Hands
  <2>2. /\ c # NoCommand /\ status[c] = "Started" /\ row[c] = "Queued"
        /\ \A v \in Worker : v # w => task[v] # c
    BY <2>0, <2>1, <1>t DEF IInv, Hands, HandsAndRows
  <2>3. IsHeld(c)
    BY <2>0, <2>1 DEF IsHeld, Holding
  <2>4. LifeOf(c) = "queued"
    BY <2>2, <2>3 DEF LifeOf, IsHeld
  <2>5. status' = status /\ \A d \in Command : d # c => row'[d] = row[d]
    BY <1>3, <2>0, <2>2, <1>t DEF ExecuteUnhandled, Execute, storeVars, queueVars
  <2>6. \A v \in Worker : v # w => stage'[v] = stage[v] /\ task'[v] = task[v]
    BY <1>3, <2>0, <1>t DEF ExecuteUnhandled, Execute, queueVars
  <2>7. \/ stage'[w] = "idle" /\ task'[w] = NoCommand /\ row'[c] = "Queued"
        \/ stage'[w] = "running" /\ task'[w] = c /\ row'[c] = "Started"
    BY <1>3, <2>0, <2>2, <1>t DEF ExecuteUnhandled, Execute, storeVars, queueVars
  <2>8. ~IsHeld(c)' /\ (stage'[w] = "running" /\ task'[w] = c => IsRunning(c)')
    BY <2>2, <2>6, <2>7 DEF IsHeld, IsRunning, Holding, Running
  <2>9. LifeOf(c)' \in {"dropped", "running"}
    BY <2>2, <2>5, <2>7, <2>8 DEF LifeOf, IsHeld, IsRunning
  <2>10. ASSUME NEW d \in Command, d # c PROVE LifeOf(d)' = LifeOf(d)
    <3>1. (IsHeld(d)' <=> IsHeld(d)) /\ (IsRunning(d)' <=> IsRunning(d))
      BY <2>0, <2>1, <2>2, <2>6, <2>7, <2>10 DEF IsHeld, IsRunning, Holding, Running
    <3>2. QED
      BY <2>5, <2>10, <3>1, LifeOfSame
  <2>11. QED
    BY <2>4, <2>9, <2>10, OneMoves
<1>4. CASE ExecuteFails(w)
  BY <1>4, EndIsMove DEF ExecuteFails
<1>5. QED
  BY <1>1, <1>2, <1>3, <1>4 DEF Proceed

LEMMA RestartIsStartAgain ==
  ASSUME IInv, Restart
  PROVE  LifeStep
<1>1. ASSUME NEW c \in Command
      PROVE  LifeOf(c)' = CASE LifeOf(c) = "running" -> "ended"
                            [] LifeOf(c) = "dropped" -> "queued"
                            [] OTHER                 -> LifeOf(c)
  <2>1. /\ row[c] = "Queued" => row'[c] = "Queued" /\ status'[c] = "Queued"
        /\ row[c] = "Started" => row'[c] = "Orphaned"
        /\ row[c] \notin {"Queued", "Started"} => row'[c] = row[c]
    BY DEF Restart, OrphanedRows, Requeued
  <2>2. CASE row[c] = "Queued"
    BY <2>1, <2>2 DEF LifeOf
  <2>3. CASE row[c] = "Started"
    BY <2>1, <2>3 DEF LifeOf
  <2>4. CASE row[c] \notin {"Queued", "Started"}
    BY <2>1, <2>4 DEF LifeOf
  <2>5. QED
    BY <2>2, <2>3, <2>4
<1>2. Lifecycle!StartAgain
  BY <1>1 DEF Lifecycle!StartAgain
<1>3. QED
  BY <1>2 DEF LifeStep, Lifecycle!LifeNext

LEMMA StepIsLifeStep == IInv /\ Context /\ [ExecNext]_vars => LifeStep
<1> SUFFICES ASSUME IInv, Context, [ExecNext]_vars PROVE LifeStep
  OBVIOUS
<1>1. ASSUME NEW old \in SUBSET Ended, NEW ancient \in SUBSET Command,
             Clean(old, ancient)
      PROVE  LifeStep
  <2>1. task' = task /\ stage' = stage
    BY <1>1 DEF Clean, CleanCommands, RemoveMany, execVars
  <2>2. ASSUME NEW c \in Command
        PROVE  /\ status'[c] = "Queued" <=> status[c] = "Queued"
               /\ \/ row'[c] = row[c]
                  \/ row[c] \in {"Completed", "Failed", "Orphaned"} /\ row'[c] = "Gone"
    BY <1>1 DEF Clean, CleanCommands, RemoveMany, Ended
  <2>3. QED
    BY <2>1, <2>2, QuietIsStutter
<1>2. ASSUME NEW w \in Worker, Settle(w) PROVE LifeStep
  BY <1>2, EndIsMove DEF Settle, Succeed, Reject
<1>3. ASSUME NEW w \in Worker, NEW r \in {"Successful", "Unsuccessful"}, Report(w, r)
      PROVE  LifeStep
  BY <1>3, QuietIsStutter DEF Report, queueVars
<1>4. CASE Shutdown
  BY <1>4, QuietIsStutter DEF Shutdown, Abort, storeVars, execVars
<1>5. CASE UNCHANGED vars
  BY <1>5, QuietIsStutter DEF vars, queueVars, storeVars, execVars
<1>6. QED
  BY <1>1, <1>2, <1>3, <1>4, <1>5, PushIsAccept, CancelIsDrop,
     ProceedIsLifeStep, RestartIsStartAgain DEF ExecNext

-----------------------------------------------------------------------------
\* The shared progress context never outlives the command it points to: the
\* setter writes only while it is null, the finally block of the command it
\* points to resets it, in whatever order the workers get there.
THEOREM ContextHolds == ExecSpec => []ContextIsRunning
<1>1. Context => ContextIsRunning
  BY DEF Context
<1>2. QED
  BY <1>1, ContextAlways, PTL

\* A started row belongs to a running handler, or the write of its end was
\* lost and the next process will orphan it.
THEOREM StartedRowsHold == ExecSpec => []StartedRowIsRunning
<1>1. Context => StartedRowIsRunning
  BY DEF Context
<1>2. QED
  BY <1>1, ContextAlways, PTL

\* The command subsystem implements CommandLifecycle: pushes, removals,
\* executions, lost writes, crashes and restarts only move a command along
\* its life, and never back into one that is over.
THEOREM LifecycleImplemented == ExecSpec => ImplementsLifecycle
<1>1. ExecInit => Lifecycle!LifeInit
  BY DEF ExecInit, StoreInit, Lifecycle!LifeInit, LifeOf
<1>2. IInv /\ Context /\ [ExecNext]_vars
        => [Lifecycle!LifeNext]_([c \in Command |-> LifeOf(c)])
  BY StepIsLifeStep DEF LifeStep
<1>3. QED
  BY <1>1, <1>2, ContextAlways, PTL
     DEF ExecSpec, ImplementsLifecycle, Lifecycle!LifeSpec

-----------------------------------------------------------------------------
\* What is in the queue has been through JSON: no rule of tryGet applies to it.
Plain ==
  \A c \in Command : status[c] # "Absent" =>
    /\ ~body[c].requiresDiskAccess /\ ~body[c].isExclusive
    /\ ~body[c].isTypeExclusive /\ ~body[c].isLongRunning

LEMMA ParsedIsPlain ==
  ASSUME NEW k \in Kinds
  PROVE  /\ ~Parsed(k).requiresDiskAccess /\ ~Parsed(k).isExclusive
         /\ ~Parsed(k).isTypeExclusive /\ ~Parsed(k).isLongRunning
BY KindsAssumption DEF Parsed, BodyType

LEMMA PlainStep ==
  ASSUME IInv, Plain, [ExecNext]_vars
  PROVE  Plain'
<1> USE DEF Plain
<1>1. ASSUME body' = body, \A c \in Command : status[c] = "Absent" => status'[c] = "Absent"
      PROVE  Plain'
  BY <1>1
<1>2. ASSUME NEW n, NEW f \in [NextIds(n) -> Kinds], Insert(f) PROVE Plain'
  BY <1>2, ParsedIsPlain DEF Insert, NextIds
<1>3. CASE \/ \E k \in Kinds : PushCommand(k)
           \/ PushCommands(2)
  BY <1>2, <1>3 DEF PushCommand, PushCommands, Push, PushMany
<1>4. CASE Restart
  BY <1>4, ParsedIsPlain DEF Restart, Requeued, IInv, ExecTypeOK, StoreTypeOK
<1>5. ASSUME NEW w \in Worker, NEW s \in {"Completed", "Failed"},
             EndWritten(w, s) \/ EndWrittenLate(w) \/ EndLost(w), stage[w] # "idle"
      PROVE  Plain'
  <2>1. status[task[w]] = "Started" /\ status \in [Command -> Status]
    BY <1>5 DEF IInv, Hands, ExecTypeOK, TypeOK
  <2>2. body' = body /\ \E x : status' = [status EXCEPT ![task[w]] = x]
    BY <1>5 DEF EndWritten, EndWrittenLate, EndLost, Finish
  <2>3. QED
    BY <1>1, <2>1, <2>2
<1>6. ASSUME NEW w \in Worker, Settle(w) \/ ExecuteFails(w) PROVE Plain'
  BY <1>5, <1>6 DEF Settle, Succeed, Reject, ExecuteFails
<1>7. ASSUME NEW w \in Worker, Proceed(w) PROVE Plain'
  <2>1. CASE Idle(w) \/ ExecuteUnhandled(w) \/ Execute(w)
    BY <1>1, <2>1 DEF Idle, Park, Leave, ExecuteUnhandled, Execute, queueVars
  <2>2. ASSUME NEW c \in Command, Fetch(w, c) PROVE Plain'
    BY <1>1, <2>2 DEF Fetch, Take, IsNext, Eligible, Queued, IInv, ExecTypeOK, TypeOK
  <2>3. QED
    BY <1>6, <1>7, <2>1, <2>2 DEF Proceed
<1>8. ASSUME NEW c \in Command, CancelCommand(c) PROVE Plain'
  BY <1>1, <1>8 DEF CancelCommand, Cancel, RemoveIfQueued, IInv, ExecTypeOK, TypeOK
<1>9. ASSUME NEW old \in SUBSET Ended, NEW ancient \in SUBSET Command, Clean(old, ancient)
      PROVE  Plain'
  BY <1>1, <1>9 DEF Clean, CleanCommands, RemoveMany, Ended
<1>10. CASE Shutdown \/ (\E w \in Worker, r \in {"Successful", "Unsuccessful"} : Report(w, r))
            \/ UNCHANGED vars
  BY <1>1, <1>10 DEF Shutdown, Abort, Report, vars, queueVars
<1>11. QED
  BY <1>3, <1>4, <1>6, <1>7, <1>8, <1>9, <1>10 DEF ExecNext

\* As long as no rule applies, what is next depends on what is queued only.
LEMMA NextOfPlain ==
  ASSUME Plain, Plain', body' = body, Queued' = Queued
  PROVE  \A c \in Command : IsNext(c)' <=> IsNext(c)
<1>1. Eligible = Queued /\ \A c \in Queued, s \in Started : ~body[c].isExclusive /\ ~body[s].isExclusive
  BY DEF Plain, Eligible, Queued, Started
<1>2. Eligible' = Queued' /\ \A c \in Queued', s \in Started' : ~body'[c].isExclusive /\ ~body'[s].isExclusive
  BY DEF Plain, Eligible, Queued, Started
<1>3. \A c \in Command : IsNext(c) <=> c \in Queued /\ \A d \in Queued \ {c} : Before(c, d)
  BY <1>1 DEF IsNext, Plain, Queued
<1>4. \A c \in Command : IsNext(c)' <=> c \in Queued' /\ \A d \in Queued' \ {c} : Before(c, d)'
  BY <1>2 DEF IsNext, Plain, Queued
<1>5. \A c, d : Before(c, d)' <=> Before(c, d)
  BY DEF Before
<1>6. QED
  BY <1>3, <1>4, <1>5

LEMMA WakeupStep ==
  ASSUME IInv, Plain, Plain', NoLostWakeup, [ExecNext]_vars
  PROVE  NoLostWakeup'
<1>t. /\ pc \in [Worker -> PC] /\ status \in [Command -> Status]
      /\ task \in [Worker -> Command \cup {NoCommand}]
  BY DEF IInv, ExecTypeOK, TypeOK
<1>1. ASSUME \A v \in Worker : pc'[v] # "waiting" PROVE NoLostWakeup'
  BY <1>1 DEF NoLostWakeup
<1>2. ASSUME pc' = Pulse(pc) PROVE NoLostWakeup'
  BY <1>1, <1>2, <1>t, PulseType
<1>3. ASSUME body' = body, aborted' = aborted, Queued' = Queued,
             \A v \in Worker : pc'[v] = "waiting" => pc[v] = "waiting"
      PROVE  NoLostWakeup'
  BY <1>3, NextOfPlain DEF NoLostWakeup
<1>4. CASE \/ \E k \in Kinds : PushCommand(k)
           \/ PushCommands(2)
           \/ \E c \in Command : CancelCommand(c)
           \/ \E old \in SUBSET Ended, ancient \in SUBSET Command : Clean(old, ancient)
           \/ Shutdown
  BY <1>2, <1>4 DEF PushCommand, PushCommands, Push, PushMany, Insert, CancelCommand, Cancel,
     RemoveIfQueued, Clean, CleanCommands, RemoveMany, Shutdown, Abort
<1>5. CASE Restart
  BY <1>1, <1>5 DEF Restart
<1>6. ASSUME NEW w \in Worker, NEW s \in {"Completed", "Failed"}, EndWritten(w, s) \/ EndWrittenLate(w)
      PROVE  NoLostWakeup'
  <2>1. pc' = [Pulse(pc) EXCEPT ![w] = "ready"]
    BY <1>6 DEF EndWritten, EndWrittenLate, Finish
  <2>2. QED
    BY <1>1, <1>t, <2>1, PulseType
<1>7. ASSUME NEW w \in Worker, EndLost(w), stage[w] # "idle" PROVE NoLostWakeup'
  <2>1. status[task[w]] = "Started"
    BY <1>7 DEF IInv, Hands
  <2>2. status' = [status EXCEPT ![task[w]] = "Failed"] /\ pc' = [pc EXCEPT ![w] = "ready"]
        /\ UNCHANGED <<body, aborted>>
    BY <1>7 DEF EndLost
  <2>3. Queued' = Queued
    BY <1>t, <2>1, <2>2 DEF Queued
  <2>4. QED
    BY <1>3, <1>t, <2>2, <2>3
<1>8. ASSUME NEW w \in Worker, Settle(w) \/ ExecuteFails(w) PROVE NoLostWakeup'
  BY <1>6, <1>7, <1>8 DEF Settle, Succeed, Reject, ExecuteFails
<1>9. ASSUME NEW w \in Worker, Proceed(w) PROVE NoLostWakeup'
  <2>1. CASE ExecuteUnhandled(w)
    BY <1>3, <1>t, <2>1 DEF ExecuteUnhandled, Queued
  <2>2. CASE Execute(w)
    BY <1>3, <2>2 DEF Execute, queueVars, Queued
  <2>3. CASE Leave(w)
    BY <1>1, <1>t, <2>3 DEF Leave, NoLostWakeup
  <2>4. CASE Park(w)
    <3>1. UNCHANGED <<status, body, aborted>> /\ ~aborted /\ ~\E c \in Command : IsNext(c)
      BY <2>4 DEF Park
    <3>2. \A c \in Command : IsNext(c)' <=> IsNext(c)
      BY <3>1, NextOfPlain DEF Queued
    <3>3. QED
      BY <3>1, <3>2 DEF NoLostWakeup
  <2>5. ASSUME NEW c \in Command, Fetch(w, c) PROVE NoLostWakeup'
    BY <1>1, <1>t, <2>5 DEF Fetch, Take, NoLostWakeup
  <2>6. QED
    BY <1>8, <1>9, <2>1, <2>2, <2>3, <2>4, <2>5 DEF Proceed, Idle
<1>10. CASE (\E w \in Worker, r \in {"Successful", "Unsuccessful"} : Report(w, r)) \/ UNCHANGED vars
  BY <1>3, <1>10 DEF Report, vars, queueVars, Queued
<1>11. QED
  BY <1>4, <1>5, <1>8, <1>9, <1>10 DEF ExecNext

\* Also with failed writes and crashes, no worker stays parked while a command is
\* next, although update() does not reach its pulse when the write of an end is lost
\* (commandQueueManager.ts): a started command keeps nobody back, as none of its
\* flags survived JSON.
THEOREM WorkersStayAwake == ExecSpec => []NoLostWakeup
<1>1. ExecInit => Plain /\ NoLostWakeup
  BY DEF ExecInit, Init, Plain, NoLostWakeup
<1>2. IInv /\ Plain /\ NoLostWakeup /\ [ExecNext]_vars => Plain' /\ NoLostWakeup'
  BY PlainStep, WakeupStep
<1>3. QED
  BY <1>1, <1>2, InitIInv, StepKeepsIInv, PTL DEF ExecSpec
=============================================================================
