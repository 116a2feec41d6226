--------------------------- MODULE UpgradesProofs ---------------------------
(***************************************************************************)
(* Proofs about Upgrades, for every profile, every set of releases and     *)
(* whatever they turn out to hold: an upgrade always climbs one and the    *)
(* same order, so upgrades never go in a circle, and the downloads of a    *)
(* book that are under way are a chain of upgrades.                        *)
(***************************************************************************)
EXTENDS Upgrades, TLAPS

\* The order that every upgrade climbs: quality, then revision, then score.
Climbs(cur, new) ==
  \/ Index[new.quality] > Index[cur.quality]
  \/ /\ Index[new.quality] = Index[cur.quality]
     /\ \/ new.revision > cur.revision
        \/ new.revision = cur.revision /\ new.score > cur.score

LEMMA IndexIsPlace == Index \in [Quality -> Nat]
<1>1. DOMAIN Items \subseteq Nat
  BY UpgradesAssumption
<1>2. SUFFICES ASSUME NEW q \in Quality
               PROVE  (IF \E i \in DOMAIN Items : q \in Items[i]
                         THEN CHOOSE i \in DOMAIN Items : q \in Items[i] ELSE 1) \in Nat
  BY DEF Index
<1>3. CASE \E i \in DOMAIN Items : q \in Items[i]
  <2>1. (CHOOSE i \in DOMAIN Items : q \in Items[i]) \in DOMAIN Items
    BY <1>3
  <2> QED BY <1>1, <1>3, <2>1
<1>4. CASE ~\E i \in DOMAIN Items : q \in Items[i]
  BY <1>4
<1> QED BY <1>3, <1>4

\* Climbing is a strict order, so it has no circles.
LEMMA ClimbingIsStrict ==
  \A a, b, c \in Grade : ~Climbs(a, a) /\ (Climbs(a, b) /\ Climbs(b, c) => Climbs(a, c))
<1> SUFFICES ASSUME NEW a \in Grade, NEW b \in Grade, NEW c \in Grade
             PROVE  ~Climbs(a, a) /\ (Climbs(a, b) /\ Climbs(b, c) => Climbs(a, c))
  OBVIOUS
<1>1. /\ Index[a.quality] \in Int /\ a.revision \in Int /\ a.score \in Int
      /\ Index[b.quality] \in Int /\ b.revision \in Int /\ b.score \in Int
      /\ Index[c.quality] \in Int /\ c.revision \in Int /\ c.score \in Int
  BY IndexIsPlace DEF Grade
<1> QED BY <1>1 DEF Climbs

\* Whatever the user prefers, an upgrade climbs.
THEOREM UpgradesClimb ==
  \A p \in Propers : \A cur, new \in Grade : IsUpgradable(p, cur, new) => Climbs(cur, new)
<1> SUFFICES ASSUME NEW p \in Propers, NEW cur \in Grade, NEW new \in Grade,
                    IsUpgradable(p, cur, new)
             PROVE  Climbs(cur, new)
  OBVIOUS
<1>1. /\ Index[cur.quality] \in Int /\ cur.revision \in Int /\ cur.score \in Int
      /\ Index[new.quality] \in Int /\ new.revision \in Int /\ new.score \in Int
  BY IndexIsPlace DEF Grade
<1>2. CASE QualityUpgrade(p, cur, new)
  BY <1>1, <1>2 DEF QualityUpgrade, Better, Climbs
<1>3. CASE QualityEqual(p, cur, new) /\ new.score > cur.score
  BY <1>1, <1>3 DEF QualityEqual, QualityUpgrade, Better, Ignored, Climbs
<1> QED BY <1>2, <1>3 DEF IsUpgradable

\* So no grade is an upgrade of itself, and no two are upgrades of each other.
THEOREM NoCircle ==
  \A p \in Propers : \A a, b \in Grade :
    ~IsUpgradable(p, a, a) /\ ~(IsUpgradable(p, a, b) /\ IsUpgradable(p, b, a))
BY UpgradesClimb, ClimbingIsStrict

-----------------------------------------------------------------------------
IInv == TypeOK /\ QueueAscends /\ OneIsEnough

LEMMA InitInvariant == Init => IInv
<1> SUFFICES ASSUME Init PROVE IInv
  OBVIOUS
<1>1. Matching = {}
  BY DEF Init, Matching
<1>2. TypeOK
  <2>1. upgrades \in BOOLEAN /\ propers \in Propers /\ old \in BOOLEAN
    BY Zenon DEF Init
  <2>2. acts \in 0 .. MaxActs
    BY UpgradesAssumption DEF Init
  <2>3. recent \in [grab : BOOLEAN, twelveHours : BOOLEAN] /\ (recent.grab => grabbed # Nothing)
    BY DEF Init
  <2>4. /\ file \in Release \cup {Nothing} /\ queue \subseteq Downloads
        /\ {grabbed, asImported} \subseteq Release \cup {Nothing} /\ banned \subseteq Release
    BY DEF Init
  <2> QED BY <2>1, <2>2, <2>3, <2>4 DEF TypeOK
<1> QED BY <1>1, <1>2 DEF IInv, QueueAscends, OneIsEnough

\* An upgrade is just what a profile without upgrades does not allow.
LEMMA NoOutranking ==
  ASSUME NEW d, NEW r, ~upgrades
  PROVE  ~Outranks(d, r)
BY DEF Outranks, IsUpgradable, IsUpgradeAllowed

\* Taking a download out, or marking it as failed or rejected, keeps the chain.
LEMMA ShrinkingKeeps ==
  ASSUME QueueAscends, OneIsEnough, UNCHANGED settings,
         \A x \in Matching' : \E y \in Matching : y.release = x.release,
         \A x, y \in Matching' : x # y => \E v, w \in Matching :
            v # w /\ v.release = x.release /\ w.release = y.release
  PROVE  QueueAscends' /\ OneIsEnough'
<1>1. propers' = propers /\ upgrades' = upgrades
  BY DEF settings
<1>2. ASSUME NEW x \in Matching', NEW y \in Matching', x # y
      PROVE  \/ IsUpgradable(propers, Claim[x.release], Claim[y.release])
             \/ IsUpgradable(propers, Claim[y.release], Claim[x.release])
  <2>1. PICK v \in Matching, w \in Matching :
              v # w /\ v.release = x.release /\ w.release = y.release
    BY <1>2
  <2> QED BY <2>1 DEF QueueAscends
<1>3. QueueAscends'
  BY <1>1, <1>2 DEF QueueAscends
<1>4. ASSUME ~upgrades, NEW x \in Matching', NEW y \in Matching', x # y
      PROVE  FALSE
  BY <1>4 DEF OneIsEnough
<1> QED BY <1>1, <1>3, <1>4 DEF OneIsEnough

LEMMA SameQueueKeeps ==
  ASSUME QueueAscends, OneIsEnough, UNCHANGED <<settings, queue>>
  PROVE  QueueAscends' /\ OneIsEnough'
<1>1. Matching' = Matching
  BY DEF Matching
<1> QED BY <1>1, ShrinkingKeeps DEF settings

LEMMA LessQueueKeeps ==
  ASSUME QueueAscends, OneIsEnough, UNCHANGED settings, queue' \subseteq queue
  PROVE  QueueAscends' /\ OneIsEnough'
<1>1. Matching' \subseteq Matching
  BY DEF Matching
<1> QED BY <1>1, ShrinkingKeeps DEF settings

LEMMA MovingKeeps ==
  ASSUME TypeOK, QueueAscends, OneIsEnough, UNCHANGED settings,
         NEW d \in queue, d.state = "downloading",
         NEW s \in {"failing", "import failed"}, Moves(d, s)
  PROVE  QueueAscends' /\ OneIsEnough'
<1> DEFINE e == [d EXCEPT !.state = s]
<1>1. d \in Matching /\ d \in Downloads /\ e.release = d.release
  BY DEF Matching, TypeOK, Downloads
<1>2. Matching' \subseteq (Matching \ {d}) \cup {e}
  BY DEF Matching, Moves
<1>3. \A x \in Matching' : \E y \in Matching : y.release = x.release
  BY <1>1, <1>2
<1>4. ASSUME NEW x \in Matching', NEW y \in Matching', x # y
      PROVE  \E v, w \in Matching : v # w /\ v.release = x.release /\ w.release = y.release
  <2>1. CASE x # e /\ y # e
    BY <1>2, <1>4, <2>1
  <2>2. CASE x = e
    <3>1. y \in Matching /\ y # d
      BY <1>2, <1>4, <2>2
    <3> QED BY <1>1, <2>2, <3>1
  <2>3. CASE y = e
    <3>1. x \in Matching /\ x # d
      BY <1>2, <1>4, <2>3
    <3> QED BY <1>1, <2>3, <3>1
  <2> QED BY <2>1, <2>2, <2>3
<1> QED BY <1>3, <1>4, ShrinkingKeeps

LEMMA GrabKeeps ==
  ASSUME QueueAscends, OneIsEnough, NEW r \in Release, NEW rss \in BOOLEAN, Grab(r, rss)
  PROVE  QueueAscends' /\ OneIsEnough'
<1> DEFINE n == [release |-> r, state |-> "downloading"]
<1>1. propers' = propers /\ upgrades' = upgrades
  BY DEF Grab, settings
<1>2. Matching' = Matching \cup {n}
  BY DEF Grab, Matching
<1>3. \A d \in Matching : Outranks(d, r)
  BY DEF Grab, Accepted, QueueAccepts
<1>4. \A d \in Matching : IsUpgradable(propers, Claim[d.release], Claim[n.release])
  BY <1>3 DEF Outranks
<1>5. QueueAscends'
  <2> SUFFICES ASSUME NEW d \in Matching', NEW e \in Matching', d # e
               PROVE  \/ IsUpgradable(propers, Claim[d.release], Claim[e.release])
                      \/ IsUpgradable(propers, Claim[e.release], Claim[d.release])
    BY <1>1 DEF QueueAscends
  <2>1. CASE d \in Matching /\ e \in Matching
    BY <2>1 DEF QueueAscends
  <2>2. CASE d \in Matching /\ e = n
    BY <1>4, <2>2
  <2>3. CASE e \in Matching /\ d = n
    BY <1>4, <2>3
  <2> QED BY <1>2, <2>1, <2>2, <2>3
<1>6. OneIsEnough'
  <2> SUFFICES ASSUME ~upgrades PROVE \A d, e \in Matching' : d = e
    BY <1>1 DEF OneIsEnough
  <2>1. Matching = {}
    BY <1>3, NoOutranking
  <2> QED BY <1>2, <2>1
<1> QED BY <1>5, <1>6

LEMMA NextInvariant == IInv /\ [Next]_vars => IInv'
<1> SUFFICES ASSUME IInv, [Next]_vars PROVE IInv'
  OBVIOUS
<1> USE UpgradesAssumption DEF IInv
<1>1. ASSUME NEW r \in Release, NEW rss \in BOOLEAN, Grab(r, rss)
      PROVE  IInv'
  <2>1. TypeOK'
    <3>1. upgrades' \in BOOLEAN /\ propers' \in Propers /\ old' \in BOOLEAN
      BY <1>1, Zenon DEF Grab, TypeOK, settings
    <3>2. /\ file' \in Release \cup {Nothing} /\ queue' \subseteq Downloads
          /\ {grabbed', asImported'} \subseteq Release \cup {Nothing} /\ grabbed' # Nothing
      <4>1. [release |-> r, state |-> "downloading"] \in Downloads
        BY DEF Downloads
      <4> QED BY <1>1, <4>1 DEF Grab, TypeOK
    <3>3. recent' \in [grab : BOOLEAN, twelveHours : BOOLEAN]
      BY <1>1 DEF Grab
    <3>4. banned' \subseteq Release /\ acts' \in 0 .. MaxActs
      BY <1>1 DEF Grab, TypeOK
    <3> QED BY <3>1, <3>2, <3>3, <3>4 DEF TypeOK
  <2> QED BY <1>1, <2>1, GrabKeeps
<1>2. ASSUME NEW d \in queue, DownloadFails(d)
      PROVE  IInv'
  <2>1. TypeOK'
    BY <1>2 DEF DownloadFails, Moves, TypeOK, Downloads, settings
  <2> QED BY <1>2, <2>1, MovingKeeps DEF DownloadFails
<1>3. ASSUME NEW d \in queue, ProcessFailed(d)
      PROVE  IInv'
  <2>1. TypeOK'
    BY <1>3 DEF ProcessFailed, NoGrabRecent, TypeOK, Downloads, settings
  <2> QED BY <1>3, <2>1, LessQueueKeeps DEF ProcessFailed
<1>4. ASSUME NEW d \in queue, Import(d)
      PROVE  IInv'
  <2>1. TypeOK'
    BY <1>4 DEF Import, NoGrabRecent, TypeOK, Downloads, settings
  <2> QED BY <1>4, <2>1, LessQueueKeeps DEF Import
<1>5. ASSUME NEW d \in queue, ImportRejected(d)
      PROVE  IInv'
  <2>1. TypeOK'
    BY <1>5 DEF ImportRejected, Moves, NoGrabRecent, TypeOK, Downloads, settings
  <2> QED BY <1>5, <2>1, MovingKeeps DEF ImportRejected
<1>6. ASSUME NEW d \in queue, UserRemoves(d)
      PROVE  IInv'
  <2>1. TypeOK'
    <3>1. acts' \in 0 .. MaxActs
      BY <1>6 DEF UserRemoves, Act, TypeOK
    <3>2. upgrades' \in BOOLEAN /\ propers' \in Propers /\ old' \in BOOLEAN
      BY <1>6, Zenon DEF UserRemoves, TypeOK, settings
    <3>3. recent' \in [grab : BOOLEAN, twelveHours : BOOLEAN] /\ (recent'.grab => grabbed' # Nothing)
      BY <1>6 DEF UserRemoves, TypeOK
    <3>4. /\ file' \in Release \cup {Nothing} /\ queue' \subseteq Downloads
          /\ {grabbed', asImported'} \subseteq Release \cup {Nothing} /\ banned' \subseteq Release
      BY <1>6 DEF UserRemoves, TypeOK
    <3> QED BY <3>1, <3>2, <3>3, <3>4 DEF TypeOK
  <2> QED BY <1>6, <2>1, LessQueueKeeps DEF UserRemoves
<1>7. CASE HalfADayPasses
  <2>1. TypeOK'
    BY <1>7 DEF HalfADayPasses, TypeOK, Downloads, settings
  <2> QED BY <1>7, <2>1, SameQueueKeeps DEF HalfADayPasses
<1>8. CASE AWeekPasses
  <2>1. TypeOK'
    BY <1>8 DEF AWeekPasses, TypeOK, Downloads, settings
  <2> QED BY <1>8, <2>1, SameQueueKeeps DEF AWeekPasses
<1>9. CASE UserDeletesFile
  <2>1. TypeOK'
    <3>1. acts' \in 0 .. MaxActs
      BY <1>9 DEF UserDeletesFile, Act, TypeOK
    <3>2. upgrades' \in BOOLEAN /\ propers' \in Propers /\ old' \in BOOLEAN
      BY <1>9, Zenon DEF UserDeletesFile, TypeOK, settings
    <3>3. recent' \in [grab : BOOLEAN, twelveHours : BOOLEAN] /\ (recent'.grab => grabbed' # Nothing)
      BY <1>9 DEF UserDeletesFile, NoGrabRecent, TypeOK
    <3>4. /\ file' \in Release \cup {Nothing} /\ queue' \subseteq Downloads
          /\ {grabbed', asImported'} \subseteq Release \cup {Nothing} /\ banned' \subseteq Release
      BY <1>9 DEF UserDeletesFile, TypeOK
    <3> QED BY <3>1, <3>2, <3>3, <3>4 DEF TypeOK
  <2> QED BY <1>9, <2>1, SameQueueKeeps DEF UserDeletesFile
<1>10. CASE UNCHANGED vars
  <2>1. TypeOK'
    BY <1>10 DEF vars, TypeOK, Downloads, settings
  <2> QED BY <1>10, <2>1, SameQueueKeeps DEF vars, settings
<1> QED BY <1>1, <1>2, <1>3, <1>4, <1>5, <1>6, <1>7, <1>8, <1>9, <1>10 DEF Next

LEMMA Invariance == Spec => []IInv
BY InitInvariant, NextInvariant, PTL DEF Spec

\* Type correctness.
THEOREM TypeCorrect == Spec => []TypeOK
<1>1. IInv => TypeOK
  BY DEF IInv
<1> QED BY <1>1, Invariance, PTL

\* Of two downloads of a book that have not failed one is an upgrade of the other.
THEOREM QueueIsAChain == Spec => []QueueAscends
<1>1. IInv => QueueAscends
  BY DEF IInv
<1> QED BY <1>1, Invariance, PTL

\* A profile without upgrades never has two downloads of a book under way.
THEOREM OneDownload == Spec => []OneIsEnough
<1>1. IInv => OneIsEnough
  BY DEF IInv
<1> QED BY <1>1, Invariance, PTL
=============================================================================
