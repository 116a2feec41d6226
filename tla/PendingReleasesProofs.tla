------------------------ MODULE PendingReleasesProofs ------------------------
(***************************************************************************)
(* What passes of decisions leave in the table of pending releases, for    *)
(* any releases, books and authors. That nothing put aside is lost holds   *)
(* for any number of passes; the other theorems are about one at a time.   *)
(***************************************************************************)
EXTENDS PendingReleases, TLAPS

USE ReleaseAssumption, NoneAssumption

\* The reports a pass has still to look at, and the one it has asked for.
Reports(l) == l.todo \cup ({l.asking} \ {None})

\* Both reports of a release that is listed two times wait, or none does.
Alike(l) ==
  \A d, e \in Reports(l) : d.release = e.release => d.temporary = e.temporary

\* What was put aside is not asked for later.
Settled(l) ==
  \A q \in l.queue, d \in Reports(l) : d.release = q.release => ~Asks(l, d)

\* The pass asks for a report none of whose books it has grabbed.
AskingOpen(l) ==
  l.asking # None => ~Processed(l.grabbed, l.asking.release) /\ Asks(l, l.asking)

Ordered(l) == Alike(l) /\ Settled(l)

PassesInOrder == \A p \in Pass : pass[p] # None => Ordered(pass[p]) /\ AskingOpen(pass[p])

IInv == TypeOK /\ PassesInOrder

-----------------------------------------------------------------------------
LEMMA ReleasesOf ==
  ASSUME NEW A, NEW r
  PROVE  r \in Releases(A) <=> \E d \in A : d.release = r
BY Zenon DEF Releases

LEMMA ReleasesUnion ==
  ASSUME NEW A, NEW B
  PROVE  Releases(A \cup B) = Releases(A) \cup Releases(B)
BY Zenon DEF Releases

LEMMA ReleasesOne ==
  ASSUME NEW d
  PROVE  Releases({d}) = {d.release}
BY Zenon DEF Releases

LEMMA ReleasesWithin ==
  ASSUME NEW A, NEW B, A \subseteq B
  PROVE  Releases(A) \subseteq Releases(B)
BY Zenon DEF Releases

LEMMA PreparedFacts ==
  ASSUME NEW l \in Locals, NEW ds \in SUBSET Report
  PROVE  /\ PutAside(l, ds) \in Locals
         /\ l.queue \subseteq PutAside(l, ds).queue
         /\ Releases(PutAside(l, ds).queue) = Releases(l.queue) \cup Releases(ds)
         /\ PutAside(l, ds).todo = l.todo /\ PutAside(l, ds).asking = l.asking
         /\ PutAside(l, ds).grabbed = l.grabbed /\ PutAside(l, ds).failed = l.failed
         /\ PutAside(l, ds).rejected = l.rejected
<1> DEFINE cause(d) == LET earlier == Releases(l.queue) \cup Releases({e \in ds : Before(e, d)})
                       IN  IF Processed(l.grabbed \cup earlier, d.release) THEN "Fallback"
                           ELSE IF d.temporary THEN "Delay"
                           ELSE "DownloadClientUnavailable"
<1>1. \A d \in ds : cause(d) \in Reason
  BY DEF Reason
<1>2. Prepared(l, ds) = {[release |-> d.release, copy |-> d.copy, reason |-> cause(d)] : d \in ds}
  BY DEF Prepared
<1> HIDE DEF cause
<1>3. \A d \in ds : d.release \in Release /\ d.copy \in Copy
  BY DEF Report
<1>4. Prepared(l, ds) \subseteq Aside
  BY <1>1, <1>2, <1>3 DEF Aside
<1>5. Releases(Prepared(l, ds)) = Releases(ds)
  <2>1. ASSUME NEW q \in Prepared(l, ds) PROVE \E d \in ds : d.release = q.release
    BY <1>2
  <2>2. ASSUME NEW d \in ds PROVE \E q \in Prepared(l, ds) : q.release = d.release
    <3>1. [release |-> d.release, copy |-> d.copy, reason |-> cause(d)] \in Prepared(l, ds)
      BY <1>2
    <3>2. QED
      BY <3>1
  <2>3. QED
    <3>1. ASSUME NEW r \in Releases(Prepared(l, ds)) PROVE r \in Releases(ds)
      <4>1. PICK q \in Prepared(l, ds) : q.release = r
        BY ReleasesOf, Zenon
      <4>2. QED
        BY <2>1, <4>1, ReleasesOf, Zenon
    <3>2. ASSUME NEW r \in Releases(ds) PROVE r \in Releases(Prepared(l, ds))
      <4>1. PICK d \in ds : d.release = r
        BY ReleasesOf, Zenon
      <4>2. QED
        BY <2>2, <4>1, ReleasesOf, Zenon
    <3>3. QED
      BY <3>1, <3>2, Zenon
<1>6. PICK more \in SUBSET Aside : more = Prepared(l, ds)
  BY <1>4
<1>7. PutAside(l, ds) = [l EXCEPT !.queue = l.queue \cup more]
  BY <1>6 DEF PutAside
<1>8. Releases(l.queue \cup more) = Releases(l.queue) \cup Releases(ds)
  BY <1>5, <1>6, ReleasesUnion
<1>9. /\ PutAside(l, ds) \in Locals /\ PutAside(l, ds).queue = l.queue \cup more
      /\ PutAside(l, ds).todo = l.todo /\ PutAside(l, ds).asking = l.asking
      /\ PutAside(l, ds).grabbed = l.grabbed /\ PutAside(l, ds).failed = l.failed
      /\ PutAside(l, ds).rejected = l.rejected
  BY <1>7 DEF Locals
<1>10. QED
  BY <1>8, <1>9

\* A pass begins with reports of releases it takes for better than what is
\* there, and in good order.
LEMMA BegunFacts ==
  ASSUME NEW found \in SUBSET Release, NEW patient \in BOOLEAN
  PROVE  /\ Begun(found, patient) \in Locals /\ Ordered(Begun(found, patient))
         /\ \A d \in Reports(Begun(found, patient)) : d \in Report /\ ~Rejected(d.release)
<1>1. Batch(found, patient) \subseteq Report
      /\ \A d \in Batch(found, patient) : ~Rejected(d.release)
                                          /\ d.temporary = (patient /\ Waits(d.release))
  BY DEF Batch
<1>2. Reports(Begun(found, patient)) = Batch(found, patient)
  BY DEF Reports, Begun
<1>3. Begun(found, patient) \in Locals
  BY <1>1 DEF Begun, Locals
<1>4. Alike(Begun(found, patient))
  BY <1>1, <1>2 DEF Alike
<1>5. Settled(Begun(found, patient))
  BY DEF Begun, Settled
<1>6. QED
  BY <1>1, <1>2, <1>3, <1>4, <1>5 DEF Ordered

\* A report that fails takes its protocol with it.
LEMMA AnsweredFacts ==
  ASSUME NEW l \in Locals, Ordered(l), AskingOpen(l), l.asking # None, NEW result \in Result
  PROVE  /\ Answered(l, result) \in Locals /\ Ordered(Answered(l, result))
         /\ Reports(Answered(l, result)) = Reports(l)
         /\ l.queue \subseteq Answered(l, result).queue
         /\ Releases(Answered(l, result).queue) = Releases(l.queue) \cup
              (IF result = "Failed" THEN {l.asking.release} ELSE {})
         /\ Answered(l, result).grabbed = l.grabbed \cup
              (IF result = "Grabbed" THEN {l.asking.release} ELSE {})
         /\ Answered(l, result).rejected = l.rejected \cup
              (IF result = "Rejected" THEN {l.asking.release} ELSE {})
         /\ l.asking \in Report /\ l.asking.release \notin Releases(l.queue)
<1>1. l.asking \in Report /\ l.asking \in Reports(l) /\ Reports(l) \subseteq Report
  BY DEF Locals, Reports
<1>2. l.asking.release \in Release
  BY <1>1 DEF Report
<1>3. l.asking.release \notin Releases(l.queue)
  BY <1>1 DEF Ordered, Settled, AskingOpen, Releases
<1>4. CASE result = "Grabbed"
  <2>1. Answered(l, result) = [l EXCEPT !.grabbed = @ \cup {l.asking.release}]
    BY <1>4 DEF Answered
  <2> DEFINE n == Answered(l, result)
  <2>2. /\ n \in Locals /\ n.todo = l.todo /\ n.asking = l.asking /\ n.queue = l.queue
        /\ n.failed = l.failed /\ n.rejected = l.rejected
        /\ n.grabbed = l.grabbed \cup {l.asking.release}
    BY <1>2, <2>1 DEF Locals
  <2> HIDE DEF n
  <2>3. Reports(n) = Reports(l)
    BY <2>2 DEF Reports
  <2>4. Ordered(n)
    BY <2>2, <2>3 DEF Ordered, Alike, Settled, Asks
  <2>5. QED
    BY <1>1, <1>3, <1>4, <2>2, <2>3, <2>4 DEF n
<1>5. CASE result = "Rejected"
  <2>1. Answered(l, result) = [l EXCEPT !.rejected = @ \cup {l.asking.release}]
    BY <1>5 DEF Answered
  <2> DEFINE n == Answered(l, result)
  <2>2. /\ n \in Locals /\ n.todo = l.todo /\ n.asking = l.asking /\ n.queue = l.queue
        /\ n.failed = l.failed /\ n.grabbed = l.grabbed
        /\ n.rejected = l.rejected \cup {l.asking.release}
    BY <1>2, <2>1 DEF Locals
  <2> HIDE DEF n
  <2>3. Reports(n) = Reports(l)
    BY <2>2 DEF Reports
  <2>4. Ordered(n)
    BY <2>2, <2>3 DEF Ordered, Alike, Settled, Asks
  <2>5. QED
    BY <1>1, <1>3, <1>5, <2>2, <2>3, <2>4 DEF n
<1>6. CASE result = "Failed"
  <2> DEFINE m == PutAside(l, {l.asking})
             n == Answered(l, result)
  <2>1. n = [m EXCEPT !.failed = l.failed \cup {Protocol[l.asking.release]}]
    <3>1. m.failed = l.failed
      BY <1>1, PreparedFacts
    <3>2. n = [m EXCEPT !.failed = m.failed \cup {Protocol[l.asking.release]}]
      BY <1>6 DEF Answered
    <3> HIDE DEF m, n
    <3>3. QED
      BY <3>1, <3>2
  <2>2. /\ m \in Locals /\ l.queue \subseteq m.queue
        /\ Releases(m.queue) = Releases(l.queue) \cup {l.asking.release}
        /\ m.todo = l.todo /\ m.asking = l.asking
        /\ m.grabbed = l.grabbed /\ m.failed = l.failed /\ m.rejected = l.rejected
    <3>1. {l.asking} \in SUBSET Report
      BY <1>1
    <3>2. Releases({l.asking}) = {l.asking.release}
      BY ReleasesOne
    <3>3. /\ m \in Locals /\ l.queue \subseteq m.queue
          /\ Releases(m.queue) = Releases(l.queue) \cup Releases({l.asking})
          /\ m.todo = l.todo /\ m.asking = l.asking /\ m.grabbed = l.grabbed
          /\ m.failed = l.failed /\ m.rejected = l.rejected
      BY <3>1, PreparedFacts
    <3> HIDE DEF m
    <3>4. QED
      BY <3>2, <3>3, Zenon
  <2> HIDE DEF m
  <2>3. /\ n \in Locals /\ n.queue = m.queue /\ n.todo = l.todo /\ n.asking = l.asking
        /\ n.grabbed = l.grabbed /\ n.rejected = l.rejected
        /\ n.failed = l.failed \cup {Protocol[l.asking.release]}
    BY <1>2, <2>1, <2>2 DEF Locals
  <2> HIDE DEF n
  <2>4. Reports(n) = Reports(l)
    BY <2>3 DEF Reports
  <2>5. ASSUME NEW q \in n.queue, NEW d \in Reports(n), d.release = q.release PROVE ~Asks(n, d)
    <3>1. q.release \in Releases(l.queue) \/ q.release = l.asking.release
      BY <2>2, <2>3 DEF Releases
    <3>2. CASE q.release = l.asking.release
      BY <2>3, <2>5, <3>2 DEF Asks
    <3>3. CASE q.release \in Releases(l.queue)
      BY <2>3, <2>4, <2>5, <3>3 DEF Ordered, Settled, Releases, Asks
    <3>4. QED
      BY <3>1, <3>2, <3>3
  <2>6. Ordered(n)
    BY <2>4, <2>5 DEF Ordered, Alike, Settled
  <2>7. QED
    BY <1>1, <1>3, <1>6, <2>2, <2>3, <2>4, <2>6 DEF n
<1>7. CASE result = "Skipped"
  BY <1>1, <1>3, <1>7 DEF Answered
<1>8. QED
  BY <1>4, <1>5, <1>6, <1>7 DEF Result

\* Going on to the next report puts aside reports of other releases.
LEMMA AskForFacts ==
  ASSUME NEW l \in Locals, Ordered(l), NEW d \in NextToAsk(l)
  PROVE  /\ AskFor(l, d) \in Locals /\ Ordered(AskFor(l, d)) /\ AskingOpen(AskFor(l, d))
         /\ AskFor(l, d).asking = d /\ d # None
         /\ Reports(AskFor(l, d)) \subseteq Reports(l)
         /\ AskFor(l, d).grabbed = l.grabbed
         /\ Releases(AskFor(l, d).queue) \subseteq Releases(l.queue) \cup Releases(Open(l))
<1> DEFINE before == {e \in Open(l) : Before(e, d)}
           m == PutAside(l, before)
           n == AskFor(l, d)
<1>1. /\ d \in l.todo /\ d \in Report /\ d # None /\ d \in Open(l)
      /\ before \in SUBSET Report /\ before \subseteq Open(l) /\ l.todo \subseteq Report
      /\ Open(l) \subseteq l.todo
      /\ Asks(l, d) /\ \A e \in before : ~Asks(l, e)
      /\ ~Processed(l.grabbed, d.release)
  BY DEF NextToAsk, Open, Locals
<1>2. /\ m \in Locals /\ l.queue \subseteq m.queue
      /\ Releases(m.queue) = Releases(l.queue) \cup Releases(before)
      /\ m.todo = l.todo /\ m.asking = l.asking
      /\ m.grabbed = l.grabbed /\ m.failed = l.failed /\ m.rejected = l.rejected
  BY <1>1, PreparedFacts
<1>3. PICK rest \in SUBSET Open(l) : rest = {e \in Open(l) : Before(d, e)}
  OBVIOUS
<1>4. n = [m EXCEPT !.asking = d, !.todo = rest]
  BY <1>3 DEF AskFor
<1> HIDE DEF m, before
<1>5. /\ n \in Locals /\ n.queue = m.queue /\ n.todo = rest /\ n.asking = d
      /\ n.grabbed = l.grabbed /\ n.failed = l.failed
  <2>1. rest \in SUBSET Report
    BY <1>1, <1>3
  <2>2. n \in Locals /\ n.queue = m.queue /\ n.todo = rest /\ n.asking = d
        /\ n.grabbed = m.grabbed /\ n.failed = m.failed
    BY <1>1, <1>2, <1>4, <2>1 DEF Locals
  <2>3. QED
    BY <1>2, <2>2
<1> HIDE DEF n
<1>6. Reports(n) \subseteq l.todo /\ l.todo \subseteq Reports(l)
  BY <1>1, <1>3, <1>5 DEF Reports
<1>7. Alike(n)
  BY <1>6 DEF Ordered, Alike
<1>8. \A e \in Reports(n) : Asks(n, e) <=> Asks(l, e)
  BY <1>5 DEF Asks
<1>9. ASSUME NEW q \in n.queue, NEW e \in Reports(n), e.release = q.release PROVE ~Asks(n, e)
  <2>1. q.release \in Releases(l.queue) \/ q.release \in Releases(before)
    BY <1>2, <1>5 DEF Releases
  <2>2. CASE q.release \in Releases(l.queue)
    BY <1>6, <1>8, <1>9, <2>2 DEF Ordered, Settled, Releases
  <2>3. CASE q.release \in Releases(before)
    <3>1. PICK f \in before : f.release = q.release
      BY <2>3 DEF Releases
    <3>2. f.temporary = e.temporary
      BY <1>1, <1>6, <1>9, <3>1 DEF Ordered, Alike
    <3>3. QED
      BY <1>1, <1>8, <1>9, <3>1, <3>2 DEF Asks
  <2>4. QED
    BY <2>1, <2>2, <2>3
<1>10. AskingOpen(n)
  BY <1>1, <1>5 DEF AskingOpen, Asks
<1>11. Releases(n.queue) \subseteq Releases(l.queue) \cup Releases(Open(l))
  BY <1>1, <1>2, <1>5, ReleasesWithin
<1>12. QED
  BY <1>1, <1>5, <1>6, <1>7, <1>9, <1>10, <1>11 DEF n, Ordered, Settled

-----------------------------------------------------------------------------
LEMMA LastOfGiven ==
  ASSUME NEW given \in SUBSET Aside, given # {}
  PROVE  Last(given) # {}
<1>1. \A q \in given : q.copy \in 1..2
  BY DEF Aside, Copy
<1>2. CASE \E q \in given : q.copy = 2
  <2>1. PICK q \in given : q.copy = 2
    BY <1>2
  <2>2. q \in Last(given)
    BY <1>1, <2>1 DEF Last
  <2>3. QED
    BY <2>2
<1>3. CASE \A q \in given : q.copy # 2
  <2>1. PICK q \in given : TRUE
    OBVIOUS
  <2>2. q \in Last(given)
    BY <1>1, <1>3, <2>1 DEF Last
  <2>3. QED
    BY <2>2
<1>4. QED
  BY <1>2, <1>3

LEMMA ReplacedFacts ==
  ASSUME NEW old \in SUBSET Row, NEW given \in SUBSET Aside, given # {}
  PROVE  Replaced(old, given) \in SUBSET Row /\ Replaced(old, given) # {}
<1> DEFINE reasons == {x.reason : x \in First(old) \cup given}
           row(q) == [copy |-> 1, reason |-> IF "DownloadClientUnavailable" \in reasons
                                             THEN "DownloadClientUnavailable" ELSE q.reason]
<1>1. Replaced(old, given) = {row(q) : q \in Last(given)}
  BY DEF Replaced
<1>2. \A q \in given : row(q) \in Row
  <2>1. \A q \in given : q.reason \in Reason
    BY DEF Aside
  <2>2. 1 \in Copy /\ "DownloadClientUnavailable" \in Reason
    BY DEF Copy, Reason
  <2>3. QED
    BY <2>1, <2>2 DEF Row
<1> HIDE DEF row
<1>3. Last(given) \subseteq given
  BY DEF Last
<1>4. PICK q \in Last(given) : TRUE
  BY LastOfGiven
<1>5. row(q) \in Replaced(old, given)
  BY <1>1
<1>6. QED
  BY <1>1, <1>2, <1>3, <1>5

\* A release has rows in the new table when it had some, or was put aside.
LEMMA AddManyFacts ==
  ASSUME NEW rs \in [Release -> SUBSET Row], NEW queue \in SUBSET Aside
  PROVE  /\ AddMany(rs, queue) \in [Release -> SUBSET Row]
         /\ \A r \in Release :
              AddMany(rs, queue)[r] # {} <=> (rs[r] # {} \/ r \in Releases(queue))
<1> DEFINE new(r) == IF Given(queue, r) = {} THEN rs[r]
                     ELSE IF rs[r] = {} THEN RowsOf(Given(queue, r))
                     ELSE Replaced(rs[r], Given(queue, r))
<1>1. AddMany(rs, queue) = [r \in Release |-> new(r)]
  BY DEF AddMany
<1>2. ASSUME NEW r \in Release
      PROVE  new(r) \in SUBSET Row /\ (new(r) # {} <=> (rs[r] # {} \/ r \in Releases(queue)))
  <2> DEFINE given == Given(queue, r)
  <2>1. given \in SUBSET Aside
    BY DEF Given
  <2>2. given # {} <=> r \in Releases(queue)
    BY ReleasesOf DEF Given
  <2>3. rs[r] \in SUBSET Row
    OBVIOUS
  <2>4. CASE given = {}
    BY <2>2, <2>3, <2>4
  <2>5. CASE given # {} /\ rs[r] = {}
    <3>1. \A q \in given : [copy |-> q.copy, reason |-> q.reason] \in Row
      BY <2>1 DEF Aside, Row
    <3>2. PICK q \in given : TRUE
      BY <2>5
    <3>3. [copy |-> q.copy, reason |-> q.reason] \in RowsOf(given)
      BY <3>2 DEF RowsOf
    <3>4. RowsOf(given) \in SUBSET Row
      BY <3>1 DEF RowsOf
    <3>5. new(r) = RowsOf(given)
      BY <2>5
    <3> HIDE DEF new, given
    <3>6. QED
      BY <2>2, <2>5, <3>3, <3>4, <3>5
  <2>6. CASE given # {} /\ rs[r] # {}
    <3>1. Replaced(rs[r], given) \in SUBSET Row /\ Replaced(rs[r], given) # {}
      BY <2>1, <2>3, <2>6, ReplacedFacts
    <3>2. new(r) = Replaced(rs[r], given)
      BY <2>6
    <3> HIDE DEF new, given
    <3>3. QED
      BY <2>2, <2>6, <3>1, <3>2
  <2>7. QED
    BY <2>4, <2>5, <2>6
<1> HIDE DEF new
<1>3. QED
  BY <1>1, <1>2

\* What was found rejected may be removed again when the pass ends.
LEMMA StoredFacts ==
  ASSUME NEW p, NEW l \in Locals, NEW rs \in [Release -> SUBSET Row]
  PROVE  /\ Stored(p, l, rs) \in [Release -> SUBSET Row]
         /\ \A r \in Release : Stored(p, l, rs)[r] # {} => (rs[r] # {} \/ r \in Releases(l.queue))
         /\ \A r \in Releases(l.queue) \ l.rejected : Stored(p, l, rs)[r] # {}
<1> l.queue \in SUBSET Aside
  BY DEF Locals
<1>1. /\ AddMany(rs, l.queue) \in [Release -> SUBSET Row]
      /\ \A r \in Release :
           AddMany(rs, l.queue)[r] # {} <=> (rs[r] # {} \/ r \in Releases(l.queue))
  BY AddManyFacts
<1>2. PICK table \in [Release -> SUBSET Row] :
        /\ table = AddMany(rs, l.queue)
        /\ \A r \in Release : table[r] # {} <=> (rs[r] # {} \/ r \in Releases(l.queue))
  BY <1>1, Zenon
<1>3. Releases(l.queue) \subseteq Release
  BY DEF Releases, Locals, Aside
<1>4. CASE p \in Rss
  <2>1. Stored(p, l, rs) = RemoveRejected(table, l.rejected)
    BY <1>2, <1>4 DEF Stored
  <2>2. PICK gone \in SUBSET l.rejected : Stored(p, l, rs) = Without(table, gone)
    BY <2>1 DEF RemoveRejected
  <2>3. QED
    BY <1>2, <1>3, <2>2 DEF Without
<1>5. CASE p \notin Rss
  BY <1>2, <1>3, <1>5 DEF Stored
<1>6. QED
  BY <1>4, <1>5

\* A step of a pass: it goes on to the next report, or stores its queue.
LEMMA RunFacts ==
  ASSUME TypeOK, NEW p \in Pass, NEW l \in Locals, Ordered(l),
         NEW rs \in [Release -> SUBSET Row], Run(p, l, rs)
  PROVE  /\ rows' \in [Release -> SUBSET Row]
         /\ pass' \in [Pass -> Locals \cup {None}]
         /\ \A q \in Pass : q # p => pass'[q] = pass[q]
         /\ \/ /\ \E d \in NextToAsk(l) : pass'[p] = AskFor(l, d)
               /\ pass'[p] \in Locals /\ pass'[p] # None /\ pass'[p].asking # None
               /\ Ordered(pass'[p]) /\ AskingOpen(pass'[p])
               /\ rows' = rs
            \/ /\ pass'[p] = None
               /\ rows' = Stored(p, PutAside(l, Open(l)), rs)
<1>1. pass \in [Pass -> Locals \cup {None}]
  BY DEF TypeOK
<1>2. CASE \E d \in NextToAsk(l) : pass' = [pass EXCEPT ![p] = AskFor(l, d)] /\ rows' = rs
  <2>1. PICK d \in NextToAsk(l) : pass' = [pass EXCEPT ![p] = AskFor(l, d)] /\ rows' = rs
    BY <1>2
  <2>2. PICK n \in Locals : n = AskFor(l, d)
    BY AskForFacts
  <2>3. n.asking # None /\ Ordered(n) /\ AskingOpen(n) /\ n # None
    BY <2>2, AskForFacts
  <2>4. /\ pass' \in [Pass -> Locals \cup {None}] /\ pass'[p] = n
        /\ \A q \in Pass : q # p => pass'[q] = pass[q]
    BY <1>1, <2>1, <2>2
  <2>5. QED
    BY <2>1, <2>2, <2>3, <2>4
<1>3. CASE /\ \A d \in Open(l) : ~Asks(l, d)
           /\ pass' = [pass EXCEPT ![p] = None]
           /\ rows' = Stored(p, PutAside(l, Open(l)), rs)
  <2>1. Open(l) \in SUBSET Report
    BY DEF Open, Locals
  <2>2. PutAside(l, Open(l)) \in Locals
    BY <2>1, PreparedFacts
  <2>3. rows' \in [Release -> SUBSET Row]
    BY <1>3, <2>2, StoredFacts
  <2>4. /\ pass' \in [Pass -> Locals \cup {None}] /\ pass'[p] = None
        /\ \A q \in Pass : q # p => pass'[q] = pass[q]
    BY <1>1, <1>3
  <2>5. QED
    BY <1>3, <2>3, <2>4
<1>4. QED
  BY <1>2, <1>3 DEF Run

LEMMA WithoutFacts ==
  ASSUME NEW rs \in [Release -> SUBSET Row], NEW gone
  PROVE  /\ Without(rs, gone) \in [Release -> SUBSET Row]
         /\ \A r \in Release : Without(rs, gone)[r] = IF r \in gone THEN {} ELSE rs[r]
BY DEF Without

\* The locals a pass has when it starts, or when it has its answer, and the
\* table it then finds.
LEMMA StartFacts ==
  ASSUME TypeOK, NEW p \in Pass, NEW found \in SUBSET Release, NEW patient \in BOOLEAN,
         Start(p, found, patient)
  PROVE  \E l \in Locals :
           /\ l = Begun(found, patient)
           /\ Ordered(l) /\ l.queue = {}
           /\ \A d \in Reports(l) : d \in Report /\ ~Rejected(d.release)
           /\ Run(p, l, rows)
<1>1. Run(p, Begun(found, patient), rows)
  BY DEF Start
<1>2. Begun(found, patient).queue = {}
  BY DEF Begun
<1>3. QED
  BY <1>1, <1>2, BegunFacts

LEMMA ResolveFacts ==
  ASSUME IInv, NEW p \in Pass, NEW result \in Result, Resolve(p, result)
  PROVE  /\ pass[p] # None /\ pass[p] \in Locals /\ pass[p].asking # None
         /\ Ordered(pass[p]) /\ AskingOpen(pass[p])
         /\ Answered(pass[p], result) \in Locals /\ Ordered(Answered(pass[p], result))
         /\ pass[p].asking \in Report /\ pass[p].asking.release \in Release
         /\ \E rs \in [Release -> SUBSET Row] :
              /\ rs = IF result = "Grabbed" THEN RemoveGrabbed(pass[p].asking.release) ELSE rows
              /\ Run(p, Answered(pass[p], result), rs)
<1>1. /\ pass[p] # None /\ pass[p] \in Locals /\ pass[p].asking # None
      /\ Ordered(pass[p]) /\ AskingOpen(pass[p])
  BY DEF IInv, TypeOK, PassesInOrder, Resolve
<1>2. /\ Answered(pass[p], result) \in Locals /\ Ordered(Answered(pass[p], result))
      /\ pass[p].asking \in Report
  BY <1>1, AnsweredFacts
<1>3. pass[p].asking.release \in Release
  BY <1>2 DEF Report
<1>4. rows \in [Release -> SUBSET Row]
  BY DEF IInv, TypeOK
<1>5. RemoveGrabbed(pass[p].asking.release) \in [Release -> SUBSET Row]
  <2>1. PICK gone : RemoveGrabbed(pass[p].asking.release) = Without(rows, gone)
    BY Zenon DEF RemoveGrabbed
  <2>2. QED
    BY <1>4, <2>1, WithoutFacts
<1>6. Run(p, Answered(pass[p], result),
          IF result = "Grabbed" THEN RemoveGrabbed(pass[p].asking.release) ELSE rows)
  BY DEF Resolve
<1>7. QED
  BY <1>1, <1>2, <1>3, <1>4, <1>5, <1>6

-----------------------------------------------------------------------------
LEMMA RunKeepsOrder ==
  ASSUME IInv, NEW p \in Pass, NEW l \in Locals, Ordered(l),
         NEW rs \in [Release -> SUBSET Row], Run(p, l, rs),
         got' \in [Book -> Release \cup {None}], UNCHANGED <<delayed, banned, authors, faulty>>
  PROVE  IInv'
<1>1. /\ rows' \in [Release -> SUBSET Row]
      /\ pass' \in [Pass -> Locals \cup {None}]
      /\ \A q \in Pass : q # p => pass'[q] = pass[q]
      /\ pass'[p] # None => pass'[p].asking # None /\ Ordered(pass'[p]) /\ AskingOpen(pass'[p])
  BY RunFacts DEF IInv
<1>2. TypeOK'
  BY <1>1 DEF IInv, TypeOK
<1>3. PassesInOrder'
  BY <1>1 DEF IInv, PassesInOrder
<1>4. QED
  BY <1>2, <1>3 DEF IInv

LEMMA IInvStep ==
  ASSUME IInv, [Next]_vars
  PROVE  IInv'
<1>1. rows \in [Release -> SUBSET Row] /\ got \in [Book -> Release \cup {None}] /\ TypeOK
  BY DEF IInv, TypeOK
<1>2. TypeOK
  BY <1>1
<1>3. ASSUME NEW p \in Pass, NEW found \in SUBSET Release, NEW patient \in BOOLEAN,
             Start(p, found, patient)
      PROVE  IInv'
  <2>1. \E l \in Locals : Ordered(l) /\ Run(p, l, rows)
    <3>1. Begun(found, patient) \in Locals /\ Ordered(Begun(found, patient))
      BY BegunFacts
    <3>2. Run(p, Begun(found, patient), rows)
      BY <1>3 DEF Start
    <3>3. QED
      BY <3>1, <3>2
  <2>2. UNCHANGED <<got, delayed, banned, authors, faulty>>
    BY <1>3 DEF Start
  <2>3. QED
    BY <1>1, <2>1, <2>2, RunKeepsOrder
<1>4. ASSUME NEW p \in Pass, NEW result \in Result, Resolve(p, result)
      PROVE  IInv'
  <2>1. got' \in [Book -> Release \cup {None}]
    BY <1>1, <1>4, ResolveFacts DEF Resolve
  <2>2. PICK l \in Locals, rs \in [Release -> SUBSET Row] : Ordered(l) /\ Run(p, l, rs)
    BY <1>4, ResolveFacts
  <2>3. UNCHANGED <<delayed, banned, authors, faulty>>
    BY <1>4 DEF Resolve
  <2>4. QED
    BY <2>1, <2>2, <2>3, RunKeepsOrder
<1>5. ASSUME rows' \in [Release -> SUBSET Row], got' \in [Book -> Release \cup {None}],
             delayed' \subseteq Release, banned' \subseteq Release, authors' \subseteq Author,
             faulty' \in BOOLEAN, pass' = pass
      PROVE  IInv'
  <2>1. TypeOK'
    BY <1>1, <1>5 DEF TypeOK
  <2>2. PassesInOrder'
    BY <1>5 DEF IInv, PassesInOrder
  <2>3. QED
    BY <2>1, <2>2 DEF IInv
<1>6. ASSUME NEW b \in Book, DownloadFails(b) PROVE IInv'
  BY <1>1, <1>5, <1>6 DEF DownloadFails, TypeOK
<1>7. ASSUME NEW r \in Release, DelayOver(r) PROVE IInv'
  BY <1>1, <1>5, <1>7 DEF DelayOver, TypeOK
<1>8. ASSUME NEW r \in Release, RemoveFromQueue(r) PROVE IInv'
  BY <1>1, <1>5, <1>8, WithoutFacts DEF RemoveFromQueue, TypeOK
<1>9. ASSUME NEW a \in Author, DeleteAuthor(a) PROVE IInv'
  BY <1>1, <1>5, <1>9, WithoutFacts DEF DeleteAuthor, TypeOK
<1>10. ASSUME NEW old \in SUBSET Release, Housekeep(old) PROVE IInv'
  BY <1>1, <1>5, <1>10 DEF Housekeep, TypeOK
<1>11. ASSUME Restart PROVE IInv'
  BY <1>11 DEF Restart, IInv, TypeOK, PassesInOrder
<1>12. ASSUME Repaired PROVE IInv'
  BY <1>1, <1>5, <1>12 DEF Repaired, TypeOK
<1>13. ASSUME UNCHANGED vars PROVE IInv'
  BY <1>1, <1>5, <1>13 DEF vars, TypeOK
<1>14. ASSUME NEW p \in Rss, Sync(p) PROVE IInv'
  BY <1>3, <1>14 DEF Sync, Pass
<1>15. ASSUME NEW p \in Search, Find(p) PROVE IInv'
  BY <1>3, <1>15 DEF Find, Pass
<1>16. QED
  BY <1>4, <1>6, <1>7, <1>8, <1>9, <1>10, <1>11, <1>12, <1>13, <1>14, <1>15 DEF Next

LEMMA IInvAlways == Spec => []IInv
<1>1. Init => IInv
  BY DEF Init, IInv, TypeOK, PassesInOrder
<1>2. QED
  BY <1>1, IInvStep, PTL DEF Spec

\* The types of the table, of the passes and of what they are about.
THEOREM TypeCorrect == Spec => []TypeOK
<1>1. IInv => TypeOK
  BY DEF IInv
<1>2. QED
  BY <1>1, IInvAlways, PTL

\* However many passes overlap, a pass that ends has stored every report it
\* put aside, unless it found the release rejected as well: no row that was in
\* the table, and no other pass, makes addMany lose one.
THEOREM NoReportIsLost == Spec => PutAsideIsStored
<1> DEFINE Kept == \A p \in Pass : pass[p] # None /\ pass'[p] = None /\ ~Restart =>
                     Releases(pass[p].queue) \ pass[p].rejected \subseteq Pending'
<1>1. ASSUME IInv, [Next]_vars PROVE [Kept]_vars
  <2>1. SUFFICES ASSUME NEW p \in Pass, pass[p] # None, pass'[p] = None, ~Restart
                 PROVE  Releases(pass[p].queue) \ pass[p].rejected \subseteq Pending'
    BY Zenon DEF Kept
  <2>2. ASSUME NEW q \in Pass, NEW found \in SUBSET Release, NEW patient \in BOOLEAN,
               Start(q, found, patient)
        PROVE  FALSE
    <3>1. pass[q] = None /\ TypeOK
      BY <1>1, <2>2 DEF IInv, Start
    <3>2. PICK l \in Locals : Ordered(l) /\ Run(q, l, rows)
      BY <2>2, <3>1, StartFacts
    <3>3. rows \in [Release -> SUBSET Row]
      BY <3>1 DEF TypeOK
    <3>4. \A x \in Pass : x # q => pass'[x] = pass[x]
      BY <3>1, <3>2, <3>3, RunFacts
    <3>5. QED
      BY <2>1, <3>1, <3>4
  <2>3. ASSUME NEW q \in Pass, NEW result \in Result, Resolve(q, result)
        PROVE  Releases(pass[p].queue) \ pass[p].rejected \subseteq Pending'
    <3> DEFINE l == Answered(pass[q], result)
    <3>1. PICK rs \in [Release -> SUBSET Row] : Run(q, l, rs)
      BY <1>1, <2>3, ResolveFacts
    <3>2. l \in Locals /\ Ordered(l) /\ TypeOK
      BY <1>1, <2>3, ResolveFacts DEF IInv
    <3>3. p = q
      BY <2>1, <3>1, <3>2, RunFacts
    <3>4. rows' = Stored(p, PutAside(l, Open(l)), rs)
      BY <2>1, <3>1, <3>2, <3>3, RunFacts
    <3>5. /\ Releases(pass[p].queue) \subseteq Releases(l.queue)
          /\ l.rejected \subseteq pass[p].rejected \cup {pass[p].asking.release}
          /\ pass[p].asking.release \notin Releases(pass[p].queue)
      <4>1. /\ pass[q] \in Locals /\ pass[q].asking # None
            /\ Ordered(pass[q]) /\ AskingOpen(pass[q])
        BY <1>1, <2>3, ResolveFacts
      <4>2. /\ Releases(l.queue) = Releases(pass[q].queue) \cup
                 (IF result = "Failed" THEN {pass[q].asking.release} ELSE {})
            /\ l.rejected = pass[q].rejected \cup
                 (IF result = "Rejected" THEN {pass[q].asking.release} ELSE {})
            /\ pass[q].asking.release \notin Releases(pass[q].queue)
        BY <4>1, AnsweredFacts
      <4> HIDE DEF l
      <4>3. QED
        BY <3>3, <4>2
    <3> HIDE DEF l
    <3>6. Open(l) \in SUBSET Report
      BY <3>2 DEF Open, Locals
    <3>7. PICK m \in Locals : m = PutAside(l, Open(l)) /\ m.rejected = l.rejected
                              /\ Releases(l.queue) \subseteq Releases(m.queue)
      BY <3>2, <3>6, PreparedFacts
    <3>8. \A r \in Releases(m.queue) \ l.rejected : rows'[r] # {}
      <4>1. rows' = Stored(p, m, rs)
        BY <3>4, <3>7
      <4>2. \A r \in Releases(m.queue) \ m.rejected : Stored(p, m, rs)[r] # {}
        BY StoredFacts
      <4>3. QED
        BY <3>7, <4>1, <4>2
    <3>9. Releases(pass[p].queue) \subseteq Release
      BY <1>1, <2>1 DEF IInv, TypeOK, Locals, Releases, Aside
    <3>10. QED
      BY <3>5, <3>7, <3>8, <3>9 DEF Pending
  <2>4. ASSUME pass' = pass PROVE FALSE
    BY <2>1, <2>4
  <2>5. \/ \E q \in Rss : Sync(q)
        \/ \E q \in Search : Find(q)
        \/ \E q \in Pass, x \in Result : Resolve(q, x)
        \/ pass' = pass
    BY <1>1, <2>1 DEF Next, DownloadFails, DelayOver, RemoveFromQueue, DeleteAuthor,
                      Housekeep, Repaired, vars
  <2>6. ASSUME NEW q \in Rss, Sync(q) PROVE FALSE
    BY <2>2, <2>6 DEF Sync, Pass
  <2>7. ASSUME NEW q \in Search, Find(q) PROVE FALSE
    BY <2>2, <2>7 DEF Find, Pass
  <2>8. QED
    BY <2>3, <2>4, <2>5, <2>6, <2>7
<1>2. QED
  BY <1>1, IInvAlways, PTL DEF Spec, PutAsideIsStored

-----------------------------------------------------------------------------
(***************************************************************************)
(* One pass at a time.                                                     *)
(***************************************************************************)
OnePass == \A p, q \in Pass : p = q

\* What is downloaded for a book is a release of that book.
Covers(g) == \A b \in Book : g[b] # None => b \in Books[g[b]]

\* Nothing that is downloaded has rows.
Apart(g, rs) == \A b \in Book, r \in Release : g[b] = r => rs[r] = {}

\* The reports to come are better than what is downloaded for their books.
Improves(l, g) ==
  \A d \in Reports(l) : ~Processed(l.grabbed, d.release) =>
    \A b \in Books[d.release] : g[b] # None => Quality[g[b]] < Quality[d.release]

\* Nothing that was put aside is downloaded.
QueueApart(l, g) == \A b \in Book : g[b] \notin Releases(l.queue)

\* When the author of a report was deleted, no rows of that author are left.
Known(l, as, rs) ==
  \A d \in Reports(l), s \in Release :
    AuthorOf[s] = AuthorOf[d.release] /\ rs[s] # {} => AuthorOf[s] \in as

Fits(l, g, as, rs) == Improves(l, g) /\ QueueApart(l, g) /\ Known(l, as, rs)

SInv ==
  /\ IInv
  /\ Covers(got) /\ Apart(got, rows)
  /\ \A p \in Pass : pass[p] # None => Fits(pass[p], got, authors, rows)

Downloads == [Book -> Release \cup {None}]
Table     == [Release -> SUBSET Row]

\* A report whose books were not grabbed in this pass is not downloaded.
LEMMA OpenIsApart ==
  ASSUME NEW l \in Locals, NEW g \in Downloads, Covers(g), Improves(l, g),
         NEW d \in Reports(l), ~Processed(l.grabbed, d.release), NEW b \in Book
  PROVE  g[b] # d.release
<1>1. d.release \in Release
  BY DEF Reports, Locals, Report
<1>2. SUFFICES ASSUME g[b] = d.release PROVE FALSE
  OBVIOUS
<1>3. g[b] # None /\ b \in Books[d.release]
  BY <1>1, <1>2 DEF Covers
<1>4. Quality[g[b]] < Quality[d.release]
  BY <1>3 DEF Improves
<1>5. Quality[d.release] \in Nat
  BY <1>1
<1>6. QED
  BY <1>2, <1>4, <1>5

LEMMA OpenReleasesApart ==
  ASSUME NEW l \in Locals, NEW g \in Downloads, Covers(g), Improves(l, g), NEW b \in Book
  PROVE  g[b] \notin Releases(Open(l))
<1>1. SUFFICES ASSUME g[b] \in Releases(Open(l)) PROVE FALSE
  OBVIOUS
<1>2. PICK d \in Open(l) : d.release = g[b]
  BY <1>1, ReleasesOf
<1>3. d \in Reports(l) /\ ~Processed(l.grabbed, d.release)
  BY <1>2 DEF Open, Reports
<1>4. QED
  BY <1>2, <1>3, OpenIsApart

\* However a pass goes on, it fits what is downloaded, and so does the table.
LEMMA RunFits ==
  ASSUME TypeOK, NEW p \in Pass, NEW l \in Locals, Ordered(l), NEW g \in Downloads,
         NEW as, NEW rs \in Table, Covers(g), Apart(g, rs), Fits(l, g, as, rs), Run(p, l, rs)
  PROVE  /\ Apart(g, rows')
         /\ pass'[p] # None => Fits(pass'[p], g, as, rows')
<1>1. rs \in [Release -> SUBSET Row]
  BY DEF Table
<1>2. CASE \E d \in NextToAsk(l) : pass'[p] = AskFor(l, d) /\ rows' = rs
  <2>1. PICK d \in NextToAsk(l) : pass'[p] = AskFor(l, d) /\ rows' = rs
    BY <1>2
  <2>2. PICK n \in Locals : n = AskFor(l, d) /\ Reports(n) \subseteq Reports(l)
                            /\ n.grabbed = l.grabbed
                            /\ Releases(n.queue) \subseteq Releases(l.queue) \cup Releases(Open(l))
    BY AskForFacts
  <2>3. Improves(n, g)
    BY <2>2 DEF Fits, Improves
  <2>4. \A b \in Book : g[b] \notin Releases(Open(l))
    BY OpenReleasesApart DEF Fits
  <2>5. QueueApart(n, g)
    BY <2>2, <2>4 DEF Fits, QueueApart
  <2>6. Known(n, as, rs)
    BY <2>2 DEF Fits, Known
  <2>7. QED
    BY <2>1, <2>2, <2>3, <2>5, <2>6 DEF Fits
<1>3. CASE pass'[p] = None /\ rows' = Stored(p, PutAside(l, Open(l)), rs)
  <2>1. Open(l) \in SUBSET Report
    BY DEF Open, Locals
  <2>2. PICK m \in Locals : m = PutAside(l, Open(l))
                            /\ Releases(m.queue) = Releases(l.queue) \cup Releases(Open(l))
    BY <2>1, PreparedFacts
  <2>3. \A r \in Release : Stored(p, m, rs)[r] # {} => (rs[r] # {} \/ r \in Releases(m.queue))
    BY <1>1, StoredFacts
  <2>4. \A b \in Book : g[b] \notin Releases(Open(l))
    BY OpenReleasesApart DEF Fits
  <2>5. Apart(g, Stored(p, m, rs))
    BY <2>2, <2>3, <2>4 DEF Apart, Fits, QueueApart
  <2>6. QED
    BY <1>3, <2>2, <2>5
<1>4. \/ /\ \E d \in NextToAsk(l) : pass'[p] = AskFor(l, d)
         /\ rows' = rs
      \/ /\ pass'[p] = None
         /\ rows' = Stored(p, PutAside(l, Open(l)), rs)
  BY <1>1, RunFacts
<1>5. CASE (\E d \in NextToAsk(l) : pass'[p] = AskFor(l, d)) /\ rows' = rs
  BY <1>2, <1>5
<1>6. QED
  BY <1>3, <1>4, <1>5, Zenon

\* removeGrabbed takes the rows of the release itself.
LEMMA GrabbedRowsGo ==
  ASSUME TypeOK, NEW l \in Locals, NEW d \in Reports(l), Known(l, authors, rows)
  PROVE  /\ RemoveGrabbed(d.release) \in Table
         /\ RemoveGrabbed(d.release)[d.release] = {}
         /\ \A s \in Release : RemoveGrabbed(d.release)[s] # {} => rows[s] # {}
<1> DEFINE r == d.release
           mine == {s \in Pending : AuthorOf[s] = AuthorOf[r]}
           gone == {s \in Legible(mine) : Overlap(r, s) /\ Quality[r] >= Quality[s]}
<1>1. r \in Release
  BY DEF Reports, Locals, Report
<1>2. rows \in [Release -> SUBSET Row]
  BY DEF TypeOK
<1>3. RemoveGrabbed(r) = Without(rows, gone)
  BY DEF RemoveGrabbed
<1>4. \A s \in mine : AuthorOf[s] \in authors
  BY DEF Known, Pending
<1>5. Legible(mine) = mine
  BY <1>4, Zenon DEF Legible
<1>6. Overlap(r, r) /\ Quality[r] >= Quality[r]
  <2>1. Books[r] # {} /\ Quality[r] \in Nat
    BY <1>1
  <2>2. QED
    BY <2>1 DEF Overlap
<1>7. rows[r] # {} => r \in gone
  <2>1. ASSUME rows[r] # {} PROVE r \in mine
    BY <1>1, <2>1 DEF Pending
  <2>2. QED
    BY <1>5, <1>6, <2>1
<1> HIDE DEF gone
<1>8. QED
  <2>1. /\ Without(rows, gone) \in [Release -> SUBSET Row]
        /\ \A s \in Release : Without(rows, gone)[s] = IF s \in gone THEN {} ELSE rows[s]
    BY <1>2, WithoutFacts
  <2>2. QED
    BY <1>1, <1>3, <1>7, <2>1 DEF Table

LEMMA GrabFits ==
  ASSUME TypeOK, NEW l \in Locals, Ordered(l), AskingOpen(l), l.asking # None,
         Covers(got), Apart(got, rows), Fits(l, got, authors, rows),
         NEW g \in Downloads,
         \A b \in Book : g[b] = IF b \in Books[l.asking.release] THEN l.asking.release ELSE got[b]
  PROVE  /\ Covers(g) /\ Apart(g, RemoveGrabbed(l.asking.release))
         /\ Fits(Answered(l, "Grabbed"), g, authors, RemoveGrabbed(l.asking.release))
<1> DEFINE r == l.asking.release
           n == Answered(l, "Grabbed")
           rs == RemoveGrabbed(r)
<1>1. "Grabbed" \in Result
  BY DEF Result
<1>2. /\ Reports(n) = Reports(l) /\ Releases(n.queue) = Releases(l.queue)
      /\ n.grabbed = l.grabbed \cup {r} /\ l.asking \in Report /\ r \notin Releases(l.queue)
  <2>1. /\ Reports(n) = Reports(l)
        /\ Releases(n.queue) = Releases(l.queue) \cup
             (IF "Grabbed" = "Failed" THEN {l.asking.release} ELSE {})
        /\ n.grabbed = l.grabbed \cup
             (IF "Grabbed" = "Grabbed" THEN {l.asking.release} ELSE {})
        /\ l.asking \in Report /\ l.asking.release \notin Releases(l.queue)
    BY <1>1, AnsweredFacts, Zenon
  <2> HIDE DEF n
  <2>2. QED
    BY <2>1
<1>3. r \in Release /\ l.asking \in Reports(l)
  BY <1>2 DEF Report, Reports
<1>4. /\ rs \in Table /\ rs[r] = {} /\ \A s \in Release : rs[s] # {} => rows[s] # {}
  BY <1>3, GrabbedRowsGo DEF Fits
<1> HIDE DEF r, n, rs
<1>5. \A b \in Book : g[b] = IF b \in Books[r] THEN r ELSE got[b]
  BY DEF r
<1>6. Covers(g)
  BY <1>5 DEF Covers
<1>7. Apart(g, rs)
  BY <1>4, <1>5 DEF Apart
<1>8. Improves(n, g)
  <2>1. SUFFICES ASSUME NEW d \in Reports(n), ~Processed(n.grabbed, d.release),
                        NEW b \in Books[d.release], g[b] # None
                 PROVE  Quality[g[b]] < Quality[d.release]
    BY DEF Improves
  <2>2. ~Processed(l.grabbed, d.release) /\ ~Overlap(d.release, r)
    <3>1. \A s \in n.grabbed : ~Overlap(d.release, s)
      BY <2>1, Zenon DEF Processed
    <3>2. \A s \in l.grabbed \cup {r} : ~Overlap(d.release, s)
      BY <1>2, <3>1, Zenon
    <3>3. QED
      BY <3>2, Zenon DEF Processed
  <2>3. d.release \in Release
    BY <1>2, <2>1 DEF Reports, Locals, Report
  <2>4. b \in Book /\ b \notin Books[r]
    BY <1>3, <2>2, <2>3 DEF Overlap
  <2>5. g[b] = got[b]
    BY <1>5, <2>4
  <2>6. QED
    BY <1>2, <2>1, <2>2, <2>5 DEF Fits, Improves
<1>9. QueueApart(n, g)
  BY <1>2, <1>5 DEF Fits, QueueApart
<1>10. Known(n, authors, rs)
  BY <1>2, <1>4 DEF Fits, Known
<1>11. QED
  BY <1>6, <1>7, <1>8, <1>9, <1>10 DEF Fits, n, rs, r

LEMMA OtherAnswersFit ==
  ASSUME TypeOK, NEW l \in Locals, Ordered(l), AskingOpen(l), l.asking # None,
         Covers(got), Fits(l, got, authors, rows),
         NEW result \in Result, result # "Grabbed"
  PROVE  Fits(Answered(l, result), got, authors, rows)
<1> DEFINE n == Answered(l, result)
<1>1. /\ Reports(n) = Reports(l) /\ n.grabbed = l.grabbed
      /\ Releases(n.queue) \subseteq Releases(l.queue) \cup {l.asking.release}
  <2>1. /\ Reports(n) = Reports(l)
        /\ Releases(n.queue) = Releases(l.queue) \cup
             (IF result = "Failed" THEN {l.asking.release} ELSE {})
        /\ n.grabbed = l.grabbed \cup
             (IF result = "Grabbed" THEN {l.asking.release} ELSE {})
    BY AnsweredFacts, Zenon
  <2> HIDE DEF n
  <2>2. QED
    BY <2>1
<1>2. l.asking \in Reports(l) /\ ~Processed(l.grabbed, l.asking.release)
  BY DEF Reports, AskingOpen
<1>3. got \in Downloads
  BY DEF TypeOK, Downloads
<1> HIDE DEF n
<1>4. \A b \in Book : got[b] # l.asking.release
  BY <1>2, <1>3, OpenIsApart DEF Fits
<1>5. Improves(n, got) /\ Known(n, authors, rows)
  BY <1>1 DEF Fits, Improves, Known
<1>6. QueueApart(n, got)
  BY <1>1, <1>4 DEF Fits, QueueApart
<1>7. QED
  BY <1>5, <1>6 DEF Fits, n

LEMMA BegunFits ==
  ASSUME TypeOK, NEW l \in Locals, l.queue = {},
         \A d \in Reports(l) : d \in Report /\ ~Rejected(d.release)
  PROVE  Fits(l, got, authors, rows)
<1>1. QueueApart(l, got)
  BY DEF QueueApart, Releases
<1>2. Known(l, authors, rows)
  BY DEF Known, Rejected
<1>3. ASSUME NEW d \in Reports(l), NEW b \in Books[d.release], got[b] # None
      PROVE  Quality[got[b]] < Quality[d.release]
  <2>1. d.release \in Release /\ ~Held(d.release)
    BY DEF Report, Rejected
  <2>2. b \in Book /\ got[b] \in Release
    BY <1>3, <2>1 DEF TypeOK
  <2>3. ~(Quality[got[b]] >= Quality[d.release])
    BY <1>3, <2>1 DEF Held
  <2>4. Quality[got[b]] \in Nat /\ Quality[d.release] \in Nat
    BY <2>1, <2>2
  <2>5. QED
    BY <2>3, <2>4
<1>4. Improves(l, got)
  BY <1>3 DEF Improves
<1>5. QED
  BY <1>1, <1>2, <1>4 DEF Fits

-----------------------------------------------------------------------------
\* What the other actions do to the table, the downloads and the library.
Shrinks ==
  /\ pass' = pass \/ \A p \in Pass : pass'[p] = None
  /\ \A r \in Release : rows'[r] # {} => rows[r] # {}
  /\ \A b \in Book : got'[b] \in {None, got[b]}
  /\ \A r \in Release : rows'[r] # {} /\ AuthorOf[r] \in authors => AuthorOf[r] \in authors'

LEMMA ShrinksFits ==
  ASSUME SInv, IInv', Shrinks
  PROVE  SInv'
<1>1. Covers(got') /\ Apart(got', rows')
  <2>1. got' \in Downloads
    BY DEF IInv, TypeOK, Downloads
  <2>2. Covers(got')
    BY DEF SInv, Covers, Shrinks
  <2>3. Apart(got', rows')
    BY DEF SInv, Apart, Shrinks
  <2>4. QED
    BY <2>2, <2>3
<1>2. ASSUME NEW p \in Pass, pass'[p] # None PROVE Fits(pass'[p], got', authors', rows')
  <2>1. pass'[p] = pass[p] /\ pass[p] # None
    BY <1>2 DEF Shrinks
  <2>2. PICK l : l = pass[p]
    OBVIOUS
  <2>3. Fits(l, got, authors, rows) /\ l \in Locals
    BY <2>1, <2>2 DEF SInv, IInv, TypeOK
  <2>4. Improves(l, got')
    <3>1. \A d \in Reports(l) : d.release \in Release
      BY <2>3 DEF Reports, Locals, Report
    <3>2. QED
      BY <2>3, <3>1 DEF Fits, Improves, Shrinks
  <2>5. QueueApart(l, got')
    <3>1. None \notin Releases(l.queue)
      BY <2>3 DEF Releases, Locals, Aside
    <3>2. QED
      BY <2>3, <3>1 DEF Fits, QueueApart, Shrinks
  <2>6. Known(l, authors', rows')
    BY <2>3 DEF Fits, Known, Shrinks
  <2>7. QED
    BY <2>1, <2>2, <2>4, <2>5, <2>6 DEF Fits
<1>3. QED
  BY <1>1, <1>2 DEF SInv

LEMMA StartFits ==
  ASSUME OnePass, SInv, IInv', NEW p \in Pass, NEW found \in SUBSET Release,
         NEW patient \in BOOLEAN, Start(p, found, patient)
  PROVE  SInv'
<1> DEFINE l == Begun(found, patient)
<1>1. TypeOK /\ Covers(got) /\ Apart(got, rows) /\ rows \in Table /\ got \in Downloads
  BY DEF SInv, IInv, TypeOK, Table, Downloads
<1>2. /\ l \in Locals /\ Ordered(l)
      /\ \A d \in Reports(l) : d \in Report /\ ~Rejected(d.release)
  BY BegunFacts
<1>3. l.queue = {} /\ Run(p, l, rows)
  BY DEF Begun, Start
<1> HIDE DEF l
<1>4. Fits(l, got, authors, rows)
  BY <1>1, <1>2, <1>3, BegunFits
<1>5. Apart(got, rows') /\ (pass'[p] # None => Fits(pass'[p], got, authors, rows'))
  BY <1>1, <1>2, <1>3, <1>4, RunFits
<1>6. got' = got /\ authors' = authors
  BY DEF Start
<1>7. \A q \in Pass : q = p
  BY DEF OnePass
<1>8. QED
  BY <1>1, <1>5, <1>6, <1>7 DEF SInv

LEMMA ResolveFits ==
  ASSUME OnePass, SInv, IInv', NEW p \in Pass, NEW result \in Result, Resolve(p, result)
  PROVE  SInv'
<1> DEFINE l == pass[p]
           n == Answered(l, result)
<1>1. TypeOK /\ Covers(got) /\ Apart(got, rows) /\ rows \in Table /\ got \in Downloads /\ IInv
  BY DEF SInv, IInv, TypeOK, Table, Downloads
<1>2. /\ l # None /\ l \in Locals /\ l.asking # None /\ Ordered(l) /\ AskingOpen(l)
      /\ n \in Locals /\ Ordered(n) /\ l.asking.release \in Release
  BY <1>1, ResolveFacts
<1>3. Fits(l, got, authors, rows)
  BY <1>2 DEF SInv
<1>4. PICK rs : /\ rs = IF result = "Grabbed" THEN RemoveGrabbed(l.asking.release) ELSE rows
                /\ rs \in [Release -> SUBSET Row] /\ Run(p, n, rs)
  BY <1>1, ResolveFacts
<1>5. authors' = authors
  BY DEF Resolve
<1>6. got' \in Downloads
  BY DEF IInv, TypeOK, Downloads
<1>7. Covers(got') /\ Apart(got', rs) /\ Fits(n, got', authors, rs)
  <2>1. CASE result = "Grabbed"
    <3>1. \A b \in Book : got'[b] = IF b \in Books[l.asking.release]
                                    THEN l.asking.release ELSE got[b]
      BY <2>1 DEF Resolve
    <3>2. rs = RemoveGrabbed(l.asking.release) /\ n = Answered(l, "Grabbed")
      BY <1>4, <2>1
    <3> HIDE DEF l, n
    <3>3. /\ Covers(got') /\ Apart(got', RemoveGrabbed(l.asking.release))
          /\ Fits(Answered(l, "Grabbed"), got', authors, RemoveGrabbed(l.asking.release))
      BY <1>1, <1>2, <1>3, <1>6, <3>1, GrabFits
    <3>4. QED
      BY <3>2, <3>3
  <2>2. CASE result # "Grabbed"
    <3>1. got' = got /\ rs = rows
      BY <1>4, <2>2 DEF Resolve
    <3> HIDE DEF l
    <3>2. Fits(n, got, authors, rows)
      BY <1>1, <1>2, <1>3, <2>2, OtherAnswersFit
    <3>3. QED
      BY <1>1, <3>1, <3>2
  <2>3. QED
    BY <2>1, <2>2
<1> HIDE DEF l, n
<1>8. rs \in Table
  BY <1>4 DEF Table
<1>9. Apart(got', rows') /\ (pass'[p] # None => Fits(pass'[p], got', authors, rows'))
  BY <1>1, <1>2, <1>4, <1>6, <1>7, <1>8, RunFits
<1>10. \A q \in Pass : q = p
  BY DEF OnePass
<1>11. QED
  BY <1>5, <1>7, <1>9, <1>10 DEF SInv

LEMMA SInvStep ==
  ASSUME OnePass, SInv, [Next]_vars
  PROVE  SInv'
<1>1. IInv /\ IInv'
  BY IInvStep DEF SInv
<1>2. TypeOK
  BY <1>1 DEF IInv
<1>3. ASSUME NEW p \in Rss, Sync(p) PROVE SInv'
  BY <1>1, <1>3, StartFits DEF Sync, Pass
<1>4. ASSUME NEW p \in Search, Find(p) PROVE SInv'
  BY <1>1, <1>4, StartFits DEF Find, Pass
<1>5. ASSUME NEW p \in Pass, NEW x \in Result, Resolve(p, x) PROVE SInv'
  BY <1>1, <1>5, ResolveFits
<1>6. ASSUME NEW b \in Book, DownloadFails(b) PROVE Shrinks
  BY <1>2, <1>6 DEF DownloadFails, Shrinks, TypeOK
<1>7. ASSUME NEW r \in Release, DelayOver(r) PROVE Shrinks
  BY <1>7 DEF DelayOver, Shrinks
<1>8. ASSUME NEW r \in Release, RemoveFromQueue(r) PROVE Shrinks
  <2>1. \A s \in Release : rows'[s] # {} => rows[s] # {}
    BY <1>2, <1>8, WithoutFacts DEF RemoveFromQueue, TypeOK
  <2>2. QED
    BY <1>8, <2>1 DEF RemoveFromQueue, Shrinks
<1>9. ASSUME NEW a \in Author, DeleteAuthor(a) PROVE Shrinks
  <2>1. \A s \in Release : rows'[s] = IF AuthorOf[s] = a THEN {} ELSE rows[s]
    BY <1>9 DEF DeleteAuthor, Without
  <2>2. QED
    BY <1>9, <2>1 DEF DeleteAuthor, Shrinks
<1>10. ASSUME NEW old \in SUBSET Release, Housekeep(old) PROVE Shrinks
  <2>1. \A s \in Release : rows'[s] # {} => rows[s] # {}
    <3>1. ASSUME NEW s \in Release
          PROVE  rows'[s] = IF AuthorOf[s] \notin authors THEN {}
                            ELSE IF s \in old THEN {x \in rows[s] : x.reason = "Delay"}
                            ELSE rows[s]
      BY <1>10 DEF Housekeep
    <3>2. QED
      BY <3>1
  <2>2. QED
    BY <1>10, <2>1 DEF Housekeep, Shrinks
<1>11. ASSUME Restart PROVE Shrinks
  BY <1>11 DEF Restart, Shrinks
<1>12. ASSUME Repaired PROVE Shrinks
  BY <1>12 DEF Repaired, Shrinks
<1>13. ASSUME UNCHANGED vars PROVE Shrinks
  BY <1>13 DEF vars, Shrinks
<1>14. ASSUME Shrinks PROVE SInv'
  BY <1>1, <1>14, ShrinksFits
<1>15. QED
  BY <1>3, <1>4, <1>5, <1>6, <1>7, <1>8, <1>9, <1>10, <1>11, <1>12, <1>13, <1>14 DEF Next

LEMMA SInvAlways ==
  ASSUME OnePass
  PROVE  Spec => []SInv
<1>1. Init => SInv
  <2>1. Init => IInv
    BY DEF Init, IInv, TypeOK, PassesInOrder
  <2>2. Init => Covers(got) /\ Apart(got, rows) /\ \A p \in Pass : pass[p] = None
    BY DEF Init, Covers, Apart
  <2>3. QED
    BY <2>1, <2>2 DEF SInv
<1>2. SInv /\ [Next]_vars => SInv'
  BY SInvStep
<1>3. QED
  BY <1>1, <1>2, PTL DEF Spec

\* With one pass at a time, a release that is being downloaded has no rows: the
\* grab removes them, also when the author was deleted meanwhile, and the pass
\* does not put the release back at its end.
THEOREM GrabbedLeavesTheTable ==
  ASSUME OnePass
  PROVE  Spec => []GrabbedNotPending
<1>1. SInv => GrabbedNotPending
  BY DEF SInv, Apart, GrabbedNotPending, Pending
<1>2. QED
  BY <1>1, SInvAlways, PTL

\* With one pass at a time, a download in progress is replaced only by a
\* release of better quality, though downloads fail and are grabbed between
\* the decision and the grab.
THEOREM OnlyUpgradesAreGrabbed ==
  ASSUME OnePass
  PROVE  Spec => OnlyUpgrades
<1> DEFINE Better == \A b \in Book : got[b] # None /\ got'[b] \notin {None, got[b]}
                       => Quality[got'[b]] > Quality[got[b]]
<1>1. ASSUME SInv, [Next]_vars PROVE [Better]_vars
  <2>1. SUFFICES ASSUME NEW b \in Book, got[b] # None, got'[b] \notin {None, got[b]}
                 PROVE  Quality[got'[b]] > Quality[got[b]]
    BY Zenon DEF Better
  <2>2. TypeOK /\ IInv
    BY <1>1 DEF SInv, IInv
  <2>3. ASSUME NEW p \in Pass, NEW result \in Result, Resolve(p, result)
        PROVE  Quality[got'[b]] > Quality[got[b]]
    <3>1. /\ pass[p] # None /\ pass[p] \in Locals /\ pass[p].asking # None
          /\ AskingOpen(pass[p]) /\ pass[p].asking.release \in Release
      BY <2>2, <2>3, ResolveFacts
    <3>2. Improves(pass[p], got) /\ pass[p].asking \in Reports(pass[p])
      BY <1>1, <3>1 DEF SInv, Fits, Reports
    <3>3. b \in Books[pass[p].asking.release] /\ got'[b] = pass[p].asking.release
      BY <2>1, <2>3 DEF Resolve
    <3>4. Quality[got[b]] < Quality[pass[p].asking.release]
      BY <2>1, <3>1, <3>2, <3>3 DEF Improves, AskingOpen
    <3>5. Quality[got[b]] \in Nat /\ Quality[pass[p].asking.release] \in Nat
      BY <2>1, <2>2, <3>1 DEF TypeOK
    <3>6. QED
      BY <3>3, <3>4, <3>5
  <2>4. \/ \E p \in Pass, x \in Result : Resolve(p, x)
        \/ \A c \in Book : got'[c] \in {None, got[c]}
    BY <1>1, <2>2 DEF Next, Sync, Find, Start, DownloadFails, DelayOver, RemoveFromQueue,
                      DeleteAuthor, Housekeep, Restart, Repaired, vars, TypeOK
  <2>5. QED
    BY <2>1, <2>3, <2>4
<1>2. QED
  BY <1>1, SInvAlways, PTL DEF Spec, OnlyUpgrades
=============================================================================
