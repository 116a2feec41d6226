--------------------------- MODULE PendingReleases ---------------------------
(***************************************************************************)
(* ProcessDownloadDecisions and PendingReleaseService: passes over the     *)
(* releases that were found (an RSS sync, a search, a push) grab some,     *)
(* wait for the download client between them, and leave others in the      *)
(* table of pending releases, to which the passes, the user, deleted       *)
(* authors and the housekeeping all write.                                 *)
(***************************************************************************)
EXTENDS Integers

CONSTANTS
  Release, Book, Author,
  Rank,      \* the place of a release in prioritizeDecisions, the preferred first
  Books,     \* RemoteBook.books
  AuthorOf,  \* RemoteBook.author
  Quality,   \* the order QualityModelComparer puts on releases
  Protocol,  \* ReleaseInfo.downloadProtocol
  Twice,     \* releases a batch lists two times
  Rss,       \* passes of the RSS sync
  Search,    \* passes of searches and pushes
  None

ASSUME ReleaseAssumption ==
  /\ Rank \in [Release -> Nat] /\ \A r, s \in Release : Rank[r] = Rank[s] => r = s
  /\ Books \in [Release -> SUBSET Book] /\ \A r \in Release : Books[r] # {}
  /\ AuthorOf \in [Release -> Author]
  /\ Quality \in [Release -> Nat \ {0}]
  /\ DOMAIN Protocol = Release
  /\ Twice \subseteq Release
ASSUME PassAssumption == Rss \cap Search = {}

Pass == Rss \cup Search

VARIABLES
  rows,     \* PendingReleases: the rows of each release
  pass,     \* the local variables of processDecisions, None when not running
  got,      \* per book the release being downloaded or imported, or None
  delayed,  \* releases younger than the delay of their profile
  banned,   \* releases on the blocklist
  authors,  \* authors in the library
  faulty    \* download clients fail and indexers are blocked now and then

vars == <<rows, pass, got, delayed, banned, authors, faulty>>

Reason == {"Delay", "DownloadClientUnavailable", "Fallback"}
Result == {"Grabbed", "Rejected", "Failed", "Skipped"}

\* A release that is listed two times has two reports, put aside and stored
\* one after the other.
Copy   == 1..2
Report == [release : Release, copy : Copy, temporary : BOOLEAN]
Aside  == [release : Release, copy : Copy, reason : Reason]
Row    == [copy : Copy, reason : Reason]

Locals == [todo : SUBSET Report, asking : Report \cup {None},
           grabbed : SUBSET Release, queue : SUBSET Aside, rejected : SUBSET Release,
           failed : SUBSET {Protocol[r] : r \in Release}]

ASSUME NoneAssumption == None \notin Release /\ None \notin Report /\ None \notin Locals

TypeOK ==
  /\ rows    \in [Release -> SUBSET Row]
  /\ pass    \in [Pass -> Locals \cup {None}]
  /\ got     \in [Book -> Release \cup {None}]
  /\ delayed \subseteq Release
  /\ banned  \subseteq Release
  /\ authors \subseteq Author
  /\ faulty  \in BOOLEAN
  /\ \A p \in Pass : pass[p] # None => pass[p].asking # None

Init ==
  /\ rows    = [r \in Release |-> {}]
  /\ pass    = [p \in Pass |-> None]
  /\ got     = [b \in Book |-> None]
  /\ delayed \in SUBSET Release
  /\ banned  = {}
  /\ authors = Author
  /\ faulty  = TRUE

-----------------------------------------------------------------------------
\* What DownloadDecisionMaker says of a release: rejected for good, for now,
\* or approved.
Overlap(r, s) == Books[r] \cap Books[s] # {}

Held(r) == \E b \in Books[r] : got[b] # None /\ Quality[got[b]] >= Quality[r]

Rejected(r) == AuthorOf[r] \notin authors \/ r \in banned \/ Held(r)

Pending == {r \in Release : rows[r] # {}}

\* includeRemoteBooks: when it finds no author for one of the rows it returns
\* null, and its callers go on with no rows at all.
Legible(rs) == IF \A r \in rs : AuthorOf[r] \in authors THEN rs ELSE {}

\* DelaySpecification: too young, and no older pending release of its books.
Waits(r) ==
  /\ r \in delayed
  /\ \A s \in Legible({s \in Pending : AuthorOf[s] = AuthorOf[r]}) :
       Overlap(r, s) => s \in delayed

\* The qualified reports among the releases found. A search of the user
\* passes over the delay.
Batch(found, patient) ==
  {d \in Report : /\ d.release \in found /\ ~Rejected(d.release)
                  /\ d.copy = 1 \/ d.release \in Twice
                  /\ d.temporary = (patient /\ Waits(d.release))}

\* prioritizeDecisions: the report d comes before e.
Before(d, e) == \/ Rank[d.release] < Rank[e.release]
                \/ d.release = e.release /\ d.copy < e.copy

-----------------------------------------------------------------------------
\* Mutant of Processed: only a release with all the books counts.
ProcessedWhole(rs, r) == \E s \in rs : Books[r] \subseteq Books[s]

\* isBookProcessed.
Processed(rs, r) == \E s \in rs : Overlap(r, s)

Releases(reports) == {d.release : d \in reports}

\* preparePending, for reports put aside one after the other.
Prepared(l, reports) ==
  {[release |-> d.release, copy |-> d.copy,
    reason  |-> LET earlier == Releases(l.queue) \cup Releases({e \in reports : Before(e, d)})
                IN  IF Processed(l.grabbed \cup earlier, d.release) THEN "Fallback"
                    ELSE IF d.temporary THEN "Delay"
                    ELSE "DownloadClientUnavailable"] : d \in reports}

PutAside(l, reports) == [l EXCEPT !.queue = @ \cup Prepared(l, reports)]

\* The reports the loop still looks at: no book of theirs was grabbed.
Open(l) == {d \in l.todo : ~Processed(l.grabbed, d.release)}

\* The loop asks for a report that is not rejected for now, and whose protocol
\* has not failed.
Asks(l, d) == ~d.temporary /\ Protocol[d.release] \notin l.failed

NextToAsk(l) == {d \in Open(l) : Asks(l, d) /\ \A e \in Open(l) : Before(e, d) => ~Asks(l, e)}

\* processDecisions goes on to the report d: those before it are put aside.
AskFor(l, d) ==
  [PutAside(l, {e \in Open(l) : Before(e, d)})
     EXCEPT !.asking = d, !.todo = {e \in Open(l) : Before(d, e)}]

\* What the answer of downloadReport makes of the pass.
Answered(l, result) ==
  CASE result = "Grabbed"  -> [l EXCEPT !.grabbed = @ \cup {l.asking.release}]
    [] result = "Rejected" -> [l EXCEPT !.rejected = @ \cup {l.asking.release}]
    [] result = "Failed"   -> [PutAside(l, {l.asking})
                                 EXCEPT !.failed = @ \cup {Protocol[l.asking.release]}]
    [] result = "Skipped"  -> l

-----------------------------------------------------------------------------
Given(queue, r) == {q \in queue : q.release = r}

\* What insertFromDecision stores.
RowsOf(given) == {[copy |-> q.copy, reason |-> q.reason] : q \in given}

\* Mutant of AddMany: releases are added only to an empty table.
AddManyFirst(rs, queue) ==
  [r \in Release |-> IF \A s \in Release : rs[s] = {} THEN RowsOf(Given(queue, r)) ELSE rs[r]]

First(xs) == {x \in xs : \A y \in xs : x.copy <= y.copy}
Last(xs)  == {x \in xs : \A y \in xs : y.copy <= x.copy}

\* A release that has rows keeps the first of them, whose reason each report
\* in turn replaces until it is DownloadClientUnavailable.
Replaced(old, given) ==
  LET reasons == {x.reason : x \in First(old) \cup given}
  IN  {[copy |-> 1, reason |-> IF "DownloadClientUnavailable" \in reasons
                                 THEN "DownloadClientUnavailable" ELSE q.reason]
         : q \in Last(given)}

\* PendingReleaseService.addMany. A release without rows gets one for every
\* report.
AddMany(rs, queue) ==
  [r \in Release |->
     LET given == Given(queue, r)
     IN  IF given = {} THEN rs[r]
         ELSE IF rs[r] = {} THEN RowsOf(given)
         ELSE Replaced(rs[r], given)]

\* The table without the rows of some releases.
Without(rs, gone) == [r \in Release |-> IF r \in gone THEN {} ELSE rs[r]]

\* Mutant of RemoveGrabbed: only the rows of worse quality are removed.
RemoveWorse(r) ==
  Without(rows, {s \in Legible({s \in Pending : AuthorOf[s] = AuthorOf[r]}) :
                   Overlap(r, s) /\ Quality[r] > Quality[s]})

\* removeGrabbed, for BookGrabbedEvent.
RemoveGrabbed(r) ==
  Without(rows, {s \in Legible({s \in Pending : AuthorOf[s] = AuthorOf[r]}) :
                   Overlap(r, s) /\ Quality[r] >= Quality[s]})

\* Mutant of RemoveRejected: what is rejected stays in the table.
RemoveNothing(rs, rejected) == rs

\* removeRejected, for RssSyncCompleteEvent.
RemoveRejected(rs, rejected) ==
  Without(rs, rejected \cap Legible({r \in Release : rs[r] # {}}))

\* At its end a pass stores its queue, and after an RSS sync the rejected
\* releases are removed.
Stored(p, l, rs) ==
  IF p \in Rss THEN RemoveRejected(AddMany(rs, l.queue), l.rejected) ELSE AddMany(rs, l.queue)

\* A pass runs until it waits for the download client, or to its end.
Run(p, l, rs) ==
  \/ \E d \in NextToAsk(l) : pass' = [pass EXCEPT ![p] = AskFor(l, d)] /\ rows' = rs
  \/ /\ \A d \in Open(l) : ~Asks(l, d)
     /\ pass' = [pass EXCEPT ![p] = None]
     /\ rows' = Stored(p, PutAside(l, Open(l)), rs)

Begun(found, patient) ==
  [todo |-> Batch(found, patient), asking |-> None, grabbed |-> {}, queue |-> {},
   rejected |-> {r \in found : Rejected(r)}, failed |-> {}]

Start(p, found, patient) ==
  /\ pass[p] = None
  /\ \E l \in {Begun(found, patient)} : Run(p, l, rows)
  /\ UNCHANGED <<got, delayed, banned, authors, faulty>>

\* The RSS sync looks at what the indexers list and, by getPending, at what
\* is pending of the indexers that are not blocked.
Sync(p)  == \E found \in SUBSET Release :
              /\ faulty \/ Pending \subseteq found
              /\ Start(p, found, TRUE)

Find(p)  == \E found \in SUBSET Release \ {{}}, patient \in BOOLEAN :
              Start(p, found, patient)

\* downloadReport comes back to a pass; a grab has published its event by then.
Resolve(p, result) ==
  /\ pass[p] # None
  /\ result \in {"Failed", "Skipped"} => faulty
  /\ LET r == pass[p].asking.release IN
       /\ \E l  \in {Answered(pass[p], result)},
             rs \in {IF result = "Grabbed" THEN RemoveGrabbed(r) ELSE rows} : Run(p, l, rs)
       /\ got' = IF result = "Grabbed"
                 THEN [b \in Book |-> IF b \in Books[r] THEN r ELSE got[b]]
                 ELSE got
  /\ UNCHANGED <<delayed, banned, authors, faulty>>

\* A download fails: its release is blocklisted.
DownloadFails(b) ==
  /\ got[b] # None
  /\ banned' = banned \cup {got[b]}
  /\ got'    = [c \in Book |-> IF got[c] = got[b] THEN None ELSE got[c]]
  /\ UNCHANGED <<rows, pass, delayed, authors, faulty>>

DelayOver(r) ==
  /\ r \in delayed
  /\ delayed' = delayed \ {r}
  /\ UNCHANGED <<rows, pass, got, banned, authors, faulty>>

\* getPendingQueue: the best release of each book, without the fallbacks.
Listed ==
  LET shown == Legible({r \in Release : \E x \in rows[r] : x.reason # "Fallback"})
  IN  {r \in shown : \E b \in Books[r] :
         \A s \in shown : b \in Books[s] => Quality[r] >= Quality[s]}

\* The user removes an item of the queue: its release is blocklisted, then
\* removePendingQueueItems looks for it among all rows, which may find that
\* an author is gone and throw, and removes every row of its title.
RemoveFromQueue(r) ==
  /\ r \in Listed
  /\ rows'   = IF Legible(Pending) = {} THEN rows
               ELSE Without(rows, {s \in Release : /\ AuthorOf[s] = AuthorOf[r]
                                                   /\ Books[s] = Books[r]})
  /\ banned' = banned \cup {r}
  /\ UNCHANGED <<pass, got, delayed, authors, faulty>>

\* handleAuthorDeleted.
DeleteAuthor(a) ==
  /\ a \in authors
  /\ authors' = authors \ {a}
  /\ rows'    = Without(rows, {r \in Release : AuthorOf[r] = a})
  /\ UNCHANGED <<pass, got, delayed, banned, faulty>>

\* CleanupOrphanedPendingReleases and, for the rows that are old by then,
\* CleanupDownloadClientUnavailablePendingReleases.
Housekeep(old) ==
  /\ rows' = [r \in Release |->
                IF AuthorOf[r] \notin authors THEN {}
                ELSE IF r \in old THEN {x \in rows[r] : x.reason = "Delay"}
                ELSE rows[r]]
  /\ rows' # rows
  /\ UNCHANGED <<pass, got, delayed, banned, authors, faulty>>

\* The table survives, the passes do not.
Restart ==
  /\ pass' = [p \in Pass |-> None]
  /\ UNCHANGED <<rows, got, delayed, banned, authors, faulty>>

\* From here on every client and indexer answers.
Repaired ==
  /\ faulty
  /\ faulty' = FALSE
  /\ UNCHANGED <<rows, pass, got, delayed, banned, authors>>

Next ==
  \/ \E p \in Rss : Sync(p)
  \/ \E p \in Search : Find(p)
  \/ \E p \in Pass, x \in Result : Resolve(p, x)
  \/ \E b \in Book : DownloadFails(b)
  \/ \E r \in Release : DelayOver(r)
  \/ \E r \in Release : RemoveFromQueue(r)
  \/ \E a \in Author : DeleteAuthor(a)
  \/ \E old \in SUBSET Release : Housekeep(old)
  \/ Restart
  \/ Repaired

Spec == Init /\ [][Next]_vars

\* The RSS sync and the housekeeping are scheduled, releases get older and the
\* download client answers.
FairSpec ==
  /\ Spec
  /\ \A p \in Rss : WF_vars(Sync(p))
  /\ \A p \in Pass : WF_vars(\E x \in Result : Resolve(p, x))
  /\ \A r \in Release : WF_vars(DelayOver(r))
  /\ WF_vars(Housekeep({}))
  /\ WF_vars(Repaired)

-----------------------------------------------------------------------------
\* A release that is being downloaded is not pending any more.
GrabbedNotPending ==
  \A b \in Book : got[b] \notin Pending

\* A download in progress is replaced only by a better one.
OnlyUpgrades ==
  [][\A b \in Book : got[b] # None /\ got'[b] \notin {None, got[b]}
       => Quality[got'[b]] > Quality[got[b]]]_vars

\* What a pass put aside is in the table when it has ended, except what the
\* same pass found rejected: no report is lost to the rows that were there.
PutAsideIsStored ==
  [][\A p \in Pass : pass[p] # None /\ pass'[p] = None /\ ~Restart =>
       Releases(pass[p].queue) \ pass[p].rejected \subseteq Pending']_vars

\* Nothing stays pending for ever once the download clients work and the
\* program stays up: it is grabbed, found rejected, or cleaned up.
NothingPendingForever ==
  <>[][~Restart]_vars => \A r \in Release : []<>(r \notin Pending)
=============================================================================
