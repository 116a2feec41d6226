------------------------------ MODULE Upgrades ------------------------------
(***************************************************************************)
(* One book, the releases that are announced of it, and the decision       *)
(* engine's idea of an upgrade: UpgradableSpecification compares two       *)
(* qualities under a quality profile, and the specifications that read the *)
(* library, the queue and the history (Cutoff, UpgradeDisk,                *)
(* UpgradeAllowed, Queue, Proper, Repack, History, AlreadyImported) ask it *)
(* whether a release is worth a download.  What a finished download really *)
(* holds is only known at its import, which has an UpgradeSpecification of *)
(* its own.                                                                *)
(*                                                                         *)
(* The queue is up to date here; what happens while it lags behind, and    *)
(* between the releases of one pass, is the subject of PendingReleases.    *)
(***************************************************************************)
EXTENDS Integers, Sequences

CONSTANTS
  Release, Quality,
  Groups,     \* the groups that a release or a file may name, and NoGroup
  NoGroup,
  Items,      \* profile.items, worst first: the qualities of each item
  Allowed,    \* the positions of the items that are allowed
  Cutoff,     \* profile.cutoff: a quality, or a group, here by its position in Items
  MinFormatScore, CutoffFormatScore,
  Claim,      \* [Release -> Grade]: what a release's title says
  Content,    \* [Release -> Grade]: what its import finds
  Repack,     \* releases that call themselves a repack
  GroupOf,    \* [Release -> Groups]: parsedBookInfo.releaseGroup
  Cdh,        \* enableCompletedDownloadHandling
  MaxActs,    \* bound on what the user does
  Nothing

\* A QualityModel with the score of its custom formats; a revision stands for
\* its place in the order of Revision.compareTo.
Grade == [quality : Quality, revision : Nat, score : Int]

ASSUME UpgradesAssumption ==
  /\ Items \in Seq((SUBSET Quality) \ {{}})
  /\ \A i, j \in DOMAIN Items : i # j => Items[i] \cap Items[j] = {}
  /\ Allowed \subseteq DOMAIN Items /\ Allowed # {}
  /\ Cutoff \in Quality \cup DOMAIN Items
  /\ MinFormatScore \in Int /\ CutoffFormatScore \in Int
  /\ Claim \in [Release -> Grade] /\ Content \in [Release -> Grade]
  /\ Repack \subseteq Release /\ NoGroup \in Groups /\ GroupOf \in [Release -> Groups]
  /\ Cdh \in BOOLEAN /\ MaxActs \in Nat
  /\ Nothing \notin Release

Propers == {"PreferAndUpgrade", "DoNotUpgrade", "DoNotPrefer"}

VARIABLES
  upgrades,   \* profile.upgradeAllowed, chosen once
  propers,    \* downloadPropersAndRepacks, chosen once
  file,       \* the book's file: the release it came with, or Nothing
  old,        \* the file was added more than a week ago
  queue,      \* the downloads of the book: records [release, state]
  grabbed,    \* the last grab of its history: the release, or Nothing
  asImported, \* what the import of that download found, or Nothing
  recent,     \* the most recent event of the history, when it is a grab
  banned,     \* releases on the blocklist
  acts        \* number of acts of the user so far, bounded by MaxActs

vars == <<upgrades, propers, file, old, queue, grabbed, asImported, recent, banned, acts>>
settings == <<upgrades, propers>>

-----------------------------------------------------------------------------
(* The order of a profile.                                                 *)

\* getIndex: the qualities of a group share the group's place, and a quality
\* the profile does not have gets the first.
Index == [q \in Quality |-> IF \E i \in DOMAIN Items : q \in Items[i]
                              THEN CHOOSE i \in DOMAIN Items : q \in Items[i]
                              ELSE 1]

\* isQualityUpgradable: the quality decides, then the revision.  When the user
\* does not prefer propers, a newer revision makes the two equal, whatever their
\* qualities are, while an older one of the same quality stays a downgrade.
Better(cur, new) == \/ Index[new.quality] > Index[cur.quality]
                    \/ Index[new.quality] = Index[cur.quality] /\ new.revision > cur.revision
Ignored(p, cur, new) == p = "DoNotPrefer" /\ new.revision > cur.revision

QualityUpgrade(p, cur, new) == Better(cur, new) /\ ~Ignored(p, cur, new)
QualityEqual(p, cur, new) == ~Better(new, cur) /\ ~QualityUpgrade(p, cur, new)

\* Mutant: a format score as high as the one there is counts as higher.
UpgradableIfAsGood(p, cur, new) ==
  \/ QualityUpgrade(p, cur, new)
  \/ QualityEqual(p, cur, new) /\ new.score >= cur.score

IsUpgradable(p, cur, new) ==
  \/ QualityUpgrade(p, cur, new)
  \/ QualityEqual(p, cur, new) /\ new.score > cur.score

IsRevisionUpgrade(cur, new) == new.quality = cur.quality /\ new.revision > cur.revision

FirstAllowed == LET i == CHOOSE i \in Allowed : \A j \in Allowed : i <= j
                IN CHOOSE q \in Quality : q \in Items[i]
CutoffQuality == IF upgrades THEN Cutoff ELSE FirstAllowed

\* The place of the cutoff, as getIndex has it for a quality and for a group.
CutoffPlace == IF CutoffQuality \in Quality THEN Index[CutoffQuality] ELSE CutoffQuality

\* qualityFromId throws for the id of a group, and evaluateSpec turns what a
\* specification throws into a rejection.
CutoffIsKnown == CutoffQuality \in Quality

CutoffNotMet(cur, new) ==
  \/ Index[cur.quality] < CutoffPlace
  \/ IsRevisionUpgrade(cur, new)
  \/ cur.score < CutoffFormatScore

\* Mutant: only a higher score counts as an upgrade that is not allowed.
IsUpgradeAllowedByScore(cur, new) == upgrades \/ ~(new.score > cur.score)

IsUpgradeAllowed(cur, new) ==
  upgrades \/ ~(QualityUpgrade(propers, cur, new) \/ new.score > cur.score)

-----------------------------------------------------------------------------
(* What the specifications say of a release; the grades of the queue are   *)
(* claims, that of the file is what it turned out to be.                   *)

FileGrade == Content[file]

\* CutoffSpecification, UpgradeDiskSpecification, UpgradeAllowedSpecification.
LibraryAccepts(r) ==
  file # Nothing => /\ CutoffIsKnown /\ CutoffNotMet(FileGrade, Claim[r])
                    /\ IsUpgradable(propers, FileGrade, Claim[r])
                    /\ IsUpgradeAllowed(FileGrade, Claim[r])

\* QueueSpecification passes over downloads that have failed.
Matching == {d \in queue : d.state # "failing"}

Outranks(d, r) == /\ CutoffIsKnown /\ CutoffNotMet(Claim[d.release], Claim[r])
                  /\ IsUpgradable(propers, Claim[d.release], Claim[r])
                  /\ IsUpgradeAllowed(Claim[d.release], Claim[r])
                  /\ ~(propers = "DoNotUpgrade" /\ IsRevisionUpgrade(Claim[d.release], Claim[r]))

\* Mutant: the first download that the release outranks settles it.
QueueAcceptsOne(r) == Matching # {} => \E d \in Matching : Outranks(d, r)

QueueAccepts(r) == \A d \in Matching : Outranks(d, r)

\* ProperSpecification, for the RSS sync only, and RepackSpecification.
ProperAccepts(r) ==
  file # Nothing /\ propers # "DoNotPrefer" /\ IsRevisionUpgrade(FileGrade, Claim[r])
    => propers # "DoNotUpgrade" /\ ~old
RepackAccepts(r) ==
  file # Nothing /\ propers # "DoNotPrefer" /\ r \in Repack /\ IsRevisionUpgrade(FileGrade, Claim[r])
    => propers # "DoNotUpgrade" /\ GroupOf[file] # NoGroup /\ GroupOf[r] = GroupOf[file]

\* Mutant: a grab stays recent for ever.
HistoryAcceptsNever(r) ==
  recent.grab => /\ CutoffIsKnown /\ CutoffNotMet(Claim[grabbed], Claim[r])
                 /\ IsUpgradable(propers, Claim[grabbed], Claim[r])

\* HistorySpecification, for the RSS sync only: the last event is a grab of the
\* last twelve hours, or of any time when completed downloads are not handled.
HistoryAccepts(r) ==
  recent.grab /\ (recent.twelveHours \/ ~Cdh)
    => /\ CutoffIsKnown /\ CutoffNotMet(Claim[grabbed], Claim[r])
       /\ IsUpgradable(propers, Claim[grabbed], Claim[r])

\* AlreadyImportedSpecification: the release grabbed last was imported as
\* something else, and this is it again.
SameQuality(g, h) == g.quality = h.quality /\ g.revision = h.revision
AlreadyImported(r) ==
  /\ Cdh /\ file # Nothing /\ grabbed # Nothing /\ asImported # Nothing
  /\ ~SameQuality(Claim[grabbed], Content[asImported]) /\ r = grabbed

\* QualityAllowedByProfile, CustomFormatAllowedByProfile, Blocklist.
Wanted(r) == /\ Index[Claim[r].quality] \in Allowed
             /\ Claim[r].score >= MinFormatScore
             /\ r \notin banned

Accepted(r, rss) ==
  /\ Wanted(r) /\ LibraryAccepts(r) /\ QueueAccepts(r) /\ RepackAccepts(r)
  /\ ~AlreadyImported(r)
  /\ rss => ProperAccepts(r) /\ HistoryAccepts(r)

-----------------------------------------------------------------------------
Init ==
  /\ upgrades \in BOOLEAN /\ propers \in Propers
  /\ file = Nothing /\ old = FALSE
  /\ queue = {}
  /\ grabbed = Nothing /\ asImported = Nothing
  /\ recent = [grab |-> FALSE, twelveHours |-> FALSE]
  /\ banned = {} /\ acts = 0

NoGrabRecent == recent' = [grab |-> FALSE, twelveHours |-> FALSE]

\* A release of the feed (an RSS sync) or of a search is accepted and downloaded.
Grab(r, rss) ==
  /\ Accepted(r, rss)
  /\ queue' = queue \cup {[release |-> r, state |-> "downloading"]}
  /\ grabbed' = r /\ asImported' = Nothing
  /\ recent' = [grab |-> TRUE, twelveHours |-> TRUE]
  /\ UNCHANGED <<settings, file, old, banned, acts>>

Moves(d, state) == queue' = (queue \ {d}) \cup {[d EXCEPT !.state = state]}

\* FailedDownloadService: first seen, then handled, with the release blocklisted.
DownloadFails(d) ==
  /\ d.state = "downloading" /\ Moves(d, "failing")
  /\ UNCHANGED <<settings, file, old, grabbed, asImported, recent, banned, acts>>

ProcessFailed(d) ==
  /\ d.state = "failing"
  /\ queue' = queue \ {d} /\ banned' = banned \cup {d.release}
  /\ NoGrabRecent
  /\ UNCHANGED <<settings, file, old, grabbed, asImported, acts>>

\* The UpgradeSpecification of the import: formats do not count here.
ImportAccepts(r) ==
  file # Nothing =>
    /\ Index[Content[r].quality] >= Index[FileGrade.quality]
    /\ propers # "DoNotPrefer" /\ Index[Content[r].quality] = Index[FileGrade.quality]
         => Content[r].revision >= FileGrade.revision

\* CompletedDownloadService: the file replaces the one there was ...
Import(d) ==
  /\ Cdh /\ d.state = "downloading" /\ ImportAccepts(d.release)
  /\ queue' = queue \ {d}
  /\ file' = d.release /\ old' = FALSE
  /\ asImported' = IF grabbed = d.release THEN d.release ELSE asImported
  /\ NoGrabRecent
  /\ UNCHANGED <<settings, grabbed, banned, acts>>

\* ... or the download waits for the user, who finds it in the queue.
ImportRejected(d) ==
  /\ Cdh /\ d.state = "downloading" /\ ~ImportAccepts(d.release)
  /\ Moves(d, "import failed")
  /\ NoGrabRecent
  /\ UNCHANGED <<settings, file, old, grabbed, asImported, banned, acts>>

HalfADayPasses ==
  /\ recent.twelveHours /\ recent' = [recent EXCEPT !.twelveHours = FALSE]
  /\ UNCHANGED <<settings, file, old, queue, grabbed, asImported, banned, acts>>

AWeekPasses ==
  /\ file # Nothing /\ ~old /\ old' = TRUE
  /\ UNCHANGED <<settings, file, queue, grabbed, asImported, recent, banned, acts>>

Act == acts < MaxActs /\ acts' = acts + 1

\* The user takes a download out of the queue, or deletes the file.
UserRemoves(d) ==
  /\ Act /\ queue' = queue \ {d}
  /\ UNCHANGED <<settings, file, old, grabbed, asImported, recent, banned>>

UserDeletesFile ==
  /\ Act /\ file # Nothing /\ file' = Nothing /\ old' = FALSE /\ NoGrabRecent
  /\ UNCHANGED <<settings, queue, grabbed, asImported, banned>>

Next ==
  \/ \E r \in Release, rss \in BOOLEAN : Grab(r, rss)
  \/ \E d \in queue : \/ DownloadFails(d) \/ ProcessFailed(d)
                      \/ Import(d) \/ ImportRejected(d) \/ UserRemoves(d)
  \/ HalfADayPasses \/ AWeekPasses \/ UserDeletesFile

\* The RSS sync and the processing of downloads are scheduled commands; what is
\* announced stays announced, downloads end, and time goes on.
Fairness ==
  /\ WF_vars(\E r \in Release : Grab(r, TRUE))
  /\ \A r \in Release :
       /\ WF_vars(\E d \in queue : d.release = r /\ ProcessFailed(d))
       /\ WF_vars(\E d \in queue : d.release = r /\ (Import(d) \/ ImportRejected(d)))
  /\ WF_vars(HalfADayPasses)

Spec == Init /\ [][Next]_vars /\ Fairness

-----------------------------------------------------------------------------
(* What must hold.                                                         *)

Downloads == [release : Release, state : {"downloading", "failing", "import failed"}]

TypeOK ==
  /\ upgrades \in BOOLEAN /\ propers \in Propers
  /\ file \in Release \cup {Nothing} /\ old \in BOOLEAN
  /\ queue \subseteq Downloads
  /\ {grabbed, asImported} \subseteq Release \cup {Nothing}
  /\ recent \in [grab : BOOLEAN, twelveHours : BOOLEAN]
  /\ recent.grab => grabbed # Nothing
  /\ banned \subseteq Release /\ acts \in 0 .. MaxActs

\* Of two downloads of the book that have not failed, one is an upgrade of the
\* other: no two are ever under way where neither was worth it, nor one twice.
QueueAscends ==
  \A d, e \in Matching : d # e =>
    \/ IsUpgradable(propers, Claim[d.release], Claim[e.release])
    \/ IsUpgradable(propers, Claim[e.release], Claim[d.release])

\* A profile that does not allow upgrades has one download under way at most.
OneIsEnough == ~upgrades => \A d, e \in Matching : d = e

\* The library comes to rest: releases are not grabbed for ever, in circles of
\* upgrades, whatever fails, is rejected or is overtaken by another download.
Settles == <>[][\A d \in queue' : d.state = "downloading" => d \in queue]_vars

\* A profile that allows upgrades gets what it wants: in the end no release is
\* announced that the book lacks or that is an upgrade below the cutoff, unless
\* a download waits for the user.
Missed(r) == /\ Wanted(r)
             /\ \/ file = Nothing
                \/ /\ Index[FileGrade.quality] < CutoffPlace
                   /\ Index[Claim[r].quality] > Index[FileGrade.quality]
                   /\ IsUpgradable(propers, FileGrade, Claim[r])

ReachesCutoff ==
  upgrades => <>[]((\E r \in Release : Missed(r)) => \E d \in queue : d.state = "import failed")
=============================================================================
