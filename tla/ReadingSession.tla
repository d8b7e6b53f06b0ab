---------------------------- MODULE ReadingSession ----------------------------
(***************************************************************************)
(* Reading one EPUB in the browser: the reading order, the table of        *)
(* contents and the links that services/reader.py makes of a package, the  *)
(* page that shows them (reader_page of web/views.py), and the script that *)
(* drives the page (web/static/reader.js).                                 *)
(*                                                                         *)
(* A package is what its documents say once they are parsed: "manifest"    *)
(* gives the archive member of an id, Nowhere if no item has the id or its *)
(* reference leads out of the package; "spine" the ids in reading order;   *)
(* "nav" and "ncx" the members that the entries of the two kinds of table  *)
(* of contents refer to, the nested ones after their parents, <<>> if the  *)
(* document is missing or broken.  Positions count from 1.                 *)
(***************************************************************************)
EXTENDS Integers, Sequences, SequencesExt, Selections

CONSTANTS
  Members,      \* the archive members documents refer to
  Ids,          \* the ids of manifest items
  Packages,     \* the packages a book may be
  Nowhere

ASSUME PackageAssumption ==
  /\ Nowhere \notin Members
  /\ Packages \subseteq [manifest : [Ids -> Members \cup {Nowhere}], spine : Seq(Ids),
                         nav : Seq(Members), ncx : Seq(Members)]

VARIABLES
  package,      \* the book at hand
  reading,      \* whether the page is open
  current,      \* chapterIndex: the chapter the script believes to show
  shown,        \* the chapter in the frame
  saved         \* the href of the stored reading position

sessionVars == <<package, reading, current, shown, saved>>

NoPackage == [manifest |-> [i \in Ids |-> Nowhere], spine |-> <<>>, nav |-> <<>>, ncx |-> <<>>]

\* The members of the spine's items, those that have none left out.
Order(p) ==
  Kept([k \in DOMAIN p.spine |-> p.manifest[p.spine[k]]], Members)

Places(p, m) == {k \in DOMAIN Order(p) : Order(p)[k] = m}

\* Mutant of FirstPlace: positions count the items that are left out.
FirstInSpine(p, m) ==
  CHOOSE k \in DOMAIN p.spine :
    /\ p.manifest[p.spine[k]] = m
    /\ \A j \in 1..(k - 1) : p.manifest[p.spine[j]] # m

\* Where the table of contents and a stored position lead, and where the
\* links between chapters do, should a member be twice in the spine.
FirstPlace(p, m) == CHOOSE k \in Places(p, m) : \A j \in Places(p, m) : k <= j
LastPlace(p, m) == CHOOSE k \in Places(p, m) : \A j \in Places(p, m) : j <= k

\* The navigation document, or else the NCX.
Toc(p) == IF p.nav # <<>> THEN p.nav ELSE p.ncx

SessionTypeOK ==
  /\ package \in Packages \cup {NoPackage}
  /\ reading \in BOOLEAN
  /\ {current, shown} \subseteq 1..(Len(Order(package)) + 1)
  /\ saved \in Members \cup {Nowhere}

SessionInit ==
  /\ package = NoPackage
  /\ reading = FALSE
  /\ current = 1 /\ shown = 1
  /\ saved = Nowhere

\* A reader turns to a book.
TakeUp(p) ==
  /\ package = NoPackage
  /\ package' = p
  /\ UNCHANGED <<reading, current, shown, saved>>

\* Another device has stored a position, in this edition or an earlier one.
OtherDevice(m) ==
  /\ ~reading
  /\ saved' = m
  /\ UNCHANGED <<package, reading, current, shown>>

\* reader_page: the frame opens at the stored position.
OpenPage ==
  LET start == IF Places(package, saved) = {} THEN 1 ELSE FirstPlace(package, saved) IN
  /\ ~reading
  /\ Order(package) # <<>>
  /\ reading' = TRUE
  /\ current' = start /\ shown' = start
  /\ UNCHANGED <<package, saved>>

\* saveProgress names the chapter by the script's index.  The request may be
\* lost, or be refused for a newer position.
MaySave(index) == saved' \in {saved, Order(package)[index]}

\* loadChapter sets index and frame, and saves.
LoadChapter(index) ==
  /\ reading
  /\ index \in DOMAIN Order(package)
  /\ current' = index /\ shown' = index
  /\ MaySave(index)
  /\ UNCHANGED <<package, reading>>

\* A click on an entry of the table of contents that leads to a chapter.
Jump(m) ==
  /\ m \in Range(Toc(package))
  /\ Places(package, m) # {}
  /\ LoadChapter(FirstPlace(package, m))

NextChapter == LoadChapter(current + 1)
PreviousChapter == LoadChapter(current - 1)

\* A link in the chapter's text, rewritten to the chapter it leads to, is
\* followed by the frame on its own: the script does not notice.
FollowLink(m) ==
  /\ reading
  /\ Places(package, m) # {}
  /\ shown' = LastPlace(package, m)
  /\ UNCHANGED <<package, reading, current, saved>>

\* While the reader scrolls, when the page is hidden, or after it opened at
\* a fragment.
Save ==
  /\ reading
  /\ MaySave(current)
  /\ UNCHANGED <<package, reading, current, shown>>

ClosePage ==
  /\ reading
  /\ reading' = FALSE
  /\ MaySave(current)
  /\ UNCHANGED <<package, current, shown>>

SessionNext ==
  \/ \E p \in Packages : TakeUp(p)
  \/ OpenPage \/ NextChapter \/ PreviousChapter \/ Save \/ ClosePage
  \/ \E m \in Members : OtherDevice(m) \/ Jump(m) \/ FollowLink(m)

SessionSpec == SessionInit /\ [][SessionNext]_sessionVars

-----------------------------------------------------------------------------
(* Properties.                                                             *)

ShownMember == Order(package)[shown]
LandsOn(m) == shown' \in DOMAIN Order(package) /\ ShownMember' = m

\* Whatever items the spine names that are no chapters, and however often it
\* names one, a stored position, an entry of the table of contents and a
\* link lead to the very document they refer to.
LinksLand ==
  [][/\ OpenPage /\ saved \in Range(Order(package)) => LandsOn(saved)
     /\ \A m \in Members : Jump(m) \/ FollowLink(m) => LandsOn(m)]_sessionVars

\* The position that is stored is the one of the chapter shown, so that the
\* reader resumes where it was left.
SavedIsShown ==
  [][reading /\ saved' # saved => saved' = ShownMember']_sessionVars
=============================================================================
