----------------------------- MODULE MatchReview -----------------------------
(***************************************************************************)
(* The candidates for one book's metadata: how the provider is searched    *)
(* (metadata/google_books.py), how what it returns is scored against the   *)
(* book (metadata/matching.py), how candidates are stored and the best one *)
(* accepted (metadata/enrichment.py), and how reviewers apply and reject   *)
(* them (services/metadata_review.py and its handlers in                   *)
(* api/admin_metadata.py and web/views.py).  The fields that are applied   *)
(* are MetadataCuration's.                                                 *)
(*                                                                         *)
(* Several lookups of a book may run at a time, in two workers and in      *)
(* `buku enrich`.  From its flush on a session holds the database's write  *)
(* lock, so that it is one step from there to its commit; before, it works *)
(* with rows as it has loaded them.                                        *)
(***************************************************************************)
EXTENDS Naturals, Sequences, SequencesExt

CONSTANTS
  Volumes,      \* what the provider knows, by external id
  VolumeOf,     \* the isbns, the title and the authors of a volume
  Facts,        \* what a book may say of itself: isbn, title and authors
  NoIsbn, NoTitle,
  Resembling,   \* the pairs of titles with four words in five in common
  MaxFound,     \* bound on the candidates of one answer (max_results)
  Lookups,      \* sessions that enrich the book
  Reviewers,    \* sessions that review its candidates
  MaxRows       \* bound on the rows

ASSUME MatchAssumption ==
  /\ MaxFound \in Nat \ {0} /\ MaxRows \in Nat
  /\ Lookups \cap Reviewers = {}

VARIABLES
  matches,      \* metadata_matches of the book, by id
  lookup,       \* the local state of each session that enriches
  review        \* and of each that reviews

matchVars == <<matches, lookup, review>>

MatchStatuses == {"pending", "applied", "rejected"}

\* The score of a row only orders the display, and is left out.
MatchRow == [volume : Volumes, status : MatchStatuses]

\* "todo" are the candidates a lookup has yet to look for among the rows,
\* "fresh" those it found no row of, "marked" the rows that were applied when
\* it loaded them, and "accepted" the candidate it accepts, if any; "raced"
\* says that another lookup has stored rows since.
NoLookup == [at |-> "idle", accepted |-> {}, todo |-> {}, fresh |-> {}, marked |-> {},
             raced |-> FALSE]
NoReview == [row |-> 0, status |-> "pending"]

MatchTypeOK ==
  /\ matches \in Seq(MatchRow) /\ Len(matches) <= MaxRows
  /\ \A s \in Lookups :
       /\ lookup[s].at \in {"idle", "load"}
       /\ lookup[s].todo \cup lookup[s].fresh \cup lookup[s].accepted \subseteq Volumes
       /\ lookup[s].marked \subseteq DOMAIN matches
  /\ \A r \in Reviewers : review[r] \in [row : 0..Len(matches), status : MatchStatuses]

MatchInit ==
  /\ matches = <<>>
  /\ lookup = [s \in Lookups |-> NoLookup]
  /\ review = [r \in Reviewers |-> NoReview]

-----------------------------------------------------------------------------
(* Scoring.                                                                *)

\* The score of a volume of the book's title, where no author is asked for.
TitleOnly == 60

\* Mutant of ScoreOf: a bare title scores as one among authors does.
ScoreLoose(query, v) ==
  LET sameTitle == query.title = VolumeOf[v].title /\ query.title # NoTitle IN
  IF query.isbn # NoIsbn
  THEN IF query.isbn \in VolumeOf[v].isbns THEN 95
       ELSE IF VolumeOf[v].isbns # {} THEN 5
       ELSE IF sameTitle THEN 70 ELSE 20
  ELSE IF sameTitle THEN 85 ELSE 30

\* score_match, in hundredths.
ScoreOf(query, v) ==
  LET volume == VolumeOf[v]
      sameTitle == query.title = volume.title /\ query.title # NoTitle
  IN
  IF query.isbn # NoIsbn
  THEN IF query.isbn \in volume.isbns THEN 95
       ELSE IF volume.isbns # {} THEN 5
       ELSE IF sameTitle THEN 50 ELSE 20
  ELSE IF query.title = NoTitle THEN 0
  ELSE IF query.authors # {}
  THEN IF ~sameTitle THEN 30
       ELSE IF query.authors \cap volume.authors # {} THEN 85 ELSE 70
  ELSE IF sameTitle THEN TitleOnly
  ELSE IF <<query.title, volume.title>> \in Resembling THEN 50 ELSE 25

MinConfidence == 70

\* The first of the best.
Best(query, found) ==
  CHOOSE k \in DOMAIN found :
    \A j \in DOMAIN found :
      \/ ScoreOf(query, found[j]) < ScoreOf(query, found[k])
      \/ ScoreOf(query, found[j]) = ScoreOf(query, found[k]) /\ k <= j

Accepted(query, found) ==
  {v \in Range(found) : v = found[Best(query, found)] /\ ScoreOf(query, v) >= MinConfidence}

-----------------------------------------------------------------------------
(* Enriching.                                                              *)

At(s, point) == lookup[s].at = point
Leave(s) == lookup' = [lookup EXCEPT ![s] = NoLookup]

\* The query strings, from the strictest on; each is asked if those before
\* it failed or found nothing.
Tiers(query) ==
  {t \in {"isbn", "isbn+title", "title+author", "title"} :
     /\ t \in {"isbn", "isbn+title"} => query.isbn # NoIsbn
     /\ t # "isbn" => query.title # NoTitle
     /\ t = "title+author" => query.authors # {}}

\* What the provider may answer: some volumes, each once.
Answers == {found \in UNION {[1..n -> Volumes] : n \in 1..MaxFound} : IsInjective(found)}

\* enrich_book builds the query from the book as it loads it, which may have
\* been edited by the time the provider answers; one of the query strings
\* has been answered, with whatever the provider thinks fits.
Search(s, query, found) ==
  /\ At(s, "idle")
  /\ Tiers(query) # {}
  /\ lookup' = [lookup EXCEPT ![s] = [NoLookup EXCEPT !.at = "load", !.todo = Range(found),
                                         !.accepted = Accepted(query, found)]]
  /\ UNCHANGED <<matches, review>>

RowsOf(v) == {i \in DOMAIN matches : matches[i].volume = v}

\* _upsert_match_row looks for the row of a candidate.
LookUp(s, v) ==
  /\ At(s, "load")
  /\ v \in lookup[s].todo
  /\ \/ /\ RowsOf(v) = {}
        /\ lookup' = [lookup EXCEPT ![s].todo = @ \ {v}, ![s].fresh = @ \cup {v}]
     \/ \E i \in RowsOf(v) :
          lookup' = [lookup EXCEPT ![s].todo = @ \ {v},
                       ![s].marked = IF matches[i].status = "applied" THEN @ \cup {i} ELSE @]
  /\ UNCHANGED <<matches, review>>

\* Mutant of Recorded: the rows of the other candidates are pending again.
RecordedAlone(s, row, i) ==
  IF row.volume \in lookup[s].accepted THEN [row EXCEPT !.status = "applied"]
  ELSE [row EXCEPT !.status = "pending"]

\* _record_acceptance marks the rows of the accepted candidate, but for one
\* the session believes to be marked.
Recorded(s, row, i) ==
  IF row.volume \in lookup[s].accepted /\ i \notin lookup[s].marked
  THEN [row EXCEPT !.status = "applied"]
  ELSE row

\* All candidates looked up: the flush, the acceptance and the commit.
StoreMatches(s) ==
  /\ At(s, "load") /\ lookup[s].todo = {}
  /\ Len(matches) + Cardinality(lookup[s].fresh) <= MaxRows
  /\ \E new \in SetToSeqs({[volume |-> v, status |-> "pending"] : v \in lookup[s].fresh}) :
       LET stored == matches \o new IN
       matches' = [i \in DOMAIN stored |-> Recorded(s, stored[i], i)]
  /\ lookup' = [t \in Lookups |->
                  IF t = s THEN NoLookup
                  ELSE [lookup[t] EXCEPT !.raced = ~At(t, "idle")]]
  /\ UNCHANGED review

\* It raises, or dies, before it commits.
AbortLookup(s) ==
  /\ ~At(s, "idle")
  /\ Leave(s)
  /\ UNCHANGED <<matches, review>>

-----------------------------------------------------------------------------
(* Reviewing.                                                              *)

\* apply_missing, apply_fields and reject_match load the row,
LoadMatch(r, i) ==
  /\ review[r] = NoReview
  /\ review' = [review EXCEPT ![r] = [row |-> i, status |-> matches[i].status]]
  /\ UNCHANGED <<matches, lookup>>

\* and commit its status, if it differs from the one they loaded.
SetStatus(r, status) ==
  /\ review[r] # NoReview
  /\ matches' = IF review[r].status = status THEN matches
                ELSE [matches EXCEPT ![review[r].row].status = status]
  /\ review' = [review EXCEPT ![r] = NoReview]
  /\ UNCHANGED lookup

Apply(r) == SetStatus(r, "applied")
Reject(r) == SetStatus(r, "rejected")

MatchNext ==
  \/ \E s \in Lookups :
       \/ StoreMatches(s) \/ AbortLookup(s)
       \/ \E query \in Facts, found \in Answers : Search(s, query, found)
       \/ \E v \in Volumes : LookUp(s, v)
  \/ \E r \in Reviewers :
       Apply(r) \/ Reject(r) \/ \E i \in DOMAIN matches : LoadMatch(r, i)

MatchSpec == MatchInit /\ [][MatchNext]_matchVars

-----------------------------------------------------------------------------
(* Properties.                                                             *)

\* What a lookup accepts on its own has the ISBN the book was queried by; or
\* the query had none, but a title and authors, and the title is the same:
\* never a volume of another ISBN, never a mere title.  (That the authors
\* agree is not required: such a match scores the threshold exactly.)  No
\* candidate of the answer scores higher.
AutoAppliedIsCertain ==
  [][\A s \in Lookups : lookup'[s].accepted # lookup[s].accepted =>
     \A query \in Facts, found \in Answers : Search(s, query, found) => \A v \in lookup'[s].accepted :
         /\ \/ query.isbn \in VolumeOf[v].isbns
            \/ query.isbn = NoIsbn /\ query.authors # {} /\ query.title = VolumeOf[v].title
         /\ \A w \in Range(found) : ScoreOf(query, w) <= ScoreOf(query, v)]_matchVars

Rejected(v) == RowsOf(v) # {} /\ \A i \in RowsOf(v) : matches[i].status = "rejected"

\* A candidate that has been rejected does not become pending again, however
\* often it is found and whatever reviews overlap ("Reject a match so it no
\* longer appears as pending"), unless two lookups of the book overlap: each
\* may then store a row of its own.
RejectedNotPending ==
  [][\A v \in Volumes : Rejected(v) =>
       \/ \A i \in DOMAIN matches' : matches'[i].volume = v => matches'[i].status # "pending"
       \/ \E s \in Lookups : lookup[s].raced /\ StoreMatches(s)]_matchVars
=============================================================================
