--------------------------- MODULE MetadataCuration ---------------------------
(***************************************************************************)
(* The metadata of one book and everything that writes it after the scan:  *)
(* enrichment by metadata_lookup jobs (metadata/enrichment.py) and the     *)
(* administrator's review (services/metadata_review.py), both through      *)
(* apply_fields (metadata/application.py).                                 *)
(*                                                                         *)
(* Each runs in a database session of its own that loads the book first    *)
(* and never again.  It reads the fields' provenance, decides, and writes  *)
(* at its commit: of the book's columns those that differ from the values  *)
(* it loaded, the provenance rows it found missing as new rows, and the    *)
(* search index from the values it has in hand.                            *)
(*                                                                         *)
(* Enrichment asks a provider between loading the book and reading the     *)
(* provenance, and stores the candidates it is given: that flush takes     *)
(* the database's write lock, which it keeps until its commit.             *)
(***************************************************************************)
EXTENDS FiniteSets

CONSTANTS
  Fields,       \* the indexed fields of a book that are one column each
  Values,       \* what they may hold
  Sessions,     \* database sessions at a time
  Kinds,        \* which operations the sessions run
  Empty,        \* the value of a missing field
  Keep,         \* a field the session does not write
  Nobody

ASSUME CurationAssumption ==
  /\ Kinds \subseteq {"enrich", "missing", "fields", "edit"}
  /\ Empty \notin Values /\ Keep \notin Values /\ Keep # Empty
  /\ Nobody \notin Sessions

VARIABLES
  value,        \* the book's columns
  prov,         \* metadata_provenance: the source of each field, or "none"
  index,        \* the book's row of books_fts
  lock,         \* the session that holds the write lock
  session       \* the local state of each session

curationVars == <<value, prov, index, lock, session>>

Contents == [Fields -> Values \cup {Empty}]
Sources == {"embedded", "google_books", "user"}
Provenance == [Fields -> Sources \cup {"none"}]

Locals == [at : {"idle", "loaded", "locked", "planned"},
           kind : {"enrich", "missing", "fields", "edit"},
           alone : BOOLEAN,      \* no other session was open since it began
           loaded : Contents,                          \* the book as loaded
           known : Provenance,                         \* the provenance as read
           new : [Fields -> Values \cup {Empty, Keep}]] \* what it will write

Blank == [f \in Fields |-> Empty]
Unmarked == [f \in Fields |-> "none"]
Nothing == [f \in Fields |-> Keep]
Rest == [at |-> "idle", kind |-> "edit", alone |-> FALSE, loaded |-> Blank, known |-> Unmarked,
         new |-> Nothing]

CurationTypeOK ==
  /\ value \in Contents /\ index \in Contents
  /\ prov \in Provenance
  /\ lock \in Sessions \cup {Nobody}
  /\ session \in [Sessions -> Locals]

\* The book as the scan that found it left it: a field it could fill is
\* "embedded", and all are indexed.
CurationInit ==
  /\ value \in Contents
  /\ prov = [f \in Fields |-> IF value[f] = Empty THEN "none" ELSE "embedded"]
  /\ index = value
  /\ lock = Nobody
  /\ session = [s \in Sessions |-> Rest]

At(s, point) == session[s].at = point
SourceIsKind(kind) == kind    \* mutant of SourceOf: a source that is not registered
SourceOf(kind) == IF kind = "edit" THEN "user" ELSE "google_books"

Close(s) ==
  /\ session' = [session EXCEPT ![s] = Rest]
  /\ lock' = IF lock = s THEN Nobody ELSE lock

Load(s, kind) ==
  /\ At(s, "idle")
  /\ session' = [t \in Sessions |->
                   IF t = s THEN [Rest EXCEPT !.at = "loaded", !.kind = kind, !.loaded = value,
                                              !.alone = \A u \in Sessions : At(u, "idle")]
                   ELSE [session[t] EXCEPT !.alone = FALSE]]
  /\ UNCHANGED <<value, prov, index, lock>>

\* Mutant of StoreCandidates: nothing is flushed, the lock not taken.
StoreUnflushed(s) ==
  /\ At(s, "loaded")
  /\ session[s].kind = "enrich"
  /\ session' = [session EXCEPT ![s].at = "locked"]
  /\ UNCHANGED <<value, prov, index, lock>>

\* _collect_candidates: the provider has answered, the candidate rows are
\* flushed.
StoreCandidates(s) ==
  /\ At(s, "loaded")
  /\ session[s].kind = "enrich"
  /\ lock = Nobody
  /\ lock' = s
  /\ session' = [session EXCEPT ![s].at = "locked"]
  /\ UNCHANGED <<value, prov, index>>

\* Mutant of Applicable: missing_only is ignored.
ApplicableAny(s, F) == {f \in F : prov[f] # "user"}

\* apply_fields for an offer that fills the fields F: those with user
\* provenance are skipped, and with missing_only those the session believes
\* to be filled.
Applicable(s, F) ==
  {f \in F : /\ prov[f] # "user"
             /\ session[s].kind # "fields" => session[s].loaded[f] = Empty}

\* What a session may decide to write, having read the provenance: an edit
\* sets the fields it names to anything, the others apply a candidate.
Decisions(s) ==
  IF session[s].kind = "edit"
  THEN [Fields -> Values \cup {Empty, Keep}] \ {Nothing}
  ELSE {[f \in Fields |-> IF f \in Applicable(s, F) THEN offer[f] ELSE Keep] :
          F \in SUBSET Fields, offer \in [Fields -> Values]}

Plan(s) ==
  /\ At(s, IF session[s].kind = "enrich" THEN "locked" ELSE "loaded")
  /\ \E new \in Decisions(s) :
       session' = [session EXCEPT ![s].at = "planned", ![s].known = prov, ![s].new = new]
  /\ UNCHANGED <<value, prov, index, lock>>

Written(s) == {f \in Fields : session[s].new[f] # Keep}

\* Mutant of MarkedAs: a provenance row is never updated.
MarkedOnce(s, f) ==
  IF session[s].known[f] = "none" THEN SourceOf(session[s].kind) ELSE prov[f]

\* The provenance of a written field: a row found missing is inserted, which
\* the unique key (book, field) refuses if there is one by now; a row found
\* is updated if its source is another one than it had.
MarkedAs(s, f) ==
  LET source == SourceOf(session[s].kind) IN
  IF session[s].known[f] = source THEN prov[f] ELSE source

Unique(s) ==
  \A f \in Written(s) : session[s].known[f] = "none" => prov[f] = "none"

NotReindexed(s) == index      \* mutant of Reindexed: the index is forgotten

\* index_book, from the book as the session has it.
Reindexed(s) ==
  IF Written(s) = {} THEN index
  ELSE [f \in Fields |-> IF f \in Written(s) THEN session[s].new[f]
                         ELSE session[s].loaded[f]]

Commit(s) ==
  LET mine == session[s] IN
  /\ At(s, "planned")
  /\ lock \in {Nobody, s}
  /\ Unique(s)
  /\ value' = [f \in Fields |->
                 IF f \in Written(s) /\ mine.new[f] # mine.loaded[f] THEN mine.new[f]
                 ELSE value[f]]
  /\ prov' = [f \in Fields |-> IF f \in Written(s) THEN MarkedAs(s, f) ELSE prov[f]]
  /\ index' = Reindexed(s)
  /\ Close(s)

\* No candidate is good enough, a constraint or the busy timeout strikes, a
\* title is empty, the server is killed: nothing is written.
Abandon(s) ==
  /\ ~At(s, "idle")
  /\ Close(s)
  /\ UNCHANGED <<value, prov, index>>

CurationNext ==
  \E s \in Sessions :
    \/ \E kind \in Kinds : Load(s, kind)
    \/ StoreCandidates(s) \/ Plan(s) \/ Commit(s) \/ Abandon(s)

CurationSpec == CurationInit /\ [][CurationNext]_curationVars

-----------------------------------------------------------------------------
(* Properties.                                                             *)

\* The sessions of the given kinds that take this step.
Stepping(kinds) == {s \in Sessions : session[s].kind \in kinds /\ session'[s] # session[s]}

\* What a user has entered stays, and stays marked as the user's, until a
\* user changes it: no automation or bulk action overwrites it.
UserEditsSurvive ==
  [][Stepping({"edit"}) = {} =>
       \A f \in Fields :
         prov[f] = "user" => value'[f] = value[f] /\ prov'[f] = "user"]_curationVars

\* An enrichment overwrites nothing that a user has entered, whatever
\* sessions overlap it; neither does a review that no session overlaps.
AutomationYields ==
  [][(\A s \in Stepping({"missing", "fields"}) : session[s].alone) /\ Stepping({"edit"}) = {} =>
       \A f \in Fields :
         prov[f] = "user" => value'[f] = value[f] /\ prov'[f] = "user"]_curationVars

\* Filling missing fields leaves every existing value, of any provenance,
\* as it is, if no other session overlaps.
MissingOnlyFillsEmpty ==
  [][\A s \in Stepping({"enrich", "missing"}) : session[s].alone =>
       \A f \in Fields : value[f] # Empty => value'[f] = value[f]]_curationVars

\* An edit that is not refused and that no session overlaps has the effect it
\* asked for.
EditTakesEffect ==
  [][\A s \in Stepping({"edit"}) : Commit(s) /\ session[s].alone =>
       \A f \in Written(s) : value'[f] = session[s].new[f] /\ prov'[f] = "user"]_curationVars

\* A commit that writes, and that no session overlaps, leaves the search
\* index as the catalog is, whatever overlapping ones left there before.
IndexInSync ==
  [][\A s \in Sessions : Commit(s) /\ session[s].alone /\ Written(s) # {} =>
       index' = value']_curationVars
=============================================================================
